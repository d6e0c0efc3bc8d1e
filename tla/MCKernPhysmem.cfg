SPECIFICATION RamSpec
CONSTANTS
  BootRanges <- MCRanges
  MaxRegions = 3
  HeaderSize = 2
  MinAlloc = 1
  Requests <- MCRequests
INVARIANTS
  BlocksTile
  HeadersIntact
  ListInRam
PROPERTIES
  FreedIsReusable
  CallersPromise
