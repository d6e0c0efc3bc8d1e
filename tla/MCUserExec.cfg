SPECIFICATION Spec
CONSTANTS
  a = a
  b = b
  SpanStart = 1024
  SpanSize = 512
  LabelSize = 3
  Entries <- MCEntries
  MaxPaks = 3
  Names <- MCNames
  Magic = Magic
  Erased = Erased
  Programs <- MCPrograms
  Places <- MCPlaces
  Room = 16
INVARIANTS WalkOnPaks LookupFinds LoadedAsLinked
 
CHECK_DEADLOCK FALSE
