----------------------------- MODULE KernPhysmem -----------------------------
(***************************************************************************)
(* The physical memory allocator, src/src/kern/core/physmem.c, and the     *)
(* kern_malloc of malloc.c, which passes everything on to it.  Every       *)
(* operation is one section under kern_physmem_spinlock, so one step.      *)
(*                                                                         *)
(* A block is a run of cells [start, size].  A free block begins with its  *)
(* header.  An allocation's header, which records the block it lies in,    *)
(* ends where its payload begins, wherever alignment put that.             *)
(***************************************************************************)
EXTENDS Integers, SequencesExt

CONSTANTS
  BootRanges,   \* the ranges main() adds, in order: [start, end, usable]
  MaxRegions,   \* KERN_PHYSMEM_NUM_BOOTSTRAP_REGIONS
  HeaderSize,   \* sizeof(struct kern_physmem_free_entry)
  MinAlloc,     \* KERN_PHYSMEM_MINIMUM_ALLOCATION_SIZE
  Requests      \* the [size, align] pairs callers ask for

Block == [start : Nat, size : Nat]

Apart(b, c) == b.start + b.size <= c.start \/ c.start + c.size <= b.start

\* The cells from start to end - 1 of a range.
RangeBlock(r) == [start |-> r.start, size |-> r.end - r.start]

ASSUME PhysmemAssumption ==
  /\ HeaderSize \in Nat \ {0} /\ MinAlloc \in Nat /\ MaxRegions \in Nat
  /\ BootRanges \in Seq([start : Nat \ {0}, end : Nat, usable : BOOLEAN])
  /\ \A k \in DOMAIN BootRanges : BootRanges[k].end >= BootRanges[k].start + HeaderSize
  /\ \A k, l \in DOMAIN BootRanges :
       k # l => Apart(RangeBlock(BootRanges[k]), RangeBlock(BootRanges[l]))
  /\ Requests \subseteq [size : Nat \ {0}, align : Nat]

VARIABLES
  added,     \* how many of BootRanges have been passed to kern_physmem_add_range
  freelist,  \* kern_physmem_free_list, a sequence of blocks
  live       \* payload address |-> its header [start, size] and what was asked for

vars == <<added, freelist, live>>

\* The ranges the allocator hands out memory from.
Usable == {k \in 1 .. added : k <= MaxRegions /\ BootRanges[k].usable}

TypeOK ==
  /\ added \in 0 .. Len(BootRanges)
  /\ freelist \in Seq(Block)
  /\ DOMAIN live \subseteq Nat
  /\ \A p \in DOMAIN live :
       live[p] \in [start : Nat, size : Nat, req : [size : Nat \ {0}, align : Nat]]

Init == added = 0 /\ freelist = << >> /\ live = << >>

-----------------------------------------------------------------------------
AddRange ==
  LET r == BootRanges[added + 1] IN
  /\ added < Len(BootRanges)
  /\ added' = added + 1
  /\ freelist' = IF added < MaxRegions /\ r.usable THEN Append(freelist, RangeBlock(r))
                                                 ELSE freelist
  /\ UNCHANGED live

-----------------------------------------------------------------------------
\* Faulty variant: aligns the offset in the block instead of the address.
PaddingOfOffset(b, r) ==
  IF r.align = 0 THEN 0 ELSE r.align - (HeaderSize % r.align)

\* The cells skipped to align the payload: never none when an alignment is asked
\* for, a whole one if the payload is aligned already.
Padding(b, r) ==
  IF r.align = 0 THEN 0 ELSE r.align - ((b.start + HeaderSize) % r.align)

PayloadStart(b, r) == b.start + HeaderSize + Padding(b, r)

\* Faulty variant: the padding is added to the address but not to the size.
NeededWithoutPadding(b, r) == r.size + HeaderSize

\* alloc_size: header, padding and payload.
Needed(b, r) == r.size + HeaderSize + Padding(b, r)

Fits(b, r) == Needed(b, r) <= b.size

FirstFit(i, r) == Fits(freelist[i], r) /\ \A j \in 1 .. i - 1 : ~Fits(freelist[j], r)

Splits(b, r) == b.size - Needed(b, r) > MinAlloc + HeaderSize

\* Faulty variant: what is left over is counted from the payload.
RestOverlapping(b, r) == [start |-> b.start + r.size + HeaderSize, size |-> b.size - Needed(b, r)]

Rest(b, r) == [start |-> b.start + Needed(b, r), size |-> b.size - Needed(b, r)]

AllocFrom(i, r) ==
  LET b == freelist[i]
      header == [start |-> b.start,
                 size |-> IF Splits(b, r) THEN Needed(b, r) ELSE b.size,
                 req |-> r]
  IN  /\ FirstFit(i, r)
      /\ freelist' = IF Splits(b, r) THEN Append(RemoveAt(freelist, i), Rest(b, r))
                                     ELSE RemoveAt(freelist, i)
      /\ live' = [p \in DOMAIN live \cup {PayloadStart(b, r)} |->
                    IF p = PayloadStart(b, r) THEN header ELSE live[p]]
      /\ UNCHANGED added

\* kern_physmem_alloc returns 0.
NoFit(r) == \A i \in DOMAIN freelist : ~Fits(freelist[i], r)

-----------------------------------------------------------------------------
\* Faulty variant: the block is taken to begin at the header.
BlockFromHeader(p) ==
  [start |-> p - HeaderSize, size |-> live[p].size - (p - HeaderSize - live[p].start)]

BlockOf(p) == [start |-> live[p].start, size |-> live[p].size]

\* Before the first free block with a higher address, or else at the head.
FreeSpot(b, pos) ==
  \/ /\ pos \in DOMAIN freelist
     /\ freelist[pos].start > b.start
     /\ \A i \in 1 .. pos - 1 : freelist[i].start <= b.start
  \/ /\ pos = 1
     /\ \A i \in DOMAIN freelist : freelist[i].start <= b.start

Free(p) ==
  /\ \E pos \in 1 .. Len(freelist) + 1 :
       /\ FreeSpot(BlockOf(p), pos)
       /\ freelist' = InsertAt(freelist, pos, BlockOf(p))
  /\ live' = Restrict(live, DOMAIN live \ {p})
  /\ UNCHANGED added

Next == \/ AddRange
        \/ \E r \in Requests : \E i \in DOMAIN freelist : AllocFrom(i, r)
        \/ \E p \in DOMAIN live : Free(p)

Spec == Init /\ [][Next]_vars

-----------------------------------------------------------------------------
Cells(start, size) == start .. start + size - 1

Pool == UNION {BootRanges[k].start .. BootRanges[k].end - 1 : k \in Usable}

\* Every cell of the usable ranges (add_range) is in exactly one block, free or
\* allocated, however the list was split and put together: nothing is handed out
\* twice and nothing is lost.
BlocksApart ==
  /\ \A i, j \in DOMAIN freelist : i # j => Apart(freelist[i], freelist[j])
  /\ \A p, q \in DOMAIN live : p # q => Apart(live[p], live[q])
  /\ \A i \in DOMAIN freelist, p \in DOMAIN live : Apart(freelist[i], live[p])

BlocksInPool ==
  /\ \A i \in DOMAIN freelist : Cells(freelist[i].start, freelist[i].size) \subseteq Pool
  /\ \A p \in DOMAIN live : Cells(live[p].start, live[p].size) \subseteq Pool

PoolCovered ==
  \A x \in Pool : \/ \E i \in DOMAIN freelist : x \in Cells(freelist[i].start, freelist[i].size)
                  \/ \E p \in DOMAIN live : x \in Cells(live[p].start, live[p].size)

BlocksTile == BlocksApart /\ BlocksInPool /\ PoolCovered

\* An owner that writes all of its memory, and nothing else, touches no header
\* that the allocator still reads, its own or another's: the magic numbers that
\* kern_physmem_alloc and kern_physmem_free verify never fail.
HeaderStarts == {freelist[i].start : i \in DOMAIN freelist} \cup {p - HeaderSize : p \in DOMAIN live}

HeadersIntact ==
  \A p \in DOMAIN live, h \in HeaderStarts :
    Apart([start |-> p, size |-> live[p].req.size], [start |-> h, size |-> HeaderSize])

\* What was taken can be had again: whoever frees memory and at once asks for as
\* much, as the kernel's test task does every five seconds, gets it.
FreedIsReusable ==
  [][\A p \in DOMAIN live \ DOMAIN live' :
       \E i \in DOMAIN freelist' : Fits(freelist'[i], live[p].req)]_vars

\* The blocks of kern_physmem_alloc are memory as its callers think of it.
Held == [p \in DOMAIN live |-> live[p].req]

Promise == INSTANCE Memory WITH pool <- Pool, held <- Held

CallersPromise == Promise!Spec
=============================================================================
