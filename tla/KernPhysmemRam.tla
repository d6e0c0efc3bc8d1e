--------------------------- MODULE KernPhysmemRam ---------------------------
(***************************************************************************)
(* The free list and the headers of KernPhysmem, where physmem.c keeps     *)
(* them: in the memory that it hands out.  Each action is one of           *)
(* KernPhysmem together with what it writes there, in its order, beside an *)
(* action for the owner of a block, who may write whatever it has been     *)
(* given.                                                                  *)
(*                                                                         *)
(* What the operations of KernPhysmem read from freelist and live, the     *)
(* code reads by following the pointers and from the headers.  ListInRam   *)
(* says that it reads the same.                                            *)
(***************************************************************************)
EXTENDS KernPhysmem, List

VARIABLE
  ram   \* list: kern_physmem_free_list and the nodes in the headers;
        \* block: the start and size in each header nothing has overwritten

ramVars == <<vars, ram>>

Header(a) == [start |-> a, size |-> HeaderSize]

Spared(field, b) == Restrict(field, {a \in DOMAIN field : Apart(Header(a), b)})

\* The cells of b are written; every header that has one of them is gone.
Overwrite(m, b) ==
  [list |-> [head |-> m.list.head, tail |-> m.list.tail,
             prev |-> Spared(m.list.prev, b), next |-> Spared(m.list.next, b)],
   block |-> Spared(m.block, b)]

\* A header for block b is written at a, its node cleared.
WriteHeader(m, a, b) ==
  LET o == Overwrite(m, Header(a))
  IN  [list |-> ListNodeInit(o.list, a), block |-> Put(o.block, a, b)]

\* kern_physmem_init_memory_region_node.
InitMemoryRegionNode(m, b) == WriteHeader(m, b.start, b)

\* kern_physmem_add_to_free_list_locked.
AddToFreeList(m, b) ==
  LET o == InitMemoryRegionNode(m, b)
  IN  [list |-> ListAddTail(o.list, b.start), block |-> o.block]

\* kern_physmem_init.
RamInit == Init /\ ram = [list |-> ListHeadInit, block |-> << >>]

RamAddRange ==
  /\ AddRange
  /\ LET r == BootRanges[added + 1]
     IN  ram' = IF added < MaxRegions /\ r.usable THEN AddToFreeList(ram, RangeBlock(r)) ELSE ram

\* What the header of an allocation says: the whole of its block.
Taken(b, r) ==
  [start |-> b.start, size |-> IF Splits(b, r) THEN Needed(b, r) ELSE b.size]

\* The entry comes off the list; what is left over goes back to its tail.
RamAfterSplit(b, r) ==
  LET off == [list |-> ListDelete(ram.list, b.start), block |-> ram.block]
  IN  IF Splits(b, r) THEN AddToFreeList(off, Rest(b, r)) ELSE off

\* The memory is zeroed if the caller has asked for it, and the header is put
\* before the payload.
RamAfterAlloc(b, r, zero) ==
  LET split == RamAfterSplit(b, r)
      clean == IF zero THEN Overwrite(split, Taken(b, r)) ELSE split
  IN  WriteHeader(clean, PayloadStart(b, r) - HeaderSize, Taken(b, r))

RamAlloc(i, r, zero) == AllocFrom(i, r) /\ ram' = RamAfterAlloc(freelist[i], r, zero)

\* The block is the one in the header before the payload; its own header is
\* written at its start and linked in before the entry at pos.
RamAfterFree(p, pos) ==
  LET b == ram.block[p - HeaderSize]
      m == InitMemoryRegionNode(ram, b)
  IN  [list |-> IF pos \in DOMAIN freelist /\ freelist[pos].start > b.start
                  THEN ListAddBefore(m.list, freelist[pos].start, b.start)
                  ELSE ListAddHead(m.list, b.start),
       block |-> m.block]

RamFree(p) ==
  /\ Free(p)
  /\ \E pos \in 1 .. Len(freelist) + 1 :
       FreeSpot(BlockOf(p), pos) /\ ram' = RamAfterFree(p, pos)

\* The owner of a block writes all the memory it has asked for.
OwnerWrites(p) ==
  /\ ram' = Overwrite(ram, [start |-> p, size |-> live[p].req.size])
  /\ UNCHANGED vars

RamNext ==
  \/ RamAddRange
  \/ \E r \in Requests, zero \in BOOLEAN : \E i \in DOMAIN freelist : RamAlloc(i, r, zero)
  \/ \E p \in DOMAIN live : RamFree(p) \/ OwnerWrites(p)

RamSpec == RamInit /\ [][RamNext]_ramVars

-----------------------------------------------------------------------------
HasHeader(m, a, b) == a \in DOMAIN m.block /\ m.block[a] = b

FreeStarts == [i \in DOMAIN freelist |-> freelist[i].start]

\* Following the pointers from kern_physmem_free_list, through memory that is
\* handed out, zeroed, split and written by its owners, meets the free blocks and
\* nothing else, in their order; every header that is read, a free block's or an
\* allocation's, says what was last written there.
ListInRam ==
  /\ Spells(ram.list, FreeStarts)
  /\ \A i \in DOMAIN freelist : HasHeader(ram, freelist[i].start, freelist[i])
  /\ \A p \in DOMAIN live : HasHeader(ram, p - HeaderSize, BlockOf(p))
=============================================================================
