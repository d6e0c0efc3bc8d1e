-------------------------- MODULE KernPhysmemProofs --------------------------
(***************************************************************************)
(* Theorems about KernPhysmem, for any ranges, sizes and alignments that   *)
(* satisfy PhysmemAssumption.                                              *)
(***************************************************************************)
EXTENDS KernPhysmem, KernLists

\* Where alignment put a payload: after its header, inside its block.
PayloadsPlaced ==
  \A p \in DOMAIN live :
    /\ live[p].start + HeaderSize <= p
    /\ p + live[p].req.size <= live[p].start + live[p].size
    /\ Promise!Aligned(p, live[p].req.align)

FreeHoldHeaders == \A i \in DOMAIN freelist : freelist[i].size >= HeaderSize

\* The ranges that are still to be added touch no block.
RangesAhead ==
  \A k \in added + 1 .. Len(BootRanges) :
    /\ \A i \in DOMAIN freelist : Apart(RangeBlock(BootRanges[k]), freelist[i])
    /\ \A p \in DOMAIN live : Apart(RangeBlock(BootRanges[k]), live[p])

\* Each payload is where kern_physmem_alloc would put it in its block again.
PayloadsRecorded ==
  \A p \in DOMAIN live :
    /\ live[p].req \in Requests
    /\ p = PayloadStart(BlockOf(p), live[p].req)

Separate == TypeOK /\ BlocksApart /\ PayloadsPlaced /\ FreeHoldHeaders /\ RangesAhead

IInv == Separate /\ BlocksInPool /\ PoolCovered /\ PayloadsRecorded

-----------------------------------------------------------------------------
\* Adding the padding of kern_physmem_alloc makes an address a multiple of the
\* alignment.
LEMMA AlignUp ==
  ASSUME NEW x \in Nat, NEW a \in Nat \ {0}
  PROVE  /\ a - (x % a) \in 1 .. a
         /\ (x + (a - (x % a))) % a = 0
<1> DEFINE q == x \div a
           m == x % a
<1>1. x = a * q + m /\ m \in 0 .. a - 1 /\ q \in Nat
  OBVIOUS
<1> HIDE DEF q, m
<1>2. x + (a - m) = a * (q + 1)
  BY <1>1
<1>3. (a * (q + 1)) % a = 0
  <2>1. \A k \in Nat : (a * k) % a = 0
    OBVIOUS
  <2>2. QED
    BY <1>1, <2>1
<1>4. QED
  BY <1>1, <1>2, <1>3 DEF m

\* What kern_physmem_alloc computes from a free block and a request.
LEMMA AllocArithmetic ==
  ASSUME NEW b \in Block, NEW r \in Requests
  PROVE  /\ Padding(b, r) \in Nat /\ Needed(b, r) \in Nat /\ PayloadStart(b, r) \in Nat
         /\ HeaderSize \in Nat \ {0} /\ MinAlloc \in Nat
         /\ r.size \in Nat \ {0} /\ r.align \in Nat
         /\ b.start \in Nat /\ b.size \in Nat
         /\ PayloadStart(b, r) >= b.start + HeaderSize
         /\ PayloadStart(b, r) + r.size = b.start + Needed(b, r)
         /\ Promise!Aligned(PayloadStart(b, r), r.align)
<1>1. /\ HeaderSize \in Nat \ {0} /\ MinAlloc \in Nat
      /\ r.size \in Nat \ {0} /\ r.align \in Nat
      /\ b.start \in Nat /\ b.size \in Nat
  BY PhysmemAssumption DEF Block
<1>2. CASE r.align = 0
  BY <1>1, <1>2 DEF Padding, Needed, PayloadStart, Promise!Aligned
<1>3. CASE r.align # 0
  <2> DEFINE x == b.start + HeaderSize
  <2>0. x \in Nat /\ r.align \in Nat \ {0} /\ Padding(b, r) = r.align - (x % r.align)
    BY <1>1, <1>3 DEF Padding
  <2> HIDE DEF x
  <2>1. /\ Padding(b, r) \in 1 .. r.align
        /\ (x + Padding(b, r)) % r.align = 0
    BY <2>0, AlignUp
  <2>2. x + Padding(b, r) = PayloadStart(b, r)
    BY DEF PayloadStart, x
  <2>3. Promise!Aligned(PayloadStart(b, r), r.align)
    BY <2>1, <2>2 DEF Promise!Aligned
  <2>4. Padding(b, r) \in Nat
    BY <2>0, <2>1
  <2>5. /\ Needed(b, r) \in Nat /\ PayloadStart(b, r) \in Nat
        /\ PayloadStart(b, r) >= b.start + HeaderSize
        /\ PayloadStart(b, r) + r.size = b.start + Needed(b, r)
    BY <1>1, <2>4 DEF Needed, PayloadStart
  <2>6. QED
    BY <1>1, <2>3, <2>4, <2>5
<1>4. QED
  BY <1>2, <1>3

\* The free list after an allocation: the other blocks, in order, and the rest of
\* the one that was taken if it was split.
LEMMA FreelistAfterAlloc ==
  ASSUME TypeOK, NEW r \in Requests, NEW i \in DOMAIN freelist, AllocFrom(i, r)
  PROVE  LET n == Len(freelist)
             b == freelist[i]
         IN  /\ freelist' \in Seq(Block)
             /\ Len(freelist') = IF Splits(b, r) THEN n ELSE n - 1
             /\ \A j \in 1 .. n - 1 :
                  freelist'[j] = IF j < i THEN freelist[j] ELSE freelist[j + 1]
             /\ Splits(b, r) => freelist'[n] = Rest(b, r)
<1> DEFINE n == Len(freelist)
           b == freelist[i]
           q == RemoveAt(freelist, i)
<1>1. freelist \in Seq(Block) /\ i \in 1 .. n /\ n \in Nat /\ b \in Block
  BY DEF TypeOK
<1>2. /\ q \in Seq(Block) /\ Len(q) = n - 1
      /\ \A j \in 1 .. n - 1 : q[j] = IF j < i THEN freelist[j] ELSE freelist[j + 1]
  BY <1>1, RemoveAtIsShift
<1>3. freelist' = IF Splits(b, r) THEN Append(q, Rest(b, r)) ELSE q
  BY DEF AllocFrom
<1>4. Splits(b, r) => Rest(b, r) \in Block
  BY <1>1, AllocArithmetic DEF Splits, Rest, Block
<1> HIDE DEF q, b, n
<1>5. CASE Splits(b, r)
  BY <1>1, <1>2, <1>3, <1>4, <1>5 DEF b, n
<1>6. CASE ~Splits(b, r)
  BY <1>1, <1>2, <1>3, <1>6 DEF b, n
<1>7. QED
  BY <1>5, <1>6

\* The allocations after an allocation: the old ones and one new one.
LEMMA LiveAfterAlloc ==
  ASSUME TypeOK, PayloadsPlaced, BlocksApart,
         NEW r \in Requests, NEW i \in DOMAIN freelist, AllocFrom(i, r)
  PROVE  LET b == freelist[i]
             a == PayloadStart(b, r)
         IN  /\ a \notin DOMAIN live
             /\ DOMAIN live' = DOMAIN live \cup {a}
             /\ \A p \in DOMAIN live : live'[p] = live[p]
             /\ live'[a] = [start |-> b.start,
                            size |-> IF Splits(b, r) THEN Needed(b, r) ELSE b.size,
                            req |-> r]
<1> DEFINE b == freelist[i]
           a == PayloadStart(b, r)
<1>1. b \in Block
  BY DEF TypeOK
<1>2. Needed(b, r) <= b.size
  BY DEF AllocFrom, FirstFit, Fits
<1>3. a \notin DOMAIN live
  <2>1. SUFFICES ASSUME a \in DOMAIN live PROVE FALSE
    OBVIOUS
  <2>2. Apart(b, live[a])
    BY <2>1 DEF BlocksApart
  <2>3. /\ live[a].start + HeaderSize <= a
        /\ a + live[a].req.size <= live[a].start + live[a].size
        /\ live[a].start \in Nat /\ live[a].size \in Nat /\ live[a].req.size \in Nat \ {0}
    BY <2>1 DEF PayloadsPlaced, TypeOK
  <2>4. QED
    BY <1>1, <1>2, <2>2, <2>3, AllocArithmetic DEF Apart
<1>4. QED
  BY <1>3 DEF AllocFrom

-----------------------------------------------------------------------------
(* The parts that make the blocks separate. *)

\* What PhysmemAssumption says of one range.
LEMMA RangeFacts ==
  ASSUME NEW k \in 1 .. Len(BootRanges)
  PROVE  LET b == RangeBlock(BootRanges[k])
         IN  /\ k \in DOMAIN BootRanges
             /\ b \in Block /\ b.start \in Nat /\ b.size \in Nat /\ b.size >= HeaderSize
             /\ \A l \in 1 .. Len(BootRanges) : k # l => Apart(b, RangeBlock(BootRanges[l]))
             /\ Cells(b.start, b.size) = BootRanges[k].start .. BootRanges[k].end - 1
<1> DEFINE R == [start : Nat \ {0}, end : Nat, usable : BOOLEAN]
           r == BootRanges[k]
<1>1. BootRanges \in Seq(R) /\ HeaderSize \in Nat
  BY PhysmemAssumption
<1> HIDE DEF R
<1>2. k \in DOMAIN BootRanges /\ DOMAIN BootRanges = 1 .. Len(BootRanges)
  BY <1>1
<1>3. BootRanges[k] \in R
  BY <1>1
<1>4. r.start \in Nat /\ r.end \in Nat
  BY <1>3 DEF R
<1>5. /\ r.end >= r.start + HeaderSize
      /\ \A l \in 1 .. Len(BootRanges) : k # l => Apart(RangeBlock(r), RangeBlock(BootRanges[l]))
  BY <1>2, PhysmemAssumption
<1> HIDE DEF r
<1>6. /\ RangeBlock(r) \in Block
      /\ RangeBlock(r).start = r.start /\ RangeBlock(r).size = r.end - r.start
      /\ RangeBlock(r).size \in Nat /\ RangeBlock(r).size >= HeaderSize
  BY <1>1, <1>4, <1>5 DEF RangeBlock, Block
<1>7. Cells(RangeBlock(r).start, RangeBlock(r).size) = r.start .. r.end - 1
  BY <1>4, <1>6 DEF Cells
<1>8. QED
  BY <1>2, <1>4, <1>5, <1>6, <1>7 DEF r

\* The blocks are pairs of natural numbers.
LEMMA BlockFacts ==
  ASSUME TypeOK
  PROVE  /\ \A j \in DOMAIN freelist :
              freelist[j] \in Block /\ freelist[j].start \in Nat /\ freelist[j].size \in Nat
         /\ \A p \in DOMAIN live :
              /\ p \in Nat /\ live[p].start \in Nat /\ live[p].size \in Nat
              /\ live[p].req.size \in Nat \ {0} /\ live[p].req.align \in Nat
<1>1. ASSUME NEW j \in DOMAIN freelist
      PROVE  freelist[j] \in Block /\ freelist[j].start \in Nat /\ freelist[j].size \in Nat
  <2>1. freelist[j] \in Block
    BY DEF TypeOK
  <2>2. QED
    BY <2>1 DEF Block
<1>2. QED
  BY <1>1 DEF TypeOK

\* The first layer holds at boot,
LEMMA SeparateInit == Init => Separate
<1> SUFFICES ASSUME Init PROVE Separate
  OBVIOUS
<1>1. TypeOK
  BY PhysmemAssumption DEF Init, TypeOK
<1>2. BlocksApart /\ PayloadsPlaced /\ FreeHoldHeaders /\ RangesAhead
  BY DEF Init, BlocksApart, PayloadsPlaced, FreeHoldHeaders, RangesAhead
<1>3. QED
  BY <1>1, <1>2 DEF Separate

\* ... a range that is added keeps it,
LEMMA SeparateAddRange == Separate /\ AddRange => Separate'
<1> SUFFICES ASSUME Separate, AddRange PROVE Separate'
  OBVIOUS
<1> DEFINE k == added + 1
           b == RangeBlock(BootRanges[k])
           n == Len(freelist)
<1>1. /\ TypeOK /\ BlocksApart /\ PayloadsPlaced /\ FreeHoldHeaders /\ RangesAhead
      /\ live' = live /\ added' = k
  BY DEF Separate, AddRange
<1>2. /\ k \in 1 .. Len(BootRanges) /\ k \in DOMAIN BootRanges
      /\ b \in Block /\ b.start \in Nat /\ b.size \in Nat /\ b.size >= HeaderSize
  <2>1. k \in 1 .. Len(BootRanges) /\ k \in DOMAIN BootRanges
    BY <1>1, PhysmemAssumption DEF AddRange, TypeOK
  <2>2. QED
    BY <2>1, RangeFacts
<1>3. /\ freelist \in Seq(Block) /\ n \in Nat /\ DOMAIN freelist = 1 .. n
  BY <1>1 DEF TypeOK
<1>4. CASE freelist' = freelist
  BY <1>1, <1>2, <1>4, PhysmemAssumption
  DEF Separate, TypeOK, BlocksApart, PayloadsPlaced, FreeHoldHeaders, RangesAhead
<1>5. CASE freelist' = Append(freelist, b)
  <2> HIDE DEF b
  <2>1. /\ freelist' \in Seq(Block)
        /\ DOMAIN freelist' = 1 .. n + 1
        /\ \A i \in 1 .. n : freelist'[i] = freelist[i]
        /\ freelist'[n + 1] = b
    BY <1>2, <1>3, <1>5
  <2>2. /\ \A i \in DOMAIN freelist : Apart(b, freelist[i])
        /\ \A p \in DOMAIN live : Apart(b, live[p])
    BY <1>1, <1>2 DEF RangesAhead, b
  <2>3. TypeOK'
    BY <1>1, <1>2, <2>1 DEF TypeOK
  <2>4. BlocksApart'
    BY <1>1, <1>3, <2>1, <2>2 DEF BlocksApart, Apart
  <2>5. PayloadsPlaced' /\ FreeHoldHeaders'
    BY <1>1, <1>2, <1>3, <2>1 DEF PayloadsPlaced, FreeHoldHeaders
  <2>6. RangesAhead'
    <3>1. SUFFICES ASSUME NEW l \in k + 1 .. Len(BootRanges)
                   PROVE  /\ \A i \in DOMAIN freelist' : Apart(RangeBlock(BootRanges[l]), freelist'[i])
                          /\ \A p \in DOMAIN live : Apart(RangeBlock(BootRanges[l]), live[p])
      BY <1>1 DEF RangesAhead
    <3>2. l \in added + 1 .. Len(BootRanges) /\ l # k /\ l \in DOMAIN BootRanges
      BY <1>1, <1>2 DEF TypeOK
    <3>3. Apart(RangeBlock(BootRanges[l]), b)
      BY <1>1, <1>2, <3>2, RangeFacts DEF TypeOK, b
    <3>4. QED
      BY <1>1, <1>3, <2>1, <3>2, <3>3 DEF RangesAhead
  <2>7. QED
    BY <2>3, <2>4, <2>5, <2>6 DEF Separate
<1>6. QED
  BY <1>4, <1>5 DEF AddRange

\* ... an allocation, split or not, keeps it,
LEMMA SeparateAlloc ==
  ASSUME Separate, NEW r \in Requests, NEW i \in DOMAIN freelist, AllocFrom(i, r)
  PROVE  Separate'
<1> DEFINE n == Len(freelist)
           b == freelist[i]
           a == PayloadStart(b, r)
           Old(j) == IF j < i THEN j ELSE j + 1
<1>1. TypeOK /\ BlocksApart /\ PayloadsPlaced /\ FreeHoldHeaders /\ RangesAhead
  BY DEF Separate
<1>2. freelist \in Seq(Block) /\ n \in Nat /\ i \in 1 .. n /\ b \in Block /\ added' = added
  BY <1>1 DEF TypeOK, AllocFrom
<1>3. /\ freelist' \in Seq(Block)
      /\ DOMAIN freelist' = 1 .. (IF Splits(b, r) THEN n ELSE n - 1)
      /\ \A j \in 1 .. n - 1 :
           Old(j) \in DOMAIN freelist /\ Old(j) # i /\ freelist'[j] = freelist[Old(j)]
      /\ \A j, l \in 1 .. n - 1 : j # l => Old(j) # Old(l)
      /\ Splits(b, r) => freelist'[n] = Rest(b, r)
  BY <1>1, <1>2, FreelistAfterAlloc
<1>4. /\ a \notin DOMAIN live
      /\ DOMAIN live' = DOMAIN live \cup {a}
      /\ \A p \in DOMAIN live : live'[p] = live[p]
      /\ live'[a] = [start |-> b.start,
                     size |-> IF Splits(b, r) THEN Needed(b, r) ELSE b.size,
                     req |-> r]
  BY <1>1, LiveAfterAlloc
<1>5. Needed(b, r) <= b.size
  BY DEF AllocFrom, FirstFit, Fits
<1>6. /\ Needed(b, r) \in Nat /\ a \in Nat
      /\ HeaderSize \in Nat \ {0} /\ MinAlloc \in Nat
      /\ r.size \in Nat \ {0} /\ r.align \in Nat /\ r \in [size : Nat \ {0}, align : Nat]
      /\ b.start \in Nat /\ b.size \in Nat
      /\ a >= b.start + HeaderSize
      /\ a + r.size = b.start + Needed(b, r)
      /\ Promise!Aligned(a, r.align)
  BY <1>2, AllocArithmetic, PhysmemAssumption
\* The new allocation's block and what is left of b divide b.
<1>7. /\ live'[a].start = b.start /\ live'[a].size \in Nat /\ live'[a].req = r
      /\ live'[a].size <= b.size /\ live'[a].size >= Needed(b, r)
  BY <1>4, <1>5, <1>6
<1>8. ASSUME Splits(b, r)
      PROVE  /\ Rest(b, r).start = b.start + live'[a].size
             /\ Rest(b, r).start + Rest(b, r).size = b.start + b.size
             /\ Rest(b, r).size >= HeaderSize
             /\ Rest(b, r).start \in Nat /\ Rest(b, r).size \in Nat
  BY <1>4, <1>6, <1>8 DEF Splits, Rest
<1> HIDE DEF n, b, a
\* Whatever keeps away from b keeps away from both.
<1>9. ASSUME NEW c, c.start \in Nat, c.size \in Nat, Apart(c, b)
      PROVE  /\ Apart(c, live'[a]) /\ Apart(live'[a], c)
             /\ Splits(b, r) => Apart(c, Rest(b, r)) /\ Apart(Rest(b, r), c)
  BY <1>6, <1>7, <1>8, <1>9 DEF Apart
<1>10. /\ \A j \in DOMAIN freelist : freelist[j].start \in Nat /\ freelist[j].size \in Nat
       /\ \A p \in DOMAIN live : live[p].start \in Nat /\ live[p].size \in Nat
  BY <1>1, BlockFacts
<1>11. /\ \A j \in DOMAIN freelist : j # i => Apart(freelist[j], b)
       /\ \A p \in DOMAIN live : Apart(live[p], b)
  BY <1>1, <1>2, <1>10 DEF BlocksApart, Apart, b
<1>12. TypeOK'
  <2>1. added' \in 0 .. Len(BootRanges) /\ freelist' \in Seq(Block)
    BY <1>1, <1>2, <1>3 DEF TypeOK
  <2>2. DOMAIN live' \subseteq Nat
    BY <1>1, <1>4, <1>6 DEF TypeOK
  <2>3. live'[a] \in [start : Nat, size : Nat, req : [size : Nat \ {0}, align : Nat]]
    BY <1>4, <1>6, <1>7
  <2>4. \A p \in DOMAIN live :
          live'[p] \in [start : Nat, size : Nat, req : [size : Nat \ {0}, align : Nat]]
    BY <1>1, <1>4 DEF TypeOK
  <2>5. QED
    BY <1>4, <2>1, <2>2, <2>3, <2>4 DEF TypeOK
<1>13. BlocksApart'
  <2>1. ASSUME NEW j \in DOMAIN freelist', NEW l \in DOMAIN freelist', j # l
        PROVE  Apart(freelist'[j], freelist'[l])
    <3>1. CASE j \in 1 .. n - 1 /\ l \in 1 .. n - 1
      BY <1>1, <1>3, <2>1, <3>1 DEF BlocksApart
    <3>2. CASE j \in 1 .. n - 1 /\ l = n
      BY <1>2, <1>3, <1>9, <1>10, <1>11, <2>1, <3>2
    <3>3. CASE l \in 1 .. n - 1 /\ j = n
      BY <1>2, <1>3, <1>9, <1>10, <1>11, <2>1, <3>3
    <3>4. QED
      BY <1>2, <1>3, <2>1, <3>1, <3>2, <3>3
  <2>2. ASSUME NEW p \in DOMAIN live', NEW q \in DOMAIN live', p # q
        PROVE  Apart(live'[p], live'[q])
    <3>1. CASE p \in DOMAIN live /\ q \in DOMAIN live
      BY <1>1, <1>4, <2>2, <3>1 DEF BlocksApart
    <3>2. CASE p \in DOMAIN live /\ q = a
      BY <1>4, <1>9, <1>10, <1>11, <3>2
    <3>3. CASE q \in DOMAIN live /\ p = a
      BY <1>4, <1>9, <1>10, <1>11, <3>3
    <3>4. QED
      BY <1>4, <2>2, <3>1, <3>2, <3>3
  <2>3. ASSUME NEW j \in DOMAIN freelist', NEW p \in DOMAIN live'
        PROVE  Apart(freelist'[j], live'[p])
    <3>1. CASE j \in 1 .. n - 1 /\ p \in DOMAIN live
      BY <1>1, <1>3, <1>4, <3>1 DEF BlocksApart
    <3>2. CASE j \in 1 .. n - 1 /\ p = a
      BY <1>3, <1>9, <1>10, <1>11, <3>2
    <3>3. CASE j = n /\ Splits(b, r) /\ p \in DOMAIN live
      BY <1>3, <1>4, <1>9, <1>10, <1>11, <3>3
    <3>4. CASE j = n /\ Splits(b, r) /\ p = a
      BY <1>3, <1>6, <1>7, <1>8, <3>4 DEF Apart
    <3>5. QED
      BY <1>2, <1>3, <1>4, <2>3, <3>1, <3>2, <3>3, <3>4
  <2>4. QED
    BY <2>1, <2>2, <2>3 DEF BlocksApart
<1>14. PayloadsPlaced'
  BY <1>1, <1>4, <1>6, <1>7 DEF PayloadsPlaced
<1>15. FreeHoldHeaders'
  BY <1>1, <1>2, <1>3, <1>8 DEF FreeHoldHeaders
<1>16. RangesAhead'
  <2>1. SUFFICES ASSUME NEW k \in added + 1 .. Len(BootRanges)
                 PROVE  LET c == RangeBlock(BootRanges[k])
                        IN  /\ \A j \in DOMAIN freelist' : Apart(c, freelist'[j])
                            /\ \A p \in DOMAIN live' : Apart(c, live'[p])
    BY <1>2 DEF RangesAhead
  <2> DEFINE c == RangeBlock(BootRanges[k])
  <2>2. c.start \in Nat /\ c.size \in Nat
    BY <1>1, RangeFacts DEF TypeOK
  <2>3. /\ \A j \in DOMAIN freelist : Apart(c, freelist[j])
        /\ \A p \in DOMAIN live : Apart(c, live[p])
        /\ Apart(c, b)
    BY <1>1, <1>2 DEF RangesAhead, b
  <2> HIDE DEF c
  <2>4. /\ Apart(c, live'[a])
        /\ Splits(b, r) => Apart(c, Rest(b, r))
    BY <1>9, <2>2, <2>3
  <2>5. ASSUME NEW j \in DOMAIN freelist' PROVE Apart(c, freelist'[j])
    <3>1. CASE j \in 1 .. n - 1
      BY <1>3, <2>3, <3>1
    <3>2. CASE j \notin 1 .. n - 1
      BY <1>2, <1>3, <2>4, <3>2
    <3>3. QED
      BY <3>1, <3>2
  <2>6. ASSUME NEW p \in DOMAIN live' PROVE Apart(c, live'[p])
    BY <1>4, <2>3, <2>4
  <2>7. QED
    BY <2>5, <2>6 DEF c
<1>17. QED
  BY <1>12, <1>13, <1>14, <1>15, <1>16 DEF Separate

\* The free list after a free: the old blocks, in order, and the block of p.
LEMMA FreelistAfterFree ==
  ASSUME TypeOK, NEW p \in DOMAIN live, Free(p)
  PROVE  /\ BlockOf(p) \in Block
         /\ freelist' \in Seq(Block)
         /\ Len(freelist') = Len(freelist) + 1
         /\ \E pos \in 1 .. Len(freelist) + 1 :
              \A j \in 1 .. Len(freelist) + 1 :
                freelist'[j] = IF j < pos THEN freelist[j]
                               ELSE IF j = pos THEN BlockOf(p) ELSE freelist[j - 1]
<1>1. BlockOf(p) \in Block /\ freelist \in Seq(Block)
  BY DEF TypeOK, BlockOf, Block
<1>2. PICK pos \in 1 .. Len(freelist) + 1 : freelist' = InsertAt(freelist, pos, BlockOf(p))
  BY DEF Free
<1> DEFINE b == BlockOf(p)
           q == freelist
<1>3. b \in Block /\ q \in Seq(Block) /\ pos \in 1 .. Len(q) + 1
  BY <1>1
<1> HIDE DEF b, q
<1>4. InsertAt(q, pos, b) \in Seq(Block)
  BY <1>3, InsertAtIsShift
<1>5. Len(InsertAt(q, pos, b)) = Len(q) + 1
  BY <1>3, InsertAtIsShift
<1>6. \A j \in 1 .. Len(q) + 1 :
        InsertAt(q, pos, b)[j] = IF j < pos THEN q[j] ELSE IF j = pos THEN b ELSE q[j - 1]
  BY <1>3, InsertAtIsShift
<1>7. QED
  BY <1>1, <1>2, <1>4, <1>5, <1>6 DEF b, q

\* ... and so does a free.
LEMMA SeparateFree ==
  ASSUME Separate, NEW p \in DOMAIN live, Free(p)
  PROVE  Separate'
<1> DEFINE n == Len(freelist)
           b == BlockOf(p)
<1>1. TypeOK /\ BlocksApart /\ PayloadsPlaced /\ FreeHoldHeaders /\ RangesAhead
  BY DEF Separate
<1>2. /\ added' = added /\ freelist \in Seq(Block) /\ n \in Nat /\ b \in Block
      /\ freelist' \in Seq(Block) /\ DOMAIN freelist' = 1 .. n + 1
  BY <1>1, FreelistAfterFree DEF TypeOK, Free
<1>3. PICK pos \in 1 .. n + 1 :
        \A j \in 1 .. n + 1 :
          freelist'[j] = IF j < pos THEN freelist[j] ELSE IF j = pos THEN b ELSE freelist[j - 1]
  BY <1>1, FreelistAfterFree
<1>4. /\ DOMAIN live' = DOMAIN live \ {p}
      /\ \A q \in DOMAIN live' : live'[q] = live[q]
  BY DEF Free, Restrict
<1>5. /\ b.start = live[p].start /\ b.size = live[p].size
      /\ b.start \in Nat /\ b.size \in Nat /\ b.size >= HeaderSize
  <2>1. /\ live[p].start + HeaderSize <= p
        /\ p + live[p].req.size <= live[p].start + live[p].size
        /\ live[p].start \in Nat /\ live[p].size \in Nat
        /\ live[p].req.size \in Nat \ {0} /\ p \in Nat /\ HeaderSize \in Nat
    BY <1>1, PhysmemAssumption DEF TypeOK, PayloadsPlaced
  <2>2. QED
    BY <2>1 DEF BlockOf
<1> HIDE DEF b
<1>6. /\ \A j \in DOMAIN freelist : Apart(freelist[j], b) /\ Apart(b, freelist[j])
      /\ \A q \in DOMAIN live : q # p => Apart(b, live[q])
  BY <1>1, <1>5 DEF BlocksApart, Apart
<1> DEFINE Old(j) == IF j < pos THEN j ELSE j - 1
<1>7. /\ \A j \in 1 .. n + 1 : j # pos =>
             Old(j) \in DOMAIN freelist /\ freelist'[j] = freelist[Old(j)]
      /\ \A j, l \in 1 .. n + 1 : j # pos /\ l # pos /\ j # l => Old(j) # Old(l)
      /\ freelist'[pos] = b
  BY <1>2, <1>3
<1> HIDE DEF Old, n
<1>8. TypeOK'
  BY <1>1, <1>2, <1>4 DEF TypeOK
<1>9. BlocksApart'
  <2>1. ASSUME NEW j \in DOMAIN freelist', NEW l \in DOMAIN freelist', j # l
        PROVE  Apart(freelist'[j], freelist'[l])
    <3>1. CASE j # pos /\ l # pos
      BY <1>1, <1>2, <1>7, <2>1, <3>1 DEF BlocksApart
    <3>2. CASE j = pos \/ l = pos
      BY <1>2, <1>6, <1>7, <2>1, <3>2
    <3>3. QED
      BY <3>1, <3>2
  <2>2. \A q, s \in DOMAIN live' : q # s => Apart(live'[q], live'[s])
    BY <1>1, <1>4 DEF BlocksApart
  <2>3. \A j \in DOMAIN freelist', q \in DOMAIN live' : Apart(freelist'[j], live'[q])
    BY <1>1, <1>2, <1>4, <1>6, <1>7 DEF BlocksApart
  <2>4. QED
    BY <2>1, <2>2, <2>3 DEF BlocksApart
<1>10. PayloadsPlaced'
  BY <1>1, <1>4 DEF PayloadsPlaced
<1>11. FreeHoldHeaders'
  BY <1>1, <1>2, <1>5, <1>7 DEF FreeHoldHeaders
<1>12. RangesAhead'
  <2>1. \A k \in added + 1 .. Len(BootRanges) : Apart(RangeBlock(BootRanges[k]), b)
    BY <1>1, <1>5 DEF RangesAhead, Apart
  <2>2. QED
    BY <1>1, <1>2, <1>4, <1>7, <2>1 DEF RangesAhead
<1>13. QED
  BY <1>8, <1>9, <1>10, <1>11, <1>12 DEF Separate

-----------------------------------------------------------------------------
(* The parts that make the blocks cover the pool. *)

\* kern_physmem_add_range makes the pool larger by the range it adds to the list.
LEMMA PoolAfterAddRange ==
  ASSUME TypeOK, AddRange
  PROVE  LET b == RangeBlock(BootRanges[added + 1])
         IN  \/ freelist' = freelist /\ Pool' = Pool
             \/ freelist' = Append(freelist, b) /\ Pool' = Pool \cup Cells(b.start, b.size)
<1> DEFINE k == added + 1
           b == RangeBlock(BootRanges[k])
<1>1. /\ added \in Nat /\ added' = k
      /\ Cells(b.start, b.size) = BootRanges[k].start .. BootRanges[k].end - 1
  BY RangeFacts DEF TypeOK, AddRange
<1> HIDE DEF b
<1>2. CASE added < MaxRegions /\ BootRanges[k].usable
  <2>1. Usable' = Usable \cup {k}
    <3>1. MaxRegions \in Nat
      BY PhysmemAssumption
    <3>2. 1 .. k = (1 .. added) \cup {k} /\ k <= MaxRegions
      BY <1>1, <1>2, <3>1
    <3>3. QED
      BY <1>1, <1>2, <3>2 DEF Usable
  <2>2. Pool' = Pool \cup Cells(b.start, b.size)
    BY <1>1, <2>1 DEF Pool
  <2>3. QED
    BY <1>2, <2>2 DEF AddRange, b
<1>3. CASE ~(added < MaxRegions /\ BootRanges[k].usable)
  <2>1. Usable' = Usable
    BY <1>1, <1>3, PhysmemAssumption DEF Usable
  <2>2. QED
    BY <1>3, <2>1 DEF AddRange, Pool
<1>4. QED
  BY <1>2, <1>3

\* A new range brings its own block, and no block is left without a range.
LEMMA TileAddRange ==
  ASSUME Separate, BlocksInPool, PoolCovered, AddRange
  PROVE  BlocksInPool' /\ PoolCovered'
<1> DEFINE b == RangeBlock(BootRanges[added + 1])
           n == Len(freelist)
<1>1. TypeOK /\ live' = live
  BY DEF Separate, AddRange
<1>2. CASE freelist' = freelist /\ Pool' = Pool
  BY <1>1, <1>2 DEF BlocksInPool, PoolCovered
<1>3. CASE freelist' = Append(freelist, b) /\ Pool' = Pool \cup Cells(b.start, b.size)
  <2>1. freelist \in Seq(Block) /\ n \in Nat /\ DOMAIN freelist = 1 .. n
    BY <1>1 DEF TypeOK
  <2>2. b \in Block
    BY <1>1, RangeFacts DEF AddRange, TypeOK
  <2> HIDE DEF b
  <2>3. /\ DOMAIN freelist' = 1 .. n + 1
        /\ \A i \in DOMAIN freelist : i \in DOMAIN freelist' /\ freelist'[i] = freelist[i]
        /\ n + 1 \in DOMAIN freelist' /\ freelist'[n + 1] = b
        /\ \A i \in DOMAIN freelist' : i = n + 1 \/ i \in DOMAIN freelist
    BY <1>3, <2>1, <2>2
  <2>4. BlocksInPool'
    BY <1>1, <1>3, <2>3 DEF BlocksInPool
  <2>5. PoolCovered'
    BY <1>1, <1>3, <2>3 DEF PoolCovered
  <2>6. QED
    BY <2>4, <2>5
<1>4. QED
  BY <1>1, <1>2, <1>3, PoolAfterAddRange

\* The header's block and the rest make up the block that was taken.
LEMMA TileAlloc ==
  ASSUME Separate, BlocksInPool, PoolCovered,
         NEW r \in Requests, NEW i \in DOMAIN freelist, AllocFrom(i, r)
  PROVE  BlocksInPool' /\ PoolCovered'
<1> DEFINE n == Len(freelist)
           b == freelist[i]
           a == PayloadStart(b, r)
           New(k) == IF k < i THEN k ELSE k - 1
<1>1. TypeOK /\ BlocksApart /\ PayloadsPlaced
  BY DEF Separate
<1>2. Pool' = Pool
  BY DEF AllocFrom, Pool, Usable
<1>3. /\ n \in Nat /\ DOMAIN freelist = 1 .. n /\ i \in 1 .. n /\ b \in Block
      /\ freelist' \in Seq(Block)
      /\ DOMAIN freelist' = 1 .. (IF Splits(b, r) THEN n ELSE n - 1)
  BY <1>1, FreelistAfterAlloc DEF TypeOK
<1>4. /\ \A j \in 1 .. n - 1 : \E k \in DOMAIN freelist : freelist'[j] = freelist[k]
      /\ \A k \in DOMAIN freelist : k # i =>
           New(k) \in DOMAIN freelist' /\ freelist'[New(k)] = freelist[k]
      /\ Splits(b, r) => n \in DOMAIN freelist' /\ freelist'[n] = Rest(b, r)
  <2>1. /\ \A j \in 1 .. n - 1 :
             freelist'[j] = IF j < i THEN freelist[j] ELSE freelist[j + 1]
        /\ Splits(b, r) => freelist'[n] = Rest(b, r)
    BY <1>1, FreelistAfterAlloc
  <2>2. ASSUME NEW j \in 1 .. n - 1
        PROVE  \E k \in DOMAIN freelist : freelist'[j] = freelist[k]
    <3>1. j \in DOMAIN freelist /\ j + 1 \in DOMAIN freelist
      BY <1>3
    <3>2. QED
      BY <2>1, <3>1
  <2>3. ASSUME NEW k \in DOMAIN freelist, k # i
        PROVE  New(k) \in DOMAIN freelist' /\ freelist'[New(k)] = freelist[k]
    BY <1>3, <2>1, <2>3
  <2>4. QED
    BY <1>3, <2>1, <2>2, <2>3
<1>5. /\ DOMAIN live' = DOMAIN live \cup {a}
      /\ \A p \in DOMAIN live : live'[p] = live[p]
      /\ live'[a] = [start |-> b.start,
                     size |-> IF Splits(b, r) THEN Needed(b, r) ELSE b.size,
                     req |-> r]
  BY <1>1, LiveAfterAlloc
<1>6. /\ Needed(b, r) <= b.size /\ Needed(b, r) \in Nat
      /\ b.start \in Nat /\ b.size \in Nat
  BY <1>3, AllocArithmetic DEF AllocFrom, FirstFit, Fits
<1>7. Cells(b.start, b.size) \subseteq Pool
  BY DEF BlocksInPool
<1> DEFINE c == live'[a]
           d == Rest(b, r)
\* The cells of b are those of the allocation and of the rest.
<1>8. /\ Cells(c.start, c.size) \subseteq Cells(b.start, b.size)
      /\ Splits(b, r) => Cells(d.start, d.size) \subseteq Cells(b.start, b.size)
      /\ \A x \in Cells(b.start, b.size) :
           x \in Cells(c.start, c.size) \/ (Splits(b, r) /\ x \in Cells(d.start, d.size))
  BY <1>5, <1>6 DEF Cells, Rest
<1> HIDE DEF New, a, b, c, d, n
<1>9. BlocksInPool'
  <2>1. ASSUME NEW j \in DOMAIN freelist'
        PROVE  Cells(freelist'[j].start, freelist'[j].size) \subseteq Pool
    <3>1. CASE j \in 1 .. n - 1
      BY <1>4, <3>1 DEF BlocksInPool
    <3>2. CASE Splits(b, r) /\ j = n
      BY <1>4, <1>7, <1>8, <3>2 DEF d
    <3>3. QED
      BY <1>3, <2>1, <3>1, <3>2
  <2>2. ASSUME NEW p \in DOMAIN live'
        PROVE  Cells(live'[p].start, live'[p].size) \subseteq Pool
    BY <1>5, <1>7, <1>8 DEF BlocksInPool, c
  <2>3. QED
    BY <1>2, <2>1, <2>2 DEF BlocksInPool
<1>10. PoolCovered'
  <2>1. SUFFICES ASSUME NEW x \in Pool
        PROVE  \/ \E j \in DOMAIN freelist' : x \in Cells(freelist'[j].start, freelist'[j].size)
               \/ \E p \in DOMAIN live' : x \in Cells(live'[p].start, live'[p].size)
    BY <1>2 DEF PoolCovered
  <2>2. CASE \E p \in DOMAIN live : x \in Cells(live[p].start, live[p].size)
    BY <1>5, <2>2
  <2>3. CASE \E k \in DOMAIN freelist : k # i /\ x \in Cells(freelist[k].start, freelist[k].size)
    BY <1>4, <2>3
  <2>4. CASE x \in Cells(b.start, b.size)
    BY <1>4, <1>5, <1>8, <2>4 DEF c, d
  <2>5. QED
    BY <2>2, <2>3, <2>4 DEF PoolCovered, b
<1>11. QED
  BY <1>9, <1>10

\* A freed block returns as it is recorded.
LEMMA TileFree ==
  ASSUME Separate, BlocksInPool, PoolCovered, NEW p \in DOMAIN live, Free(p)
  PROVE  BlocksInPool' /\ PoolCovered'
<1> DEFINE n == Len(freelist)
           b == BlockOf(p)
<1>1. TypeOK
  BY DEF Separate
<1>2. Pool' = Pool
  BY DEF Free, Pool, Usable
<1>3. /\ n \in Nat /\ DOMAIN freelist = 1 .. n /\ DOMAIN freelist' = 1 .. n + 1
  BY <1>1, FreelistAfterFree DEF TypeOK
<1>4. PICK pos \in 1 .. n + 1 :
        \A j \in 1 .. n + 1 :
          freelist'[j] = IF j < pos THEN freelist[j] ELSE IF j = pos THEN b ELSE freelist[j - 1]
  BY <1>1, FreelistAfterFree
<1> DEFINE New(k) == IF k < pos THEN k ELSE k + 1
<1>5. /\ \A j \in DOMAIN freelist' : freelist'[j] = b \/ \E k \in DOMAIN freelist : freelist'[j] = freelist[k]
      /\ \A k \in DOMAIN freelist : New(k) \in DOMAIN freelist' /\ freelist'[New(k)] = freelist[k]
      /\ pos \in DOMAIN freelist' /\ freelist'[pos] = b
  <2>1. ASSUME NEW j \in 1 .. n + 1, j # pos
        PROVE  \E k \in DOMAIN freelist : freelist'[j] = freelist[k]
    <3>1. CASE j < pos
      BY <1>3, <1>4, <3>1
    <3>2. CASE j > pos
      <4>1. j - 1 \in DOMAIN freelist /\ freelist'[j] = freelist[j - 1]
        BY <1>3, <1>4, <3>2
      <4>2. QED
        BY <4>1
    <3>3. QED
      BY <2>1, <3>1, <3>2
  <2>2. QED
    BY <1>3, <1>4, <2>1
<1>6. /\ DOMAIN live' = DOMAIN live \ {p}
      /\ \A q \in DOMAIN live' : live'[q] = live[q]
  BY DEF Free, Restrict
<1>7. b.start = live[p].start /\ b.size = live[p].size
  BY DEF BlockOf
<1> HIDE DEF b, n, New
<1>8. BlocksInPool'
  BY <1>2, <1>5, <1>6, <1>7 DEF BlocksInPool
<1>9. PoolCovered'
  BY <1>2, <1>5, <1>6, <1>7 DEF PoolCovered
<1>10. QED
  BY <1>8, <1>9

\* A header is written once, where the payload's place can be computed from it.
LEMMA RecordedStep ==
  ASSUME Separate, PayloadsRecorded, Next
  PROVE  PayloadsRecorded'
<1>1. TypeOK /\ BlocksApart /\ PayloadsPlaced
  BY DEF Separate
<1>2. CASE AddRange
  BY <1>2 DEF AddRange, PayloadsRecorded, BlockOf
<1>3. ASSUME NEW r \in Requests, NEW i \in DOMAIN freelist, AllocFrom(i, r)
      PROVE  PayloadsRecorded'
  <2> DEFINE b == freelist[i]
             a == PayloadStart(b, r)
  <2>1. /\ DOMAIN live' = DOMAIN live \cup {a}
        /\ \A p \in DOMAIN live : live'[p] = live[p]
        /\ live'[a] = [start |-> b.start,
                       size |-> IF Splits(b, r) THEN Needed(b, r) ELSE b.size,
                       req |-> r]
    BY <1>1, <1>3, LiveAfterAlloc
  <2>2. live'[a].start = b.start /\ live'[a].req = r
    BY <2>1
  <2> DEFINE block == [start |-> live'[a].start, size |-> live'[a].size]
  <2>3. a = PayloadStart(block, r)
    BY <2>2 DEF PayloadStart, Padding
  <2> HIDE DEF a
  <2>4. SUFFICES ASSUME NEW p \in DOMAIN live'
                 PROVE  /\ live'[p].req \in Requests
                        /\ p = PayloadStart([start |-> live'[p].start, size |-> live'[p].size],
                                           live'[p].req)
    BY DEF PayloadsRecorded, BlockOf
  <2>5. CASE p = a
    BY <2>2, <2>3, <2>5
  <2>6. CASE p \in DOMAIN live
    BY <2>1, <2>6 DEF PayloadsRecorded, BlockOf
  <2>7. QED
    BY <2>1, <2>5, <2>6
<1>4. ASSUME NEW p \in DOMAIN live, Free(p)
      PROVE  PayloadsRecorded'
  <2>1. /\ DOMAIN live' = DOMAIN live \ {p}
        /\ \A q \in DOMAIN live' : live'[q] = live[q]
    BY <1>4 DEF Free, Restrict
  <2>2. QED
    BY <2>1 DEF PayloadsRecorded, BlockOf
<1>5. QED
  BY <1>2, <1>3, <1>4 DEF Next

-----------------------------------------------------------------------------
\* The invariant holds at boot.
LEMMA IInvInit == Init => IInv
<1> SUFFICES ASSUME Init PROVE IInv
  OBVIOUS
<1>1. Separate
  BY SeparateInit
<1>2. Pool = {}
  BY DEF Init, Pool, Usable
<1>3. BlocksInPool /\ PoolCovered /\ PayloadsRecorded
  BY <1>2 DEF Init, BlocksInPool, PoolCovered, PayloadsRecorded
<1>4. QED
  BY <1>1, <1>3 DEF IInv

\* Every step keeps the invariant.
LEMMA IInvStep == IInv /\ [Next]_vars => IInv'
<1> SUFFICES ASSUME IInv, [Next]_vars PROVE IInv'
  OBVIOUS
<1>1. Separate /\ BlocksInPool /\ PoolCovered /\ PayloadsRecorded
  BY DEF IInv
<1>2. CASE AddRange
  BY <1>1, <1>2, SeparateAddRange, TileAddRange, RecordedStep DEF IInv, Next
<1>3. ASSUME NEW r \in Requests, NEW i \in DOMAIN freelist, AllocFrom(i, r)
      PROVE  IInv'
  <2>1. Next
    BY <1>3 DEF Next
  <2>2. QED
    BY <1>1, <1>3, <2>1, SeparateAlloc, TileAlloc, RecordedStep DEF IInv
<1>4. ASSUME NEW p \in DOMAIN live, Free(p)
      PROVE  IInv'
  <2>1. Next
    BY <1>4 DEF Next
  <2>2. QED
    BY <1>1, <1>4, <2>1, SeparateFree, TileFree, RecordedStep DEF IInv
<1>5. CASE UNCHANGED vars
  BY <1>5 DEF vars, IInv, Separate, TypeOK, BlocksApart, PayloadsPlaced, PayloadsRecorded,
     FreeHoldHeaders, RangesAhead, BlocksInPool, PoolCovered, Pool, Usable, BlockOf
<1>6. QED
  BY <1>2, <1>3, <1>4, <1>5 DEF Next

\* So it always holds.
LEMMA Invariant == Spec => []IInv
BY IInvInit, IInvStep, PTL DEF Spec

\* The variables of the allocator keep their types.
THEOREM PhysmemTypes == Spec => []TypeOK
<1>1. IInv => TypeOK
  BY DEF IInv, Separate
<1>2. QED
  BY <1>1, Invariant, PTL

\* Whatever is allocated and freed in whatever order, each cell of the usable
\* ranges is in exactly one block.
THEOREM PhysmemTiles == Spec => []BlocksTile
<1>1. IInv => BlocksTile
  BY DEF IInv, Separate, BlocksTile
<1>2. QED
  BY <1>1, Invariant, PTL

\* No payload reaches a header: where alignment has put it, it is behind its own
\* and in its own block.
LEMMA HeadersAreIntact ==
  ASSUME IInv PROVE HeadersIntact
<1>1. TypeOK /\ BlocksApart /\ PayloadsPlaced /\ FreeHoldHeaders /\ HeaderSize \in Nat \ {0}
  BY PhysmemAssumption DEF IInv, Separate
<1>2. SUFFICES ASSUME NEW p \in DOMAIN live, NEW h \in HeaderStarts
               PROVE  p + live[p].req.size <= h \/ h + HeaderSize <= p
  BY DEF HeadersIntact, Apart
<1>3. /\ p \in Nat /\ live[p].start \in Nat /\ live[p].size \in Nat
      /\ live[p].req.size \in Nat \ {0}
      /\ live[p].start + HeaderSize <= p
      /\ p + live[p].req.size <= live[p].start + live[p].size
  BY <1>1, BlockFacts DEF PayloadsPlaced
<1>4. ASSUME NEW i \in DOMAIN freelist, h = freelist[i].start
      PROVE  p + live[p].req.size <= h \/ h + HeaderSize <= p
  <2>1. /\ freelist[i].start \in Nat /\ freelist[i].size \in Nat
        /\ freelist[i].size >= HeaderSize
        /\ \/ freelist[i].start + freelist[i].size <= live[p].start
           \/ live[p].start + live[p].size <= freelist[i].start
    BY <1>1, BlockFacts DEF FreeHoldHeaders, BlocksApart, Apart
  <2>2. QED
    BY <1>1, <1>3, <1>4, <2>1
<1>5. ASSUME NEW q \in DOMAIN live, h = q - HeaderSize
      PROVE  p + live[p].req.size <= h \/ h + HeaderSize <= p
  <2>1. /\ q \in Nat /\ live[q].start \in Nat /\ live[q].size \in Nat
        /\ live[q].req.size \in Nat \ {0}
        /\ live[q].start + HeaderSize <= q
        /\ q + live[q].req.size <= live[q].start + live[q].size
        /\ \/ q = p
           \/ live[q].start + live[q].size <= live[p].start
           \/ live[p].start + live[p].size <= live[q].start
    BY <1>1, BlockFacts DEF PayloadsPlaced, BlocksApart, Apart
  <2>2. QED
    BY <1>1, <1>3, <1>5, <2>1
<1>6. QED
  BY <1>4, <1>5 DEF HeaderStarts

\* Owners that write only what they were given never reach a header.
THEOREM PhysmemHeadersIntact == Spec => []HeadersIntact
<1>1. IInv => HeadersIntact
  BY HeadersAreIntact
<1>2. QED
  BY <1>1, Invariant, PTL

\* Whoever frees memory and asks for as much again gets it.
THEOREM PhysmemReusable == Spec => FreedIsReusable
<1>1. ASSUME IInv, [Next]_vars
      PROVE  [\A p \in DOMAIN live \ DOMAIN live' :
                \E i \in DOMAIN freelist' : Fits(freelist'[i], live[p].req)]_vars
  <2>1. SUFFICES ASSUME NEW p \in DOMAIN live, p \notin DOMAIN live'
                 PROVE  \E i \in DOMAIN freelist' : Fits(freelist'[i], live[p].req)
    OBVIOUS
  <2>2. TypeOK /\ BlocksApart /\ PayloadsPlaced /\ PayloadsRecorded
    BY <1>1 DEF IInv, Separate
  <2>3. Free(p)
    <3>1. ASSUME NEW r \in Requests, NEW i \in DOMAIN freelist, AllocFrom(i, r)
          PROVE  FALSE
      BY <2>1, <2>2, <3>1, LiveAfterAlloc
    <3>2. ~AddRange /\ ~UNCHANGED vars
      BY <2>1 DEF AddRange, vars
    <3>3. ASSUME NEW q \in DOMAIN live, Free(q)
          PROVE  q = p
      BY <2>1, <3>3 DEF Free, Restrict
    <3>4. QED
      BY <1>1, <3>1, <3>2, <3>3 DEF Next
  <2>4. BlockOf(p) \in Block /\ \E i \in DOMAIN freelist' : freelist'[i] = BlockOf(p)
    BY <2>2, <2>3, FreelistAfterFree DEF TypeOK
  <2>5. Fits(BlockOf(p), live[p].req)
    <3>1. /\ live[p].req \in Requests /\ p = PayloadStart(BlockOf(p), live[p].req)
          /\ p + live[p].req.size <= BlockOf(p).start + BlockOf(p).size
      BY <2>2 DEF PayloadsRecorded, PayloadsPlaced, BlockOf
    <3>2. BlockOf(p).start + Needed(BlockOf(p), live[p].req) <= BlockOf(p).start + BlockOf(p).size
      BY <2>4, <3>1, AllocArithmetic
    <3>3. QED
      BY <2>4, <3>1, <3>2, AllocArithmetic DEF Fits
  <2>6. QED
    BY <2>4, <2>5
<1>2. QED
  BY <1>1, Invariant, PTL DEF Spec, FreedIsReusable

-----------------------------------------------------------------------------
(* The allocator implements Memory. *)

\* No range, no memory.
LEMMA PromiseInit == Init => Promise!Init
<1> SUFFICES ASSUME Init PROVE Promise!Init
  OBVIOUS
<1>1. Pool = {}
  BY DEF Init, Pool, Usable
<1>2. Held = << >>
  BY DEF Init, Held
<1>3. QED
  BY <1>1, <1>2 DEF Promise!Init

\* An allocation is one of Memory's: in the pool, aligned, nobody else's.
LEMMA PromiseAlloc ==
  ASSUME IInv, NEW r \in Requests, NEW i \in DOMAIN freelist, AllocFrom(i, r)
  PROVE  Promise!Next
<1> DEFINE b == freelist[i]
           a == PayloadStart(b, r)
<1>1. TypeOK /\ BlocksApart /\ PayloadsPlaced /\ BlocksInPool /\ Pool' = Pool
  BY DEF IInv, Separate, AllocFrom, Pool, Usable
<1>2. /\ a \notin DOMAIN live
      /\ DOMAIN live' = DOMAIN live \cup {a}
      /\ \A p \in DOMAIN live : live'[p] = live[p]
      /\ live'[a].req = r
  <2>1. /\ a \notin DOMAIN live
        /\ DOMAIN live' = DOMAIN live \cup {a}
        /\ \A p \in DOMAIN live : live'[p] = live[p]
        /\ live'[a] = [start |-> b.start,
                       size |-> IF Splits(b, r) THEN Needed(b, r) ELSE b.size,
                       req |-> r]
    BY <1>1, LiveAfterAlloc
  <2>2. QED
    BY <2>1
<1>3. Held' = [p \in DOMAIN Held \cup {a} |-> IF p = a THEN r ELSE Held[p]]
  BY <1>2 DEF Held
<1>4. /\ b \in Block /\ Needed(b, r) <= b.size
      /\ b.start \in Nat /\ b.size \in Nat /\ a \in Nat /\ HeaderSize \in Nat
      /\ r.size \in Nat \ {0}
      /\ a >= b.start + HeaderSize
      /\ a + r.size = b.start + Needed(b, r)
      /\ Needed(b, r) \in Nat
      /\ Promise!Aligned(a, r.align)
  BY <1>1, BlockFacts, AllocArithmetic DEF AllocFrom, FirstFit, Fits
<1>5. Cells(b.start, b.size) \subseteq Pool
  BY <1>1 DEF BlocksInPool
<1>6. \A q \in DOMAIN live : Apart(b, live[q])
  BY <1>1 DEF BlocksApart
<1> HIDE DEF a, b
<1>7. Promise!Cells(a, r.size) \subseteq Pool
  BY <1>4, <1>5 DEF Promise!Cells, Cells
<1>8. ASSUME NEW q \in DOMAIN live
      PROVE  Promise!Cells(a, r.size) \cap Promise!Cells(q, live[q].req.size) = {}
  <2>1. /\ q \in Nat /\ live[q].start \in Nat /\ live[q].size \in Nat
        /\ live[q].req.size \in Nat \ {0}
        /\ live[q].start + HeaderSize <= q
        /\ q + live[q].req.size <= live[q].start + live[q].size
    BY <1>1, BlockFacts DEF PayloadsPlaced
  <2>2. a + r.size <= q \/ q + live[q].req.size <= a
    BY <1>4, <1>6, <2>1 DEF Apart
  <2>3. QED
    BY <1>4, <2>1, <2>2 DEF Promise!Cells
<1>9. Promise!Alloc(a, r)
  BY <1>1, <1>2, <1>3, <1>4, <1>7, <1>8 DEF Promise!Alloc, Held
<1>10. a \in DOMAIN Held' \ DOMAIN Held /\ Held'[a] = r
  BY <1>2, <1>3 DEF Held
<1>11. \E w \in DOMAIN Held' \ DOMAIN Held : Promise!Alloc(w, Held'[w])
  BY <1>9, <1>10
<1>12. QED
  BY <1>11 DEF Promise!Next

\* A free is one of Memory's.
LEMMA PromiseFree ==
  ASSUME NEW p \in DOMAIN live, Free(p)
  PROVE  Promise!Next
<1>1. Pool' = Pool
  BY DEF Free, Pool, Usable
<1>2. /\ DOMAIN live' = DOMAIN live \ {p}
      /\ \A q \in DOMAIN live' : live'[q] = live[q]
  BY DEF Free, Restrict
<1>3. Held' = Promise!Restrict(Held, DOMAIN Held \ {p}) /\ p \in DOMAIN Held
  BY <1>2 DEF Promise!Restrict, Held
<1>4. Promise!Free(p) /\ p \in DOMAIN Held
  BY <1>1, <1>3 DEF Promise!Free
<1>5. \E w \in DOMAIN Held : Promise!Free(w)
  BY <1>4
<1>6. QED
  BY <1>5 DEF Promise!Next

\* What kern_physmem_alloc returns is memory as its callers think of it.
THEOREM PhysmemImplementsMemory == Spec => CallersPromise
<1>1. ASSUME IInv, [Next]_vars
      PROVE  [Promise!Next]_(Promise!memVars)
  <2>1. CASE AddRange
    <3>1. Pool \subseteq Pool' /\ live' = live
      BY <1>1, <2>1, PoolAfterAddRange DEF IInv, Separate, AddRange
    <3>2. QED
      BY <3>1 DEF Promise!Next, Promise!AddRange, Held
  <2>2. ASSUME NEW r \in Requests, NEW i \in DOMAIN freelist, AllocFrom(i, r)
        PROVE  Promise!Next
    BY <1>1, <2>2, PromiseAlloc
  <2>3. ASSUME NEW p \in DOMAIN live, Free(p)
        PROVE  Promise!Next
    BY <2>3, PromiseFree
  <2>4. CASE UNCHANGED vars
    BY <2>4 DEF vars, Pool, Usable, Held, Promise!memVars
  <2>5. QED
    BY <1>1, <2>1, <2>2, <2>3, <2>4 DEF Next
<1>2. QED
  BY <1>1, PromiseInit, Invariant, PTL DEF Spec, CallersPromise, Promise!Spec
=============================================================================
