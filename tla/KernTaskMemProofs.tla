-------------------------- MODULE KernTaskMemProofs --------------------------
(***************************************************************************)
(* That memory has one owner and that the MPU lets a task reach its own    *)
(* memory only, for any ranges, sizes and programs that satisfy            *)
(* MemAssumption and TaskMemAssumption.  What the allocator does is taken  *)
(* from KernPhysmemProofs.                                                 *)
(***************************************************************************)
EXTENDS KernTaskMem, KernLists, TLAPS

\* The theorems about the allocator, with the constants and variables of this one.
Alloc == INSTANCE KernPhysmemProofs

\* What was asked for when addrs[w] was given.
RequestOf(w) ==
  CASE w = "kstack" -> KStackRequest
    [] w = "struct" -> StructRequest
    [] w = "stack" /\ Building = "userland" -> [size |-> UserStackSize, align |-> UserStackSize]
    [] OTHER -> RegionRequest(header[w])

Wanted == Regions \cup {"struct"}

IsBuilding == pc \in {"alloc", "segments", "create", "undefined"}

\* main() is where the order of allocation has it.
Places ==
  /\ job \in 0 .. Len(Jobs)
  /\ pc \in {"next", "alloc", "segments", "create", "cleanup", "running", "undefined"}
  /\ step \in 1 .. 8
  /\ IsBuilding => job # 0
  /\ pc = "alloc" => step \in 1 .. Len(AllocOrder)
  /\ pc = "segments" => Building = "userload" /\ step = 7
  /\ pc = "cleanup" => step \in 1 .. Len(CleanupOrder)
  /\ pc = "alloc" /\ Checked => tm = << >>
  /\ addrs \in [Wanted -> Nat]
  /\ header \in Headers
  /\ DOMAIN tm \subseteq Regions

\* What main() has been given so far is what it asked for, each place its own.
Gifts ==
  IsBuilding =>
    /\ \A w \in Wanted : addrs[w] # 0 =>
         /\ w \in Range(AllocOrder)
         /\ addrs[w] \in DOMAIN live /\ live[addrs[w]].req = RequestOf(w)
    /\ \A w, v \in Wanted : addrs[w] = addrs[v] /\ addrs[w] # 0 => w = v

\* What is still to be allocated has no address yet.
Ungiven ==
  pc \in {"alloc", "segments"} =>
    \A i \in 1 .. Len(AllocOrder) : i >= step => addrs[AllocOrder[i]] = 0

\* No two regions of a task share an address.
RegionsDiffer(mem) ==
  /\ \A s \in DOMAIN mem : mem[s].addr # 0
  /\ \A s, u \in DOMAIN mem : mem[s].addr = mem[u].addr => s = u

\* A task's regions are its own, and as large as was asked for and the MPU needs.
TaskRegions ==
  /\ dying \subseteq DOMAIN taskMem
  /\ cleaning \in [task : dying \cup {0}, step : 1 .. Len(CleanupOrder)]
  /\ buffer \in Nat
  /\ \A t \in DOMAIN taskMem :
       /\ DOMAIN taskMem[t] \subseteq Regions
       /\ RegionsDiffer(taskMem[t])
       /\ \A s \in DOMAIN taskMem[t] : taskMem[t][s].addr # t
  /\ \A t \in Running : \A s \in MpuIds \cap DOMAIN taskMem[t] :
       LET r == taskMem[t][s]
       IN  /\ r.addr \in DOMAIN live /\ live[r.addr].req = [size |-> r.size, align |-> r.size]
           /\ r.size \in PowersOfTwo /\ r.size >= MpuMin

TaskMemInv ==
  /\ Alloc!Separate
  /\ Places /\ Gifts /\ Ungiven /\ RegionsDiffer(tm) /\ TaskRegions
  /\ OneOwner

-----------------------------------------------------------------------------
(* The orders of allocation and of clean-up.                               *)

\* What is left to be freed, step by step; the struct is the last.
LEMMA CleanupFacts ==
  /\ Len(CleanupOrder) = 7
  /\ \A i \in 1 .. 6 : /\ CleanupOrder[i] \in Regions
                       /\ Left(i) = Left(i + 1) \cup {CleanupOrder[i]}
                       /\ CleanupOrder[i] \notin Left(i + 1)
  /\ CleanupOrder[7] = "struct"
  /\ Left(1) = Wanted /\ Left(7) = {"struct"}
  /\ "struct" \notin Regions
<1> DEFINE O(i) == CleanupOrder[i]
<1>1. /\ Len(CleanupOrder) = 7
      /\ O(1) = "kstack" /\ O(2) = "stack" /\ O(3) = "heap" /\ O(4) = "bss"
      /\ O(5) = "data" /\ O(6) = "got" /\ O(7) = "struct"
  BY DEF CleanupOrder
<1>2. /\ 7 .. 7 = {7} /\ 6 .. 7 = {6, 7} /\ 5 .. 7 = {5, 6, 7} /\ 4 .. 7 = {4, 5, 6, 7}
      /\ 3 .. 7 = {3, 4, 5, 6, 7} /\ 2 .. 7 = {2, 3, 4, 5, 6, 7}
      /\ 1 .. 7 = {1, 2, 3, 4, 5, 6, 7} /\ 1 .. 6 = {1, 2, 3, 4, 5, 6}
  OBVIOUS
<1> HIDE DEF O
<1>3. \A n : Left(n) = {O(i) : i \in n .. 7}
  BY <1>1 DEF Left, O
<1>4. Left(7) = {O(7)}
  BY <1>2, <1>3
<1>5. Left(6) = Left(7) \cup {O(6)}
  BY <1>2, <1>3
<1>6. Left(5) = Left(6) \cup {O(5)}
  BY <1>2, <1>3
<1>7. Left(4) = Left(5) \cup {O(4)}
  BY <1>2, <1>3
<1>8. Left(3) = Left(4) \cup {O(3)}
  BY <1>2, <1>3
<1>9. Left(2) = Left(3) \cup {O(2)}
  BY <1>2, <1>3
<1>10. Left(1) = Left(2) \cup {O(1)}
  BY <1>2, <1>3
<1>11. \A i \in 1 .. 6 : Left(i) = Left(i + 1) \cup {O(i)}
  BY <1>2, <1>5, <1>6, <1>7, <1>8, <1>9, <1>10
<1>12. \A i \in 1 .. 6 : O(i) \notin Left(i + 1)
  BY <1>1, <1>2, <1>4, <1>5, <1>6, <1>7, <1>8, <1>9
<1>13. Left(1) = Wanted
  BY <1>1, <1>4, <1>5, <1>6, <1>7, <1>8, <1>9, <1>10 DEF Wanted, Regions, Segments
<1>14. \A i \in 1 .. 6 : O(i) \in Regions
  BY <1>1, <1>2 DEF Regions, Segments
<1>15. QED
  BY <1>1, <1>4, <1>11, <1>12, <1>13, <1>14 DEF O, Regions, Segments

\* Nothing is allocated twice for a task; the struct is the last, behind the stack.
LEMMA AllocFacts ==
  ASSUME job \in 1 .. Len(Jobs)
  PROVE  LET n == Len(AllocOrder)
         IN  /\ n \in {3, 7} /\ (Building = "userload" <=> n = 7)
             /\ \A i \in 1 .. n : AllocOrder[i] \in Wanted
             /\ \A i, j \in 1 .. n : AllocOrder[i] = AllocOrder[j] => i = j
             /\ AllocOrder[n] = "struct" /\ AllocOrder[n - 1] = "stack"
             /\ Range(AllocOrder) = {AllocOrder[i] : i \in 1 .. n}
             /\ n = 3 => Range(AllocOrder) = {"kstack", "stack", "struct"}
<1>1. Building \in {"userland", "userload"}
  BY TaskMemAssumption DEF Building
<1>2. CASE Building = "userland"
  <2>1. AllocOrder = <<"kstack", "stack", "struct">>
    BY <1>2 DEF AllocOrder
  <2>2. Len(AllocOrder) = 3 /\ DOMAIN AllocOrder = 1 .. 3 /\ 1 .. 3 = {1, 2, 3}
        /\ AllocOrder[1] = "kstack" /\ AllocOrder[2] = "stack" /\ AllocOrder[3] = "struct"
    BY <2>1
  <2>3. QED
    BY <1>2, <2>2 DEF Range, Wanted, Regions, Segments
<1>3. CASE Building = "userload"
  <2>1. AllocOrder = <<"kstack", "got", "bss", "data", "heap", "stack", "struct">>
    BY <1>3 DEF AllocOrder
  <2>2. /\ Len(AllocOrder) = 7 /\ DOMAIN AllocOrder = 1 .. 7 /\ 1 .. 7 = {1, 2, 3, 4, 5, 6, 7}
        /\ AllocOrder[1] = "kstack" /\ AllocOrder[2] = "got" /\ AllocOrder[3] = "bss"
        /\ AllocOrder[4] = "data" /\ AllocOrder[5] = "heap" /\ AllocOrder[6] = "stack"
        /\ AllocOrder[7] = "struct"
    BY <2>1
  <2>3. QED
    BY <1>3, <2>2 DEF Range, Wanted, Regions, Segments
<1>4. QED
  BY <1>1, <1>2, <1>3

-----------------------------------------------------------------------------
(* What the allocator does, from KernPhysmemProofs.  Mem and Alloc are the *)
(* same definitions under two names.                                       *)

LEMMA SameAssumption == Alloc!PhysmemAssumption
BY MemAssumption DEF Alloc!PhysmemAssumption, Mem!PhysmemAssumption,
  Mem!Apart, Alloc!Apart, Mem!RangeBlock, Alloc!RangeBlock

LEMMA SameBlocks ==
  ASSUME NEW b, NEW r
  PROVE  /\ Mem!Needed(b, r) = Alloc!Needed(b, r) /\ Mem!Fits(b, r) = Alloc!Fits(b, r)
         /\ Mem!Splits(b, r) = Alloc!Splits(b, r) /\ Mem!Rest(b, r) = Alloc!Rest(b, r)
         /\ Mem!PayloadStart(b, r) = Alloc!PayloadStart(b, r)
BY DEF Mem!Needed, Alloc!Needed, Mem!Fits, Alloc!Fits, Mem!Splits, Alloc!Splits,
  Mem!Rest, Alloc!Rest, Mem!PayloadStart, Alloc!PayloadStart, Mem!Padding, Alloc!Padding

LEMMA SameAllocFrom == ASSUME NEW i, NEW r, Mem!AllocFrom(i, r) PROVE Alloc!AllocFrom(i, r)
<1>1. \A q : Alloc!RemoveAt(q, i) = Mem!RemoveAt(q, i)
  BY DEF Alloc!RemoveAt, Mem!RemoveAt
<1>2. QED
  BY <1>1, SameBlocks DEF Mem!AllocFrom, Alloc!AllocFrom, Mem!FirstFit, Alloc!FirstFit

LEMMA SameFree == ASSUME NEW p, Mem!Free(p) PROVE Alloc!Free(p)
BY DEF Mem!Free, Alloc!Free, Mem!FreeSpot, Alloc!FreeSpot, Mem!BlockOf, Alloc!BlockOf,
  Mem!InsertAt, Alloc!InsertAt, Mem!Restrict, Alloc!Restrict

\* Addresses are aligned as asked for, and are not 0.
LEMMA AddressFacts ==
  ASSUME Alloc!Separate
  PROVE  /\ DOMAIN live \subseteq Nat \ {0}
         /\ \A p \in DOMAIN live : live[p].req.align # 0 => p % live[p].req.align = 0
<1>1. ASSUME NEW p \in DOMAIN live
      PROVE  p \in Nat \ {0} /\ (live[p].req.align # 0 => p % live[p].req.align = 0)
  <2>1. /\ live[p].start + HeaderSize <= p /\ Alloc!Promise!Aligned(p, live[p].req.align)
    BY DEF Alloc!Separate, Alloc!PayloadsPlaced
  <2>2. p \in Nat /\ live[p] \in [start : Nat, size : Nat, req : [size : Nat \ {0}, align : Nat]]
    BY DEF Alloc!Separate, Alloc!TypeOK
  <2>3. HeaderSize \in Nat \ {0}
    BY MemAssumption DEF Mem!PhysmemAssumption
  <2>4. live[p].start \in Nat
    BY <2>2
  <2>5. p # 0
    BY <2>1, <2>2, <2>3, <2>4
  <2>6. QED
    BY <2>1, <2>2, <2>5 DEF Alloc!Promise!Aligned
<1>2. QED
  BY <1>1

\* An allocation is a new address; what was allocated before stays as it was.
LEMMA MemAlloc ==
  ASSUME Alloc!Separate, NEW r \in Requests, NEW i \in DOMAIN freelist, Mem!AllocFrom(i, r)
  PROVE  LET a == Mem!PayloadStart(freelist[i], r)
         IN  /\ Alloc!Separate'
             /\ a \in Nat \ {0} /\ a \notin DOMAIN live
             /\ DOMAIN live' = DOMAIN live \cup {a}
             /\ \A p \in DOMAIN live : live'[p] = live[p]
             /\ live'[a].req = r
<1> DEFINE b == freelist[i]
           a == Mem!PayloadStart(b, r)
<1>1. Alloc!AllocFrom(i, r) /\ a = Alloc!PayloadStart(b, r)
  BY SameAllocFrom, SameBlocks
<1>2. Alloc!Separate'
  BY <1>1, SameAssumption, Alloc!SeparateAlloc
<1>3. Alloc!TypeOK /\ Alloc!PayloadsPlaced /\ Alloc!BlocksApart
  BY DEF Alloc!Separate
<1> DEFINE c == Alloc!PayloadStart(b, r)
<1>4. /\ c \notin DOMAIN live
      /\ DOMAIN live' = DOMAIN live \cup {c}
      /\ \A p \in DOMAIN live : live'[p] = live[p]
      /\ live'[c] = [start |-> b.start,
                     size |-> IF Alloc!Splits(b, r) THEN Alloc!Needed(b, r) ELSE b.size,
                     req |-> r]
  BY <1>1, <1>3, SameAssumption, Alloc!LiveAfterAlloc
<1>5. c \in Nat \ {0}
  <2>1. b \in Alloc!Block
    BY <1>3 DEF Alloc!TypeOK
  <2>2. /\ c \in Nat /\ c >= b.start + HeaderSize /\ b.start \in Nat /\ HeaderSize \in Nat \ {0}
    BY <2>1, SameAssumption, Alloc!AllocArithmetic
  <2> HIDE DEF b, c
  <2>3. QED
    BY <2>2
<1>6. live'[c].req = r
  BY <1>4
<1> HIDE DEF c
<1>7. QED
  BY <1>1, <1>2, <1>4, <1>5, <1>6 DEF c

\* A free takes one address away.
LEMMA MemFree ==
  ASSUME Alloc!Separate, NEW p \in DOMAIN live, Mem!Free(p)
  PROVE  /\ Alloc!Separate'
         /\ DOMAIN live' = DOMAIN live \ {p}
         /\ \A q \in DOMAIN live' : live'[q] = live[q]
<1>1. Alloc!Free(p)
  BY SameFree
<1>2. Alloc!Separate'
  BY <1>1, SameAssumption, Alloc!SeparateFree
<1>3. live' = Mem!Restrict(live, DOMAIN live \ {p})
  BY DEF Mem!Free
<1>4. QED
  BY <1>2, <1>3 DEF Mem!Restrict

\* Steps of others leave it alone.
LEMMA MemKept == ASSUME Alloc!Separate, UNCHANGED memVars PROVE Alloc!Separate'
BY DEF memVars, Alloc!Separate, Alloc!TypeOK, Alloc!BlocksApart, Alloc!PayloadsPlaced,
  Alloc!FreeHoldHeaders, Alloc!RangesAhead

LEMMA MemAddRange ==
  ASSUME Alloc!Separate, Mem!AddRange
  PROVE  Alloc!Separate' /\ live' = live
<1>1. Alloc!AddRange
  BY DEF Mem!AddRange, Alloc!AddRange, Mem!RangeBlock, Alloc!RangeBlock
<1>2. QED
  BY <1>1, SameAssumption, Alloc!SeparateAddRange DEF Alloc!AddRange

LEMMA MemInit == Mem!Init => Alloc!Separate /\ live = << >>
<1>1. Mem!Init => Alloc!Init /\ live = << >>
  BY DEF Mem!Init, Alloc!Init
<1>2. QED
  BY <1>1, SameAssumption, Alloc!SeparateInit

-----------------------------------------------------------------------------
(* Requests and sizes.                                                     *)

\* platform_user_task_mpu_region_size gives sizes the MPU takes.
LEMMA RegionSizeFacts ==
  ASSUME NEW h \in Headers, NEW s \in Segments
  PROVE  RegionSize(h[s]) \in PowersOfTwo /\ RegionSize(h[s]) >= MpuMin
<1> DEFINE len == h[s]
           C == {p \in PowersOfTwo : p >= len}
<1>1. len \in Nat /\ MpuMin \in PowersOfTwo /\ PowersOfTwo \subseteq Nat /\ C # {}
  BY TaskMemAssumption DEF PowersOfTwo
<1> HIDE DEF len
<1>2. CASE len < MpuMin
  BY <1>1, <1>2 DEF RegionSize, len
<1>3. CASE ~(len < MpuMin)
  <2>1. Min(C) \in C /\ \A q \in C : Min(C) <= q
    BY <1>1, LeastElement
  <2>2. \E p \in PowersOfTwo : p >= len /\ \A q \in PowersOfTwo : q >= len => p <= q
    BY <2>1
  <2> DEFINE p == CHOOSE p \in PowersOfTwo :
                    p >= len /\ \A q \in PowersOfTwo : q >= len => p <= q
  <2>3. p \in PowersOfTwo /\ p >= len
    BY <2>2
  <2>4. RegionSize(len) = p
    BY <1>3 DEF RegionSize
  <2> HIDE DEF p
  <2>5. p >= MpuMin
    BY <1>1, <1>3, <2>3
  <2>6. QED
    BY <2>3, <2>4, <2>5 DEF len
<1>4. QED
  BY <1>2, <1>3

\* What main() and the test task ask for is asked for properly.
LEMMA RequestFacts ==
  ASSUME Places, pc = "alloc"
  PROVE  /\ job \in 1 .. Len(Jobs) /\ step \in 1 .. Len(AllocOrder)
         /\ Asked \in Wanted /\ Request = RequestOf(Asked) /\ Request \in Requests
         /\ Asked = AllocOrder[step]
<1>1. job \in 1 .. Len(Jobs) /\ step \in 1 .. Len(AllocOrder)
  <2>1. Len(Jobs) \in Nat
    BY TaskMemAssumption
  <2>2. QED
    BY <2>1 DEF Places, IsBuilding
<1>2. Asked \in Wanted
  BY <1>1, AllocFacts DEF Asked
<1>3. Request = RequestOf(Asked)
  BY DEF Request, RequestOf
<1>4. RequestOf(Asked) \in Requests
  <2>1. Asked = "kstack" \/ Asked = "struct" \/ Asked \in Segments
    BY <1>2 DEF Wanted, Regions
  <2>2. header \in Headers
    BY DEF Places
  <2>3. CASE Asked = "kstack"
    BY <2>3 DEF RequestOf, Requests
  <2>4. CASE Asked = "struct"
    BY <2>4 DEF RequestOf, Requests
  <2>5. CASE Asked = "stack" /\ Building = "userland"
    BY <2>5 DEF RequestOf, Requests
  <2>6. CASE Asked \in Segments /\ ~(Asked = "stack" /\ Building = "userland")
    <3>1. RequestOf(Asked) = RegionRequest(header[Asked])
      BY <2>6 DEF RequestOf, Segments
    <3>2. QED
      BY <2>2, <2>6, <3>1 DEF Requests
  <2>7. QED
    BY <2>1, <2>3, <2>4, <2>5, <2>6
<1>5. QED
  BY <1>1, <1>2, <1>3, <1>4 DEF Asked

\* The region that is recorded is the memory that was asked for, fit for the MPU.
LEMMA RegionFacts ==
  ASSUME Places, Gifts, IsBuilding, NEW s \in Given
  PROVE  /\ RegionOf(s).addr = addrs[s] /\ addrs[s] \in DOMAIN live
         /\ s \in MpuIds =>
              LET size == RegionOf(s).size
              IN  /\ live[addrs[s]].req = [size |-> size, align |-> size]
                  /\ size \in PowersOfTwo /\ size >= MpuMin
<1>1. /\ s \in Regions /\ addrs[s] # 0 /\ s \in Wanted /\ s \in Range(AllocOrder)
      /\ addrs[s] \in DOMAIN live /\ live[addrs[s]].req = RequestOf(s)
  BY DEF Given, Gifts, Wanted
<1>2. RegionOf(s).addr = addrs[s]
  BY DEF RegionOf
<1>3. ASSUME s \in MpuIds
      PROVE  /\ RequestOf(s) = [size |-> RegionOf(s).size, align |-> RegionOf(s).size]
             /\ RegionOf(s).size \in PowersOfTwo /\ RegionOf(s).size >= MpuMin
  <2>1. s \in Segments /\ s # "kstack" /\ s # "struct" /\ header \in Headers
    BY <1>3 DEF MpuIds, Segments, Places
  <2>2. CASE Building = "userland"
    <3>1. job \in 1 .. Len(Jobs)
      <4>1. Len(Jobs) \in Nat
        BY TaskMemAssumption
      <4>2. QED
        BY <4>1 DEF Places
    <3>2. Len(AllocOrder) = 3
      BY <2>2, <3>1, AllocFacts
    <3>3. s = "stack"
      BY <1>1, <1>3, <3>1, <3>2, AllocFacts DEF MpuIds
    <3>4. QED
      BY <2>2, <3>3, TaskMemAssumption DEF RequestOf, RegionOf
  <2>3. CASE Building # "userland"
    <3>1. RequestOf(s) = RegionRequest(header[s]) /\ RegionOf(s).size = RegionSize(header[s])
      BY <2>1, <2>3 DEF RequestOf, RegionOf
    <3>2. QED
      BY <2>1, <3>1, RegionSizeFacts DEF RegionRequest
  <2>4. QED
    BY <2>2, <2>3
<1>4. QED
  BY <1>1, <1>2, <1>3

-----------------------------------------------------------------------------
(* Owners.                                                                 *)

\* Everyone's memory is allocated, and nobody else's.
LEMMA OwnersFacts ==
  ASSUME OneOwner
  PROVE  /\ MainOwns \subseteq DOMAIN live /\ TestTaskOwns \subseteq DOMAIN live
         /\ MainOwns \cap TestTaskOwns = {}
         /\ \A t \in DOMAIN taskMem :
              /\ TaskOwns(t) \subseteq DOMAIN live
              /\ TaskOwns(t) \cap MainOwns = {} /\ TaskOwns(t) \cap TestTaskOwns = {}
              /\ \A u \in DOMAIN taskMem : u # t => TaskOwns(t) \cap TaskOwns(u) = {}
BY DEF OneOwner, Owned

\* What the steps of main() leave alone.
LEMMA OthersSame ==
  ASSUME UNCHANGED taskVars
  PROVE  /\ TestTaskOwns' = TestTaskOwns /\ DOMAIN taskMem' = DOMAIN taskMem
         /\ \A t : TaskOwns(t)' = TaskOwns(t)
BY DEF taskVars, TestTaskOwns, TaskOwns, AddrsOf, Left

\* A region of a running task is among what it owns.
LEMMA RunningOwns ==
  ASSUME TaskRegions, NEW t \in Running, NEW s \in DOMAIN taskMem[t]
  PROVE  taskMem[t][s].addr \in TaskOwns(t)
<1>1. t # cleaning.task \/ cleaning.task = 0
  BY DEF TaskRegions, Running
<1>2. s \in Regions /\ s \in Left(1)
  BY CleanupFacts DEF TaskRegions, Running, Wanted
<1>3. CASE t # cleaning.task
  BY <1>2, <1>3 DEF TaskOwns, AddrsOf
<1>4. CASE t = cleaning.task
  BY <1>1, <1>4 DEF TaskRegions, Running
<1>5. QED
  BY <1>3, <1>4

\* Tasks keep their memory when others' is allocated or freed.
LEMMA TasksKeep ==
  ASSUME TaskRegions, UNCHANGED <<taskMem, dying, cleaning>>, buffer' \in Nat,
         \A t \in DOMAIN taskMem : \A p \in TaskOwns(t) : p \in DOMAIN live' /\ live'[p] = live[p]
  PROVE  TaskRegions'
<1>1. ASSUME NEW t \in Running, NEW s \in MpuIds \cap DOMAIN taskMem[t]
      PROVE  LET r == taskMem[t][s]
             IN  /\ r.addr \in DOMAIN live' /\ live'[r.addr].req = [size |-> r.size, align |-> r.size]
                 /\ r.size \in PowersOfTwo /\ r.size >= MpuMin
  <2>1. taskMem[t][s].addr \in TaskOwns(t) /\ t \in DOMAIN taskMem
    BY RunningOwns DEF Running
  <2>2. /\ taskMem[t][s].addr \in DOMAIN live'
        /\ live'[taskMem[t][s].addr] = live[taskMem[t][s].addr]
    BY <2>1
  <2>3. QED
    BY <2>2 DEF TaskRegions
<1>2. Running' = Running
  BY DEF Running
<1>3. QED
  BY <1>1, <1>2 DEF TaskRegions, RegionsDiffer

\* A step of main() that touches only its own memory, or takes what was nobody's.
LEMMA MainStep ==
  ASSUME OneOwner, TaskRegions, UNCHANGED taskVars,
         MainOwns' \subseteq DOMAIN live', MainOwns' \cap DOMAIN live \subseteq MainOwns,
         \A p \in DOMAIN live \ MainOwns : p \in DOMAIN live' /\ live'[p] = live[p]
  PROVE  OneOwner' /\ TaskRegions'
<1>1. /\ TestTaskOwns' = TestTaskOwns /\ DOMAIN taskMem' = DOMAIN taskMem
      /\ \A t : TaskOwns(t)' = TaskOwns(t)
  BY OthersSame
<1>2. /\ MainOwns \subseteq DOMAIN live /\ TestTaskOwns \subseteq DOMAIN live
      /\ MainOwns \cap TestTaskOwns = {}
      /\ \A t \in DOMAIN taskMem :
           /\ TaskOwns(t) \subseteq DOMAIN live
           /\ TaskOwns(t) \cap MainOwns = {} /\ TaskOwns(t) \cap TestTaskOwns = {}
           /\ \A u \in DOMAIN taskMem : u # t => TaskOwns(t) \cap TaskOwns(u) = {}
  BY OwnersFacts
<1>3. TestTaskOwns' \subseteq DOMAIN live' /\ MainOwns' \cap TestTaskOwns' = {}
  BY <1>1, <1>2
<1>4. ASSUME NEW t \in DOMAIN taskMem'
      PROVE  /\ TaskOwns(t)' \subseteq DOMAIN live'
             /\ TaskOwns(t)' \cap (MainOwns' \cup TestTaskOwns') = {}
             /\ \A u \in DOMAIN taskMem' \ {t} : TaskOwns(t)' \cap TaskOwns(u)' = {}
  BY <1>1, <1>2
<1>5. Owned' \subseteq DOMAIN live'
  BY <1>3, <1>4 DEF Owned
<1>6. OneOwner'
  BY <1>3, <1>4, <1>5 DEF OneOwner
<1>7. TaskRegions'
  <2>1. \A t \in DOMAIN taskMem : \A p \in TaskOwns(t) : p \in DOMAIN live' /\ live'[p] = live[p]
    BY <1>2
  <2>2. buffer' \in Nat /\ UNCHANGED <<taskMem, dying, cleaning>>
    BY DEF taskVars, TaskRegions
  <2>3. QED
    BY <2>1, <2>2, TasksKeep
<1>8. QED
  BY <1>6, <1>7

\* A step of others that leaves main()'s memory alone.
LEMMA MainKeeps ==
  ASSUME Places, Gifts, Ungiven, RegionsDiffer(tm), UNCHANGED mainVars,
         \A p \in MainOwns : p \in DOMAIN live' /\ live'[p] = live[p]
  PROVE  Places' /\ Gifts' /\ Ungiven' /\ RegionsDiffer(tm)' /\ MainOwns' = MainOwns
<1> USE DEF mainVars
<1>1. Places'
  BY DEF Places, IsBuilding, Checked, Asked, AllocOrder, Building
<1>2. Ungiven' /\ RegionsDiffer(tm)'
  BY DEF Ungiven, RegionsDiffer, AllocOrder, Building
<1>3. MainOwns' = MainOwns
  BY DEF MainOwns, AddrsOf, Left
<1>4. Gifts'
  <2>1. SUFFICES ASSUME IsBuilding PROVE Gifts'
    BY DEF Gifts, IsBuilding
  <2>2. MainOwns = Range(addrs) \ {0}
    BY <2>1 DEF MainOwns, IsBuilding
  <2>3. DOMAIN addrs = Wanted
    BY DEF Places
  <2>4. \A w \in Wanted : addrs[w] # 0 => addrs[w] \in DOMAIN live' /\ live'[addrs[w]] = live[addrs[w]]
    BY <2>2, <2>3 DEF Range
  <2>5. \A w : RequestOf(w)' = RequestOf(w)
    BY DEF RequestOf, Building
  <2>6. AllocOrder' = AllocOrder
    BY DEF AllocOrder, Building
  <2>7. QED
    BY <2>1, <2>4, <2>5, <2>6 DEF Gifts
<1>5. QED
  BY <1>1, <1>2, <1>3, <1>4

-----------------------------------------------------------------------------
(* The steps of main().                                                    *)

LEMMA TaskMemInit == Init => TaskMemInv
<1> SUFFICES ASSUME Init PROVE TaskMemInv
  OBVIOUS
<1>1. Alloc!Separate /\ live = << >>
  BY MemInit DEF Init
<1>2. NoAddrs \in [Wanted -> Nat] /\ DOMAIN << >> = {} /\ Len(Jobs) \in Nat
  BY TaskMemAssumption DEF NoAddrs, Wanted
<1>3. Places
  BY <1>2 DEF Init, Places, IsBuilding
<1>4. Gifts /\ Ungiven
  BY DEF Init, Gifts, Ungiven, IsBuilding
<1>5. RegionsDiffer(tm)
  BY <1>2 DEF Init, RegionsDiffer
<1>6. TaskRegions
  BY <1>2, CleanupFacts DEF Init, TaskRegions, Running
<1>7. OneOwner
  BY <1>2 DEF Init, OneOwner, Owned, MainOwns, TestTaskOwns
<1>8. QED
  BY <1>1, <1>3, <1>4, <1>5, <1>6, <1>7 DEF TaskMemInv

LEMMA AddRangeKeeps == TaskMemInv /\ AddRange => TaskMemInv'
<1> SUFFICES ASSUME TaskMemInv, AddRange PROVE TaskMemInv'
  OBVIOUS
<1> USE DEF TaskMemInv
<1>1. Alloc!Separate' /\ live' = live
  BY MemAddRange DEF AddRange
<1>2. \A p \in MainOwns : p \in DOMAIN live' /\ live'[p] = live[p]
  BY <1>1, OwnersFacts
<1>3. Places' /\ Gifts' /\ Ungiven' /\ RegionsDiffer(tm)' /\ MainOwns' = MainOwns
  BY <1>2, MainKeeps DEF AddRange
<1>4. OneOwner' /\ TaskRegions'
  BY <1>1, <1>3, OwnersFacts, MainStep DEF AddRange
<1>5. QED
  BY <1>1, <1>3, <1>4

\* A step of main() that touches no memory, after which it owns no more than before.
LEMMA MainHandsOver ==
  ASSUME TaskMemInv, UNCHANGED <<memVars, taskVars>>, MainOwns' \subseteq MainOwns,
         Places', Gifts', Ungiven', RegionsDiffer(tm)'
  PROVE  TaskMemInv'
<1> USE DEF TaskMemInv
<1>1. Alloc!Separate' /\ live' = live
  BY MemKept DEF memVars
<1>2. OneOwner' /\ TaskRegions'
  BY <1>1, OwnersFacts, MainStep
<1>3. QED
  BY <1>1, <1>2

LEMMA BeginJobKeeps == TaskMemInv /\ BeginJob => TaskMemInv'
<1> SUFFICES ASSUME TaskMemInv, BeginJob PROVE TaskMemInv'
  OBVIOUS
<1>1. /\ job' = job + 1 /\ pc' = "alloc" /\ step' = 1 /\ header' = header
      /\ addrs' = NoAddrs /\ tm' = << >> /\ UNCHANGED <<memVars, taskVars>>
      /\ job < Len(Jobs)
  BY DEF BeginJob
<1>2. NoAddrs \in [Wanted -> Nat] /\ (\A w \in Wanted : NoAddrs[w] = 0) /\ DOMAIN << >> = {}
  BY DEF NoAddrs, Wanted
<1>3. job \in 0 .. Len(Jobs) /\ Len(Jobs) \in Nat /\ header \in Headers
  BY TaskMemAssumption DEF TaskMemInv, Places
<1>4. job' \in 1 .. Len(Jobs)
  BY <1>1, <1>3
<1>5. /\ Len(AllocOrder') \in {3, 7}
      /\ \A i \in 1 .. Len(AllocOrder') : AllocOrder'[i] \in Wanted
  <2>1. AllocOrder' = IF Building' = "userland" THEN <<"kstack", "stack", "struct">>
                      ELSE <<"kstack", "got", "bss", "data", "heap", "stack", "struct">>
    BY DEF AllocOrder
  <2>2. CASE AllocOrder' = <<"kstack", "stack", "struct">>
    BY <2>2 DEF Wanted, Regions, Segments
  <2>3. CASE AllocOrder' = <<"kstack", "got", "bss", "data", "heap", "stack", "struct">>
    BY <2>3 DEF Wanted, Regions, Segments
  <2>4. QED
    BY <2>1, <2>2, <2>3
<1>6. Places'
  <2>1. job' # 0 /\ job' \in 0 .. Len(Jobs)
    BY <1>3, <1>4
  <2>2. step' \in 1 .. Len(AllocOrder') /\ step' \in 1 .. 8
    BY <1>1, <1>5
  <2>3. addrs' \in [Wanted -> Nat] /\ DOMAIN tm' \subseteq Regions
    BY <1>1, <1>2
  <2>4. QED
    BY <1>1, <1>3, <2>1, <2>2, <2>3 DEF Places
<1>7. Gifts' /\ Ungiven'
  BY <1>1, <1>2, <1>5 DEF Gifts, Ungiven
<1>8. RegionsDiffer(tm)'
  BY <1>1, <1>2 DEF RegionsDiffer
<1>9. MainOwns' = {}
  BY <1>1, <1>2 DEF MainOwns, Range
<1>10. QED
  BY <1>1, <1>6, <1>7, <1>8, <1>9, MainHandsOver

LEMMA NoProgramKeeps == TaskMemInv /\ NoProgram => TaskMemInv'
<1> SUFFICES ASSUME TaskMemInv, NoProgram PROVE TaskMemInv'
  OBVIOUS
<1>1. /\ job' = job + 1 /\ pc = "next" /\ UNCHANGED <<pc, step, header, addrs, tm, memVars, taskVars>>
      /\ job < Len(Jobs)
  BY DEF NoProgram
<1>2. job \in 0 .. Len(Jobs) /\ Len(Jobs) \in Nat
  BY TaskMemAssumption DEF TaskMemInv, Places
<1>3. Places'
  BY <1>1, <1>2 DEF TaskMemInv, Places, IsBuilding
<1>4. Gifts' /\ Ungiven' /\ MainOwns' = {}
  BY <1>1 DEF Gifts, Ungiven, IsBuilding, MainOwns
<1>5. RegionsDiffer(tm)'
  BY <1>1 DEF TaskMemInv, RegionsDiffer
<1>6. QED
  BY <1>1, <1>3, <1>4, <1>5, MainHandsOver

LEMMA TaskReadyKeeps == TaskMemInv /\ TaskReady => TaskMemInv'
<1> SUFFICES ASSUME TaskMemInv, TaskReady PROVE TaskMemInv'
  OBVIOUS
<1>1. pc = "next" /\ pc' = "running" /\ UNCHANGED <<job, step, header, addrs, tm, memVars, taskVars>>
  BY DEF TaskReady
<1>2. Places'
  BY <1>1 DEF TaskMemInv, Places, IsBuilding
<1>3. Gifts' /\ Ungiven' /\ MainOwns' = {}
  BY <1>1 DEF Gifts, Ungiven, IsBuilding, MainOwns
<1>4. RegionsDiffer(tm)'
  BY <1>1 DEF TaskMemInv, RegionsDiffer
<1>5. QED
  BY <1>1, <1>2, <1>3, <1>4, MainHandsOver

\* The next place in the order of allocation.
LEMMA AdvanceKeepsPlaces ==
  ASSUME Places, pc = "alloc", Advance, UNCHANGED <<job, header, tm>>, addrs' \in [Wanted -> Nat]
  PROVE  /\ Places' /\ pc' \in {"alloc", "segments", "create"} /\ step' = step + 1
         /\ AllocOrder' = AllocOrder /\ Building' = Building
<1>1. /\ job \in 1 .. Len(Jobs) /\ step \in 1 .. Len(AllocOrder) /\ Asked = AllocOrder[step]
      /\ step' = step + 1
  BY RequestFacts DEF Advance
<1>2. AllocOrder' = AllocOrder /\ Building' = Building
  BY DEF AllocOrder, Building
<1> DEFINE n == Len(AllocOrder)
<1>3. /\ n \in {3, 7} /\ (Building = "userload" <=> n = 7)
      /\ \A i, j \in 1 .. n : AllocOrder[i] = AllocOrder[j] => i = j
      /\ AllocOrder[n] = "struct" /\ AllocOrder[n - 1] = "stack"
  BY <1>1, AllocFacts
<1> HIDE DEF n
<1>4. pc' \in {"alloc", "segments", "create"}
  BY DEF Advance
<1>5. step' \in 1 .. 8
  BY <1>1, <1>3 DEF n
<1>6. pc' = "alloc" => Asked # "struct" /\ step' \in 1 .. n
  <2>1. pc' = "alloc" => Asked # "struct"
    BY DEF Advance
  <2>2. Asked # "struct" => step # n
    BY <1>1, <1>3
  <2>3. QED
    BY <1>1, <1>3, <2>1, <2>2 DEF n
<1>7. pc' = "segments" => Building = "userload" /\ step' = 7
  <2>1. pc' = "segments" => Asked = "stack" /\ Building = "userload"
    BY DEF Advance
  <2>2. n - 1 \in 1 .. n
    BY <1>3
  <2>3. Asked = "stack" => step = n - 1
    BY <1>1, <1>3, <2>2 DEF n
  <2>4. QED
    BY <1>1, <1>3, <2>1, <2>3
<1>8. pc' = "alloc" /\ Checked' => tm' = << >>
  <2>1. pc' = "alloc" /\ Checked' => Checked
    BY <1>2, <1>6 DEF Checked
  <2>2. QED
    BY <2>1 DEF Places
<1>9. Places'
  <2>1. job' # 0 /\ job' \in 0 .. Len(Jobs) /\ header' \in Headers /\ DOMAIN tm' \subseteq Regions
    BY <1>1 DEF Places
  <2>2. pc' = "alloc" => step' \in 1 .. Len(AllocOrder')
    BY <1>2, <1>6 DEF n
  <2>3. pc' = "segments" => Building' = "userload" /\ step' = 7
    BY <1>2, <1>7
  <2>4. QED
    BY <1>4, <1>5, <1>8, <2>1, <2>2, <2>3 DEF Places
<1>10. QED
  BY <1>1, <1>2, <1>4, <1>9

\* An allocation adds one new address to what main() has.
LEMMA AllocateKeeps == TaskMemInv /\ Allocate => TaskMemInv'
<1> SUFFICES ASSUME TaskMemInv, Allocate PROVE TaskMemInv'
  OBVIOUS
<1>1. PICK i \in DOMAIN freelist :
        /\ Mem!AllocFrom(i, Request)
        /\ addrs' = [addrs EXCEPT ![Asked] = Mem!PayloadStart(freelist[i], Request)]
  BY DEF Allocate
<1>2. pc = "alloc" /\ Advance /\ UNCHANGED <<job, header, tm, taskVars>>
  BY DEF Allocate
<1>3. Places /\ Gifts /\ Ungiven /\ RegionsDiffer(tm) /\ TaskRegions /\ OneOwner /\ Alloc!Separate
  BY DEF TaskMemInv
<1>4. /\ job \in 1 .. Len(Jobs) /\ step \in 1 .. Len(AllocOrder)
      /\ Asked \in Wanted /\ Request = RequestOf(Asked) /\ Request \in Requests
      /\ Asked = AllocOrder[step]
  BY <1>2, <1>3, RequestFacts
<1> DEFINE a == Mem!PayloadStart(freelist[i], Request)
<1>5. /\ Alloc!Separate'
      /\ a \in Nat \ {0} /\ a \notin DOMAIN live
      /\ DOMAIN live' = DOMAIN live \cup {a}
      /\ \A p \in DOMAIN live : live'[p] = live[p]
      /\ live'[a].req = Request
  BY <1>1, <1>3, <1>4, MemAlloc
<1>6. addrs' = [addrs EXCEPT ![Asked] = a] /\ addrs \in [Wanted -> Nat]
  BY <1>1, <1>3 DEF Places
<1> HIDE DEF a
<1>7. /\ addrs' \in [Wanted -> Nat] /\ addrs'[Asked] = a
      /\ \A w \in Wanted : w # Asked => addrs'[w] = addrs[w]
  BY <1>4, <1>5, <1>6
<1>8. /\ Places' /\ pc' \in {"alloc", "segments", "create"} /\ step' = step + 1
      /\ AllocOrder' = AllocOrder /\ Building' = Building
  BY <1>2, <1>3, <1>7, AdvanceKeepsPlaces
<1>9. \A w : RequestOf(w)' = RequestOf(w)
  BY <1>2, <1>8 DEF RequestOf
<1>10. IsBuilding
  BY <1>2 DEF IsBuilding
<1>11. Gifts'
  <2>1. \A w \in Wanted : addrs[w] # 0 =>
          /\ w \in Range(AllocOrder)
          /\ addrs[w] \in DOMAIN live /\ live[addrs[w]].req = RequestOf(w)
    BY <1>3, <1>10 DEF Gifts
  <2>2. \A w, v \in Wanted : addrs[w] = addrs[v] /\ addrs[w] # 0 => w = v
    BY <1>3, <1>10 DEF Gifts
  <2>3. Asked \in Range(AllocOrder)
    BY <1>4, AllocFacts
  <2>4. ASSUME NEW w \in Wanted, addrs'[w] # 0
        PROVE  /\ w \in Range(AllocOrder)'
               /\ addrs'[w] \in DOMAIN live' /\ live'[addrs'[w]].req = RequestOf(w)'
    <3>1. CASE w = Asked
      BY <1>4, <1>5, <1>7, <1>8, <1>9, <2>3, <3>1
    <3>2. CASE w # Asked
      BY <1>5, <1>7, <1>8, <1>9, <2>1, <2>4, <3>2
    <3>3. QED
      BY <3>1, <3>2
  <2>5. ASSUME NEW w \in Wanted, NEW v \in Wanted, addrs'[w] = addrs'[v], addrs'[w] # 0
        PROVE  w = v
    BY <1>5, <1>7, <2>1, <2>2, <2>5
  <2>6. QED
    BY <2>4, <2>5 DEF Gifts
<1>12. Ungiven'
  <2>1. \A j \in 1 .. Len(AllocOrder) : j >= step => addrs[AllocOrder[j]] = 0
    BY <1>2, <1>3 DEF Ungiven
  <2>2. ASSUME NEW j \in 1 .. Len(AllocOrder), j >= step + 1
        PROVE  addrs'[AllocOrder[j]] = 0
    <3>1. AllocOrder[j] \in Wanted /\ j # step /\ j >= step
      BY <1>4, <2>2, AllocFacts
    <3>2. AllocOrder[j] # Asked
      BY <1>4, <3>1, AllocFacts
    <3>3. QED
      BY <1>7, <2>1, <3>1, <3>2
  <2>3. QED
    BY <1>8, <2>2 DEF Ungiven
<1>13. RegionsDiffer(tm)'
  BY <1>2, <1>3 DEF RegionsDiffer
<1>14. OneOwner' /\ TaskRegions'
  <2>1. MainOwns = Range(addrs) \ {0} /\ MainOwns' = Range(addrs') \ {0}
    BY <1>2, <1>8 DEF MainOwns, Range
  <2>2. MainOwns' \subseteq MainOwns \cup {a}
    BY <1>6, <1>7, <2>1 DEF Range
  <2>3. MainOwns \subseteq DOMAIN live
    BY <1>3, OwnersFacts
  <2>4. /\ MainOwns' \subseteq DOMAIN live' /\ MainOwns' \cap DOMAIN live \subseteq MainOwns
        /\ \A p \in DOMAIN live \ MainOwns : p \in DOMAIN live' /\ live'[p] = live[p]
    BY <1>5, <2>2, <2>3
  <2>5. QED
    BY <1>2, <1>3, <2>4, MainStep
<1>15. QED
  BY <1>5, <1>8, <1>11, <1>12, <1>13, <1>14 DEF TaskMemInv

\* Without an answer main() goes on, or gives the program up with nothing in tm.
LEMMA AllocateFailsKeeps == TaskMemInv /\ AllocateFails => TaskMemInv'
<1> SUFFICES ASSUME TaskMemInv, AllocateFails PROVE TaskMemInv'
  OBVIOUS
<1>1. /\ pc = "alloc" /\ UNCHANGED <<memVars, job, header, addrs, tm, taskVars>>
      /\ IF Checked THEN pc' = "cleanup" /\ step' = 1 ELSE Advance
  BY DEF AllocateFails
<1>2. Places /\ Gifts /\ Ungiven /\ RegionsDiffer(tm)
  BY DEF TaskMemInv
<1>3. RegionsDiffer(tm)'
  BY <1>1, <1>2 DEF RegionsDiffer
<1>4. CASE Checked
  <2>1. pc' = "cleanup" /\ step' = 1 /\ tm' = << >>
    BY <1>1, <1>2, <1>4 DEF Places
  <2>2. Places'
    BY <1>1, <1>2, <2>1, CleanupFacts DEF Places, IsBuilding
  <2>3. Gifts' /\ Ungiven'
    BY <2>1 DEF Gifts, Ungiven, IsBuilding
  <2>4. MainOwns' = {}
    BY <2>1 DEF MainOwns, AddrsOf
  <2>5. QED
    BY <1>1, <1>3, <2>2, <2>3, <2>4, MainHandsOver
<1>5. CASE ~Checked
  <2>1. addrs' \in [Wanted -> Nat] /\ Advance
    BY <1>1, <1>2, <1>5 DEF Places
  <2>2. /\ Places' /\ pc' \in {"alloc", "segments", "create"} /\ step' = step + 1
        /\ AllocOrder' = AllocOrder /\ Building' = Building
    BY <1>1, <1>2, <2>1, AdvanceKeepsPlaces
  <2>3. IsBuilding /\ live' = live
    BY <1>1 DEF IsBuilding, memVars
  <2>4. Gifts'
    <3>1. \A w : RequestOf(w)' = RequestOf(w)
      BY <1>1, <2>2 DEF RequestOf
    <3>2. QED
      BY <1>1, <1>2, <2>2, <2>3, <3>1 DEF Gifts
  <2>5. Ungiven'
    <3>1. step \in Nat
      BY <1>2 DEF Places
    <3>2. QED
      BY <1>1, <1>2, <2>2, <3>1 DEF Ungiven
  <2>6. MainOwns' = MainOwns
    BY <1>1, <2>2 DEF MainOwns
  <2>7. QED
    BY <1>1, <1>3, <2>2, <2>4, <2>5, <2>6, MainHandsOver
<1>6. QED
  BY <1>4, <1>5

\* The task_mem that is filled in holds what main() was given, each region once.
LEMMA TaskMemSetFacts ==
  ASSUME Places, Gifts, IsBuilding
  PROVE  /\ DOMAIN TaskMemSet = Given /\ Given \subseteq Regions
         /\ \A s \in Given : TaskMemSet[s] = RegionOf(s) /\ TaskMemSet[s].addr = addrs[s]
         /\ RegionsDiffer(TaskMemSet)
         /\ \A left : AddrsOf(TaskMemSet, left) \subseteq MainOwns
         /\ MainOwns = Range(addrs) \ {0}
         /\ \A w \in Wanted : addrs[w] # 0 => addrs[w] \in MainOwns
<1>1. DOMAIN TaskMemSet = Given /\ Given \subseteq Regions /\ Given \subseteq Wanted
  BY DEF TaskMemSet, Given, Wanted
<1>2. \A s \in Given : TaskMemSet[s] = RegionOf(s) /\ TaskMemSet[s].addr = addrs[s]
  BY DEF TaskMemSet, RegionOf
<1>3. RegionsDiffer(TaskMemSet)
  <2>1. \A w, v \in Wanted : addrs[w] = addrs[v] /\ addrs[w] # 0 => w = v
    BY DEF Gifts
  <2>2. \A s \in Given : addrs[s] # 0
    BY DEF Given
  <2>3. QED
    BY <1>1, <1>2, <2>1, <2>2 DEF RegionsDiffer
<1>4. MainOwns = Range(addrs) \ {0}
  BY DEF MainOwns, IsBuilding
<1>5. \A w \in Wanted : addrs[w] # 0 => addrs[w] \in MainOwns
  BY <1>4 DEF Places, Range
<1>6. \A left : AddrsOf(TaskMemSet, left) \subseteq MainOwns
  <2>1. ASSUME NEW left, NEW s \in DOMAIN TaskMemSet \cap left
        PROVE  TaskMemSet[s].addr \in MainOwns
    BY <1>1, <1>2, <1>5 DEF Given
  <2>2. QED
    BY <2>1 DEF AddrsOf
<1>7. QED
  BY <1>1, <1>2, <1>3, <1>4, <1>5, <1>6

LEMMA SetupSegmentsKeeps == TaskMemInv /\ SetupSegments => TaskMemInv'
<1> SUFFICES ASSUME TaskMemInv, SetupSegments PROVE TaskMemInv'
  OBVIOUS
<1>1. /\ pc = "segments" /\ tm' = TaskMemSet /\ UNCHANGED <<memVars, job, header, addrs, taskVars>>
      /\ \/ pc' = "alloc" /\ step' = step
         \/ pc' = "cleanup" /\ step' = 1
  BY DEF SetupSegments
<1>2. Places /\ Gifts /\ Ungiven /\ IsBuilding
  BY <1>1 DEF TaskMemInv, IsBuilding
<1>3. DOMAIN tm' \subseteq Regions /\ RegionsDiffer(tm)'
  BY <1>1, <1>2, TaskMemSetFacts DEF RegionsDiffer
<1>4. Building = "userload" /\ step = 7 /\ job \in 1 .. Len(Jobs)
  <2>1. Len(Jobs) \in Nat
    BY TaskMemAssumption
  <2>2. QED
    BY <1>1, <1>2, <2>1 DEF Places
<1>5. Len(AllocOrder) = 7 /\ AllocOrder[7] = "struct"
  BY <1>4, AllocFacts
<1>6. AllocOrder' = AllocOrder /\ Building' = Building
  BY <1>1 DEF AllocOrder, Building
<1>7. CASE pc' = "alloc" /\ step' = step
  <2>1. ~Checked'
    BY <1>4, <1>5, <1>6, <1>7 DEF Checked, Asked
  <2>2. Places'
    <3>1. job' # 0 /\ job' \in 0 .. Len(Jobs) /\ step' \in 1 .. 8
      BY <1>1, <1>4, <1>7
    <3>2. step' \in 1 .. Len(AllocOrder')
      <4>1. step' = 7
        BY <1>4, <1>7
      <4>2. Len(AllocOrder') = 7
        BY <1>5, <1>6
      <4>3. QED
        BY <4>1, <4>2
    <3>3. addrs' \in [Wanted -> Nat] /\ header' \in Headers
      BY <1>1, <1>2 DEF Places
    <3>4. QED
      BY <1>3, <1>7, <2>1, <3>1, <3>2, <3>3 DEF Places
  <2>3. Gifts'
    <3>1. \A w : RequestOf(w)' = RequestOf(w)
      BY <1>1, <1>6 DEF RequestOf
    <3>2. QED
      BY <1>1, <1>2, <1>6, <3>1 DEF Gifts, memVars
  <2>4. Ungiven' /\ MainOwns' = MainOwns
    BY <1>1, <1>2, <1>6, <1>7 DEF Ungiven, MainOwns
  <2>5. QED
    BY <1>1, <1>3, <2>2, <2>3, <2>4, MainHandsOver
<1>8. CASE pc' = "cleanup" /\ step' = 1
  <2>1. Places'
    BY <1>1, <1>2, <1>3, <1>8, CleanupFacts DEF Places, IsBuilding
  <2>2. Gifts' /\ Ungiven'
    BY <1>8 DEF Gifts, Ungiven, IsBuilding
  <2>3. MainOwns' = AddrsOf(TaskMemSet, Left(1))
    BY <1>1, <1>8 DEF MainOwns, AddrsOf, Left
  <2>4. MainOwns' \subseteq MainOwns
    BY <1>2, <2>3, TaskMemSetFacts
  <2>5. QED
    BY <1>1, <1>3, <2>1, <2>2, <2>4, MainHandsOver
<1>9. QED
  BY <1>1, <1>7, <1>8

\* The regions of a refused program are freed one by one.
LEMMA MainCleanupKeeps == TaskMemInv /\ MainCleanup => TaskMemInv'
<1> SUFFICES ASSUME TaskMemInv, MainCleanup PROVE TaskMemInv'
  OBVIOUS
<1> DEFINE id == CleanupOrder[step]
<1>1. /\ pc = "cleanup" /\ UNCHANGED <<job, header, addrs, tm, taskVars>>
      /\ IF id \in DOMAIN tm THEN Mem!Free(tm[id].addr) ELSE UNCHANGED memVars
      /\ IF step = Len(CleanupOrder) THEN pc' = "next" /\ UNCHANGED step
                                     ELSE pc' = pc /\ step' = step + 1
  BY DEF MainCleanup
<1>2. /\ Places /\ RegionsDiffer(tm) /\ TaskRegions /\ OneOwner /\ Alloc!Separate
      /\ step \in 1 .. 7 /\ DOMAIN tm \subseteq Regions
  BY <1>1, CleanupFacts DEF TaskMemInv, Places
<1>3. MainOwns = AddrsOf(tm, Left(step))
  BY <1>1 DEF MainOwns
<1>4. Gifts' /\ Ungiven' /\ RegionsDiffer(tm)'
  BY <1>1, <1>2 DEF Gifts, Ungiven, IsBuilding, RegionsDiffer
<1>5. Places'
  <2>1. /\ pc' \in {"next", "cleanup"} /\ step' \in 1 .. 8
        /\ pc' = "cleanup" => step' \in 1 .. Len(CleanupOrder)
    BY <1>1, <1>2, CleanupFacts
  <2>2. QED
    BY <1>1, <1>2, <2>1 DEF Places, IsBuilding
<1> HIDE DEF id
<1>6. CASE id \in DOMAIN tm
  <2> DEFINE p == tm[id].addr
  <2>1. step \in 1 .. 6
    BY <1>2, <1>6, CleanupFacts DEF id
  <2>2. /\ pc' = "cleanup" /\ step' = step + 1
        /\ Left(step) = Left(step + 1) \cup {id} /\ id \notin Left(step + 1)
    BY <1>1, <2>1, CleanupFacts DEF id
  <2>3. p \in MainOwns /\ p \in DOMAIN live
    BY <1>2, <1>3, <1>6, <2>2, OwnersFacts DEF AddrsOf
  <2>4. Mem!Free(p)
    BY <1>1, <1>6
  <2>5. /\ Alloc!Separate'
        /\ DOMAIN live' = DOMAIN live \ {p}
        /\ \A q \in DOMAIN live' : live'[q] = live[q]
    BY <1>2, <2>3, <2>4, MemFree
  <2>6. MainOwns' = AddrsOf(tm, Left(step + 1))
    BY <1>1, <2>2 DEF MainOwns, AddrsOf, Left
  <2>7. MainOwns' \subseteq MainOwns \ {p}
    BY <1>2, <1>3, <1>6, <2>2, <2>6 DEF AddrsOf, RegionsDiffer
  <2>8. /\ MainOwns' \subseteq DOMAIN live' /\ MainOwns' \cap DOMAIN live \subseteq MainOwns
        /\ \A q \in DOMAIN live \ MainOwns : q \in DOMAIN live' /\ live'[q] = live[q]
    BY <1>2, <2>3, <2>5, <2>7, OwnersFacts
  <2>9. OneOwner' /\ TaskRegions'
    BY <1>1, <1>2, <2>8, MainStep
  <2>10. QED
    BY <1>4, <1>5, <2>5, <2>9 DEF TaskMemInv
<1>7. CASE id \notin DOMAIN tm
  <2>1. UNCHANGED <<memVars, taskVars>>
    BY <1>1, <1>7 DEF id
  <2>2. CASE step = 7
    <3>1. MainOwns' = {}
      BY <1>1, <2>2, CleanupFacts DEF MainOwns
    <3>2. QED
      BY <1>4, <1>5, <2>1, <3>1, MainHandsOver
  <2>3. CASE step # 7
    <3>1. step \in 1 .. 6
      BY <1>2, <2>3
    <3>2. pc' = "cleanup" /\ step' = step + 1 /\ Left(step + 1) \subseteq Left(step)
      BY <1>1, <3>1, CleanupFacts
    <3>3. MainOwns' = AddrsOf(tm, Left(step + 1))
      BY <1>1, <3>2 DEF MainOwns, AddrsOf, Left
    <3>4. MainOwns' \subseteq MainOwns
      BY <1>3, <3>2, <3>3 DEF AddrsOf
    <3>5. QED
      BY <1>4, <1>5, <2>1, <3>4, MainHandsOver
  <2>4. QED
    BY <2>2, <2>3
<1>8. QED
  BY <1>6, <1>7

\* The task takes over what main() has been given.
LEMMA CreateTaskKeeps == TaskMemInv /\ CreateTask => TaskMemInv'
<1> SUFFICES ASSUME TaskMemInv, CreateTask PROVE TaskMemInv'
  OBVIOUS
<1>1. pc = "create" /\ UNCHANGED <<memVars, job, step, header, addrs, dying, cleaning, buffer>>
  BY DEF CreateTask
<1>2. Places /\ Gifts /\ RegionsDiffer(tm) /\ TaskRegions /\ OneOwner /\ Alloc!Separate /\ IsBuilding
  BY <1>1 DEF TaskMemInv, IsBuilding
<1>3. Alloc!Separate' /\ live' = live
  BY <1>1, <1>2, MemKept DEF memVars
<1> DEFINE needed == {addrs["kstack"], addrs["stack"], addrs["struct"]}
           t == addrs["struct"]
<1>4. CASE 0 \in needed
  <2>1. pc' = "undefined" /\ UNCHANGED <<tm, taskMem>>
    BY <1>4 DEF CreateTask
  <2>2. Places' /\ Ungiven'
    BY <1>1, <1>2, <2>1 DEF Places, IsBuilding, Ungiven
  <2>3. Gifts' /\ RegionsDiffer(tm)'
    BY <1>1, <1>2, <1>3, <2>1 DEF Gifts, RegionsDiffer, RequestOf, AllocOrder, Building
  <2>4. MainOwns' = MainOwns
    BY <1>1, <2>1 DEF MainOwns
  <2>5. QED
    BY <1>1, <2>1, <2>2, <2>3, <2>4, MainHandsOver DEF taskVars
<1>5. CASE 0 \notin needed
  <2>1. /\ taskMem' = [u \in DOMAIN taskMem \cup {t} |-> IF u = t THEN TaskMemSet ELSE taskMem[u]]
        /\ tm' = << >> /\ pc' = "next"
    BY <1>5 DEF CreateTask
  <2>2. t # 0 /\ "struct" \in Wanted /\ "struct" \notin Regions
    BY <1>5, CleanupFacts DEF Wanted
  <2> HIDE DEF needed, t
  <2>3. Places' /\ Ungiven' /\ Gifts'
    BY <1>1, <1>2, <2>1 DEF Places, IsBuilding, Ungiven, Gifts
  <2>4. RegionsDiffer(tm)'
    BY <2>1 DEF RegionsDiffer
  <2>5. /\ DOMAIN TaskMemSet = Given /\ Given \subseteq Regions
        /\ \A s \in Given : TaskMemSet[s] = RegionOf(s) /\ TaskMemSet[s].addr = addrs[s]
        /\ RegionsDiffer(TaskMemSet)
        /\ \A left : AddrsOf(TaskMemSet, left) \subseteq MainOwns
        /\ t \in MainOwns
    BY <1>2, <2>2, TaskMemSetFacts DEF t
  <2>6. t \notin DOMAIN taskMem
    BY <1>2, <2>5, OwnersFacts DEF TaskOwns
  <2>7. /\ DOMAIN taskMem' = DOMAIN taskMem \cup {t} /\ taskMem'[t] = TaskMemSet
        /\ \A u \in DOMAIN taskMem : u # t /\ taskMem'[u] = taskMem[u]
    BY <2>1, <2>6
  <2>8. MainOwns' = {} /\ TestTaskOwns' = TestTaskOwns
    BY <1>1, <2>1 DEF MainOwns, TestTaskOwns
  <2>9. \A u \in DOMAIN taskMem : TaskOwns(u)' = TaskOwns(u)
    BY <1>1, <2>7 DEF TaskOwns, AddrsOf, Left
  <2>10. ASSUME NEW u, u = t PROVE TaskOwns(u)' \subseteq MainOwns
    <3> DEFINE left == IF u = cleaning'.task THEN Left(cleaning'.step) ELSE Regions
    <3>1. TaskOwns(u)' = {u} \cup AddrsOf(taskMem'[u], left)
      BY DEF TaskOwns, AddrsOf, Left
    <3> HIDE DEF left
    <3>2. AddrsOf(taskMem'[u], left) \subseteq MainOwns
      BY <2>5, <2>7, <2>10
    <3>3. QED
      BY <2>5, <2>10, <3>1, <3>2
  <2>11. OneOwner'
    <3>1. /\ MainOwns \subseteq DOMAIN live /\ TestTaskOwns \subseteq DOMAIN live
          /\ MainOwns \cap TestTaskOwns = {}
          /\ \A u \in DOMAIN taskMem :
               /\ TaskOwns(u) \subseteq DOMAIN live
               /\ TaskOwns(u) \cap MainOwns = {} /\ TaskOwns(u) \cap TestTaskOwns = {}
               /\ \A v \in DOMAIN taskMem : v # u => TaskOwns(u) \cap TaskOwns(v) = {}
      BY <1>2, OwnersFacts
    <3>2. ASSUME NEW u \in DOMAIN taskMem'
          PROVE  /\ TaskOwns(u)' \subseteq DOMAIN live' /\ TaskOwns(u)' \cap TestTaskOwns' = {}
                 /\ \A v \in DOMAIN taskMem' \ {u} : TaskOwns(u)' \cap TaskOwns(v)' = {}
      <4>1. CASE u = t
        <5>1. \A v \in DOMAIN taskMem' \ {u} : v \in DOMAIN taskMem
          BY <2>7, <4>1
        <5>2. TaskOwns(u)' \subseteq MainOwns
          BY <2>10, <4>1
        <5>3. QED
          BY <1>3, <2>8, <2>9, <3>1, <5>1, <5>2
      <4>2. CASE u # t
        <5>1. u \in DOMAIN taskMem /\ TaskOwns(u)' = TaskOwns(u)
          BY <2>7, <2>9, <4>2
        <5>2. ASSUME NEW v \in DOMAIN taskMem', v # u PROVE TaskOwns(u)' \cap TaskOwns(v)' = {}
          <6>1. CASE v = t
            BY <2>10, <3>1, <5>1, <6>1
          <6>2. CASE v # t
            BY <2>7, <2>9, <3>1, <5>1, <5>2, <6>2
          <6>3. QED
            BY <6>1, <6>2
        <5>3. QED
          BY <1>3, <2>8, <3>1, <5>1, <5>2
      <4>3. QED
        BY <4>1, <4>2
    <3>3. QED
      BY <1>3, <2>8, <3>1, <3>2 DEF OneOwner, Owned
  <2>12. TaskRegions'
    <3>1. ASSUME NEW u \in DOMAIN taskMem'
          PROVE  /\ DOMAIN taskMem'[u] \subseteq Regions
                 /\ RegionsDiffer(taskMem'[u])
                 /\ \A s \in DOMAIN taskMem'[u] : taskMem'[u][s].addr # u
      <4>1. CASE u = t
        <5>1. ASSUME NEW s \in Given PROVE addrs[s] # t
          <6>1. \A w, v \in Wanted : addrs[w] = addrs[v] /\ addrs[w] # 0 => w = v
            BY <1>2 DEF Gifts
          <6>2. s \in Wanted /\ s # "struct" /\ addrs[s] # 0
            BY <2>2, <2>5 DEF Wanted, Given
          <6>3. QED
            BY <2>2, <6>1, <6>2 DEF t
        <5>2. QED
          BY <2>5, <2>7, <4>1, <5>1
      <4>2. CASE u # t
        BY <1>2, <2>7, <4>2 DEF TaskRegions
      <4>3. QED
        BY <4>1, <4>2
    <3>2. ASSUME NEW u \in Running', NEW s \in MpuIds \cap DOMAIN taskMem'[u]
          PROVE  LET r == taskMem'[u][s]
                 IN  /\ r.addr \in DOMAIN live'
                     /\ live'[r.addr].req = [size |-> r.size, align |-> r.size]
                     /\ r.size \in PowersOfTwo /\ r.size >= MpuMin
      <4>1. CASE u = t
        <5>1. s \in Given /\ s \in MpuIds /\ taskMem'[u][s] = RegionOf(s)
          BY <2>5, <2>7, <4>1
        <5>2. QED
          BY <1>2, <1>3, <5>1, RegionFacts
      <4>2. CASE u # t
        <5>1. u \in Running /\ taskMem'[u] = taskMem[u]
          BY <1>1, <2>7, <4>2 DEF Running
        <5>2. QED
          BY <1>2, <1>3, <5>1 DEF TaskRegions
      <4>3. QED
        BY <4>1, <4>2
    <3>3. dying' \subseteq DOMAIN taskMem' /\ UNCHANGED <<dying, cleaning, buffer>>
      BY <1>1, <1>2, <2>7 DEF TaskRegions
    <3>4. cleaning' \in [task : dying' \cup {0}, step : 1 .. Len(CleanupOrder)] /\ buffer' \in Nat
      BY <1>2, <3>3 DEF TaskRegions
    <3>5. QED
      BY <3>1, <3>2, <3>3, <3>4 DEF TaskRegions, RegionsDiffer
  <2>13. QED
    BY <1>3, <2>3, <2>4, <2>11, <2>12 DEF TaskMemInv
<1>6. QED
  BY <1>4, <1>5

-----------------------------------------------------------------------------
(* The steps of tasks.                                                     *)

\* Owners that only let go of memory stay apart.
LEMMA OwnersShrink ==
  ASSUME OneOwner, MainOwns' \subseteq MainOwns, TestTaskOwns' \subseteq TestTaskOwns,
         DOMAIN taskMem' \subseteq DOMAIN taskMem,
         \A t \in DOMAIN taskMem' : TaskOwns(t)' \subseteq TaskOwns(t),
         MainOwns' \subseteq DOMAIN live', TestTaskOwns' \subseteq DOMAIN live',
         \A t \in DOMAIN taskMem' : TaskOwns(t)' \subseteq DOMAIN live'
  PROVE  OneOwner'
<1>1. /\ MainOwns \cap TestTaskOwns = {}
      /\ \A t \in DOMAIN taskMem :
           /\ TaskOwns(t) \cap MainOwns = {} /\ TaskOwns(t) \cap TestTaskOwns = {}
           /\ \A u \in DOMAIN taskMem : u # t => TaskOwns(t) \cap TaskOwns(u) = {}
  BY OwnersFacts
<1>2. Owned' \subseteq DOMAIN live'
  BY DEF Owned
<1>3. MainOwns' \cap TestTaskOwns' = {}
  BY <1>1
<1>4. ASSUME NEW t \in DOMAIN taskMem'
      PROVE  TaskOwns(t)' \cap (MainOwns' \cup TestTaskOwns') = {}
  BY <1>1
<1>5. ASSUME NEW t \in DOMAIN taskMem', NEW u \in DOMAIN taskMem' \ {t}
      PROVE  TaskOwns(t)' \cap TaskOwns(u)' = {}
  BY <1>1
<1>6. QED
  BY <1>2, <1>3, <1>4, <1>5 DEF OneOwner

\* The regions of the tasks that still run are as they were.
LEMMA RegionsKeep ==
  ASSUME TaskRegions, Running' \subseteq Running, DOMAIN taskMem' \subseteq DOMAIN taskMem,
         \A t \in DOMAIN taskMem' : taskMem'[t] = taskMem[t],
         dying' \subseteq DOMAIN taskMem',
         cleaning' \in [task : dying' \cup {0}, step : 1 .. Len(CleanupOrder)], buffer' \in Nat,
         \A t \in Running' : \A p \in TaskOwns(t) : p \in DOMAIN live' /\ live'[p] = live[p]
  PROVE  TaskRegions'
<1>1. ASSUME NEW t \in Running', NEW s \in MpuIds \cap DOMAIN taskMem'[t]
      PROVE  LET r == taskMem'[t][s]
             IN  /\ r.addr \in DOMAIN live' /\ live'[r.addr].req = [size |-> r.size, align |-> r.size]
                 /\ r.size \in PowersOfTwo /\ r.size >= MpuMin
  <2>1. t \in Running /\ t \in DOMAIN taskMem' /\ taskMem'[t] = taskMem[t]
    BY DEF Running
  <2>2. taskMem[t][s].addr \in TaskOwns(t)
    BY <2>1, RunningOwns
  <2>3. /\ taskMem[t][s].addr \in DOMAIN live'
        /\ live'[taskMem[t][s].addr] = live[taskMem[t][s].addr]
    BY <2>2
  <2>4. QED
    BY <2>1, <2>3 DEF TaskRegions
<1>2. QED
  BY <1>1 DEF TaskRegions, RegionsDiffer

\* No task has the address 0.
LEMMA NoTaskAtZero ==
  ASSUME TaskMemInv
  PROVE  0 \notin DOMAIN taskMem
<1>1. \A t \in DOMAIN taskMem : t \in DOMAIN live
  BY OwnersFacts DEF TaskMemInv, TaskOwns
<1>2. QED
  BY <1>1, AddressFacts DEF TaskMemInv

LEMMA ExitKeeps ==
  ASSUME TaskMemInv, NEW t \in DOMAIN taskMem \ dying, Exit(t)
  PROVE  TaskMemInv'
<1> USE DEF TaskMemInv
<1>1. /\ dying' = dying \cup {t}
      /\ UNCHANGED <<memVars, mainVars, taskMem, cleaning, buffer>>
  BY DEF Exit
<1>2. Alloc!Separate' /\ live' = live
  BY <1>1, MemKept DEF memVars
<1>3. Places' /\ Gifts' /\ Ungiven' /\ RegionsDiffer(tm)' /\ MainOwns' = MainOwns
  BY <1>1, <1>2, OwnersFacts, MainKeeps
<1>4. TestTaskOwns' = TestTaskOwns /\ \A u : TaskOwns(u)' = TaskOwns(u)
  BY <1>1 DEF TestTaskOwns, TaskOwns, AddrsOf, Left
<1>5. OneOwner'
  BY <1>1, <1>2, <1>3, <1>4, OwnersFacts, OwnersShrink
<1>6. TaskRegions'
  <2>1. Running' \subseteq Running
    BY <1>1 DEF Running
  <2>2. \A u \in Running' : \A p \in TaskOwns(u) : p \in DOMAIN live' /\ live'[p] = live[p]
    BY <1>2, <2>1, OwnersFacts DEF Running
  <2>3. /\ dying' \subseteq DOMAIN taskMem' /\ buffer' \in Nat
        /\ cleaning' \in [task : dying' \cup {0}, step : 1 .. Len(CleanupOrder)]
    BY <1>1 DEF TaskRegions
  <2>4. QED
    BY <1>1, <2>1, <2>2, <2>3, RegionsKeep
<1>7. QED
  BY <1>2, <1>3, <1>5, <1>6

\* The idle task begins with the whole of what the task had.
LEMMA ReapKeeps ==
  ASSUME TaskMemInv, NEW t \in dying, Reap(t)
  PROVE  TaskMemInv'
<1> USE DEF TaskMemInv
<1>1. /\ cleaning.task = 0 /\ cleaning' = [task |-> t, step |-> 1]
      /\ UNCHANGED <<memVars, mainVars, taskMem, dying, buffer>>
  BY DEF Reap
<1>2. Alloc!Separate' /\ live' = live
  BY <1>1, MemKept DEF memVars
<1>3. Places' /\ Gifts' /\ Ungiven' /\ RegionsDiffer(tm)' /\ MainOwns' = MainOwns
  BY <1>1, <1>2, OwnersFacts, MainKeeps
<1>4. TestTaskOwns' = TestTaskOwns
  BY <1>1 DEF TestTaskOwns
<1>5. ASSUME NEW u \in DOMAIN taskMem PROVE TaskOwns(u)' \subseteq TaskOwns(u)
  <2>1. u # cleaning.task
    BY <1>1, NoTaskAtZero
  <2>2. TaskOwns(u) = {u} \cup AddrsOf(taskMem[u], Regions)
    BY <2>1 DEF TaskOwns
  <2>3. DOMAIN taskMem[u] \subseteq Regions
    BY DEF TaskRegions
  <2> DEFINE left == IF u = cleaning'.task THEN Left(cleaning'.step) ELSE Regions
  <2>4. TaskOwns(u)' = {u} \cup AddrsOf(taskMem[u], left)
    BY <1>1 DEF TaskOwns, AddrsOf, Left
  <2> HIDE DEF left
  <2>5. AddrsOf(taskMem[u], left) \subseteq AddrsOf(taskMem[u], Regions)
    BY <2>3 DEF AddrsOf
  <2>6. QED
    BY <2>2, <2>4, <2>5
<1>6. OneOwner'
  BY <1>1, <1>2, <1>3, <1>4, <1>5, OwnersFacts, OwnersShrink
<1>7. TaskRegions'
  <2>1. Running' \subseteq Running
    BY <1>1 DEF Running
  <2>2. \A u \in Running' : \A p \in TaskOwns(u) : p \in DOMAIN live' /\ live'[p] = live[p]
    BY <1>2, <2>1, OwnersFacts DEF Running
  <2>3. /\ dying' \subseteq DOMAIN taskMem' /\ buffer' \in Nat
        /\ cleaning' \in [task : dying' \cup {0}, step : 1 .. Len(CleanupOrder)]
    BY <1>1, CleanupFacts DEF TaskRegions
  <2>4. QED
    BY <1>1, <2>1, <2>2, <2>3, RegionsKeep
<1>8. QED
  BY <1>2, <1>3, <1>6, <1>7

\* The test task gives its buffer back.
LEMMA TestTaskFreeKeeps == TaskMemInv /\ TestTaskFree => TaskMemInv'
<1> SUFFICES ASSUME TaskMemInv, TestTaskFree PROVE TaskMemInv'
  OBVIOUS
<1> USE DEF TaskMemInv
<1>1. /\ buffer # 0 /\ Mem!Free(buffer) /\ buffer' = 0
      /\ UNCHANGED <<mainVars, taskMem, dying, cleaning>>
  BY DEF TestTaskFree
<1>2. buffer \in TestTaskOwns /\ buffer \in DOMAIN live
  BY <1>1, OwnersFacts DEF TestTaskOwns
<1>3. /\ Alloc!Separate'
      /\ DOMAIN live' = DOMAIN live \ {buffer}
      /\ \A q \in DOMAIN live' : live'[q] = live[q]
  BY <1>1, <1>2, MemFree
<1>4. \A p \in MainOwns : p \in DOMAIN live' /\ live'[p] = live[p]
  BY <1>2, <1>3, OwnersFacts
<1>5. Places' /\ Gifts' /\ Ungiven' /\ RegionsDiffer(tm)' /\ MainOwns' = MainOwns
  BY <1>1, <1>4, MainKeeps
<1>6. TestTaskOwns' = {} /\ \A u : TaskOwns(u)' = TaskOwns(u)
  BY <1>1 DEF TestTaskOwns, TaskOwns, AddrsOf, Left
<1>7. \A t \in DOMAIN taskMem : \A p \in TaskOwns(t) : p \in DOMAIN live' /\ live'[p] = live[p]
  BY <1>2, <1>3, OwnersFacts
<1>8. OneOwner'
  BY <1>1, <1>4, <1>5, <1>6, <1>7, OwnersShrink
<1>9. TaskRegions'
  BY <1>1, <1>7, TasksKeep
<1>10. QED
  BY <1>3, <1>5, <1>8, <1>9

\* What the test task is given was nobody's.
LEMMA TestTaskAllocKeeps == TaskMemInv /\ TestTaskAlloc => TaskMemInv'
<1> SUFFICES ASSUME TaskMemInv, TestTaskAlloc PROVE TaskMemInv'
  OBVIOUS
<1> USE DEF TaskMemInv
<1>1. PICK i \in DOMAIN freelist :
        /\ Mem!AllocFrom(i, BufferRequest)
        /\ buffer' = Mem!PayloadStart(freelist[i], BufferRequest)
  BY DEF TestTaskAlloc
<1>2. UNCHANGED <<mainVars, taskMem, dying, cleaning>>
  BY DEF TestTaskAlloc
<1>3. BufferRequest \in Requests
  BY DEF Requests
<1>4. /\ Alloc!Separate'
      /\ buffer' \in Nat \ {0} /\ buffer' \notin DOMAIN live
      /\ DOMAIN live' = DOMAIN live \cup {buffer'}
      /\ \A p \in DOMAIN live : live'[p] = live[p]
  BY <1>1, <1>3, MemAlloc
<1>5. \A p \in MainOwns : p \in DOMAIN live' /\ live'[p] = live[p]
  BY <1>4, OwnersFacts
<1>6. Places' /\ Gifts' /\ Ungiven' /\ RegionsDiffer(tm)' /\ MainOwns' = MainOwns
  BY <1>2, <1>5, MainKeeps
<1>7. TestTaskOwns' = {buffer'} /\ \A u : TaskOwns(u)' = TaskOwns(u)
  BY <1>2, <1>4 DEF TestTaskOwns, TaskOwns, AddrsOf, Left
<1>8. \A t \in DOMAIN taskMem : \A p \in TaskOwns(t) : p \in DOMAIN live' /\ live'[p] = live[p]
  BY <1>4, OwnersFacts
<1>9. OneOwner'
  <2>1. Owned' \subseteq DOMAIN live'
    BY <1>2, <1>4, <1>5, <1>6, <1>7, <1>8 DEF Owned
  <2>2. MainOwns' \cap TestTaskOwns' = {}
    BY <1>4, <1>6, <1>7, OwnersFacts
  <2>3. ASSUME NEW t \in DOMAIN taskMem'
        PROVE  /\ TaskOwns(t)' \cap (MainOwns' \cup TestTaskOwns') = {}
               /\ \A u \in DOMAIN taskMem' \ {t} : TaskOwns(t)' \cap TaskOwns(u)' = {}
    BY <1>2, <1>4, <1>6, <1>7, OwnersFacts
  <2>4. QED
    BY <2>1, <2>2, <2>3 DEF OneOwner
<1>10. TaskRegions'
  BY <1>2, <1>4, <1>8, TasksKeep
<1>11. QED
  BY <1>4, <1>6, <1>9, <1>10

\* The idle task frees one place after the other; what is left stays the task's.
LEMMA CleanupStepKeeps == TaskMemInv /\ CleanupStep => TaskMemInv'
<1> SUFFICES ASSUME TaskMemInv, CleanupStep PROVE TaskMemInv'
  OBVIOUS
<1> USE DEF TaskMemInv
<1> DEFINE t == cleaning.task
           k == cleaning.step
           id == CleanupOrder[k]
<1>1. /\ t # 0
      /\ CASE id = "struct" -> Mem!Free(t)
           [] id \in DOMAIN taskMem[t] -> Mem!Free(taskMem[t][id].addr)
           [] OTHER -> UNCHANGED memVars
      /\ IF k < Len(CleanupOrder)
         THEN cleaning' = [cleaning EXCEPT !.step = @ + 1] /\ UNCHANGED <<taskMem, dying>>
         ELSE /\ cleaning' = [task |-> 0, step |-> 1]
              /\ taskMem' = Restrict(taskMem, DOMAIN taskMem \ {t})
              /\ dying' = dying \ {t}
      /\ UNCHANGED <<mainVars, buffer>>
  BY DEF CleanupStep
<1>2. /\ t \in dying /\ t \in DOMAIN taskMem /\ k \in 1 .. 7 /\ buffer' \in Nat
      /\ cleaning = [task |-> t, step |-> k]
  BY <1>1, CleanupFacts DEF TaskRegions
<1>3. TaskOwns(t) = {t} \cup AddrsOf(taskMem[t], Left(k))
  BY DEF TaskOwns
<1>4. TestTaskOwns' = TestTaskOwns
  BY <1>1 DEF TestTaskOwns
<1> HIDE DEF t, k, id
<1>5. ASSUME Alloc!Separate', DOMAIN taskMem' \subseteq DOMAIN taskMem,
             \A u \in DOMAIN taskMem' : taskMem'[u] = taskMem[u],
             Running' = Running, dying' \subseteq DOMAIN taskMem',
             cleaning' \in [task : dying' \cup {0}, step : 1 .. Len(CleanupOrder)],
             \A q \in DOMAIN live \ TaskOwns(t) : q \in DOMAIN live' /\ live'[q] = live[q],
             \A u \in DOMAIN taskMem' \ {t} : TaskOwns(u)' = TaskOwns(u),
             \A u \in DOMAIN taskMem' \cap {t} :
               TaskOwns(u)' \subseteq TaskOwns(u) /\ TaskOwns(u)' \subseteq DOMAIN live'
      PROVE  TaskMemInv'
  <2>1. \A p \in MainOwns : p \in DOMAIN live' /\ live'[p] = live[p]
    BY <1>2, <1>5, OwnersFacts
  <2>2. Places' /\ Gifts' /\ Ungiven' /\ RegionsDiffer(tm)' /\ MainOwns' = MainOwns
    BY <1>1, <2>1, MainKeeps
  <2>3. TestTaskOwns' \subseteq DOMAIN live'
    BY <1>2, <1>4, <1>5, OwnersFacts
  <2>4. \A u \in DOMAIN taskMem \ {t} : \A p \in TaskOwns(u) : p \in DOMAIN live' /\ live'[p] = live[p]
    BY <1>2, <1>5, OwnersFacts
  <2>5. \A u \in DOMAIN taskMem' : TaskOwns(u)' \subseteq TaskOwns(u) /\ TaskOwns(u)' \subseteq DOMAIN live'
    BY <1>5, <2>4
  <2>6. OneOwner'
    BY <1>4, <1>5, <2>1, <2>2, <2>3, <2>5, OwnersShrink
  <2>7. \A u \in Running' : u \in DOMAIN taskMem \ {t}
    BY <1>2, <1>5 DEF Running
  <2>8. TaskRegions'
    BY <1>2, <1>5, <2>4, <2>7, RegionsKeep
  <2>9. QED
    BY <1>5, <2>2, <2>6, <2>8
<1>6. CASE k \in 1 .. 6
  <2>1. /\ id \in Regions /\ id # "struct" /\ k < Len(CleanupOrder)
        /\ Left(k) = Left(k + 1) \cup {id} /\ id \notin Left(k + 1)
    BY <1>6, CleanupFacts DEF id
  <2>2. /\ cleaning' = [task |-> t, step |-> k + 1] /\ UNCHANGED <<taskMem, dying>>
        /\ k + 1 \in 1 .. Len(CleanupOrder)
    BY <1>1, <1>2, <1>6, <2>1, CleanupFacts
  <2>3. \A u \in DOMAIN taskMem' \ {t} : TaskOwns(u)' = TaskOwns(u)
    BY <1>2, <2>2 DEF TaskOwns, AddrsOf, Left
  <2>4. \A u : u = t => TaskOwns(u)' = {u} \cup AddrsOf(taskMem[u], Left(k + 1))
    BY <2>2 DEF TaskOwns, AddrsOf, Left
  <2>5. /\ Running' = Running /\ dying' \subseteq DOMAIN taskMem'
        /\ cleaning' \in [task : dying' \cup {0}, step : 1 .. Len(CleanupOrder)]
    BY <1>2, <2>2 DEF Running, TaskRegions
  <2>6. CASE id \in DOMAIN taskMem[t]
    <3> DEFINE p == taskMem[t][id].addr
    <3>1. p \in TaskOwns(t) /\ p \in DOMAIN live /\ p # t
      BY <1>2, <1>3, <2>1, <2>6, OwnersFacts DEF AddrsOf, TaskRegions
    <3>2. Mem!Free(p)
      BY <1>1, <2>1, <2>6
    <3>3. /\ Alloc!Separate'
          /\ DOMAIN live' = DOMAIN live \ {p}
          /\ \A q \in DOMAIN live' : live'[q] = live[q]
      BY <3>1, <3>2, MemFree
    <3>4. AddrsOf(taskMem[t], Left(k + 1)) \subseteq AddrsOf(taskMem[t], Left(k)) \ {p}
      <4>1. \A s \in DOMAIN taskMem[t] : taskMem[t][s].addr = taskMem[t][id].addr => s = id
        BY <1>2, <2>6 DEF TaskRegions, RegionsDiffer
      <4>2. QED
        BY <2>1, <4>1 DEF AddrsOf
    <3> HIDE DEF p
    <3>5. {t} \cup AddrsOf(taskMem[t], Left(k + 1)) \subseteq TaskOwns(t) \ {p}
      BY <1>3, <3>1, <3>4
    <3>6. \A u : u = t => TaskOwns(u)' \subseteq TaskOwns(u) \ {p}
      BY <2>4, <3>5
    <3>7. \A u : u = t => TaskOwns(u)' \subseteq TaskOwns(u) /\ TaskOwns(u)' \subseteq DOMAIN live'
      BY <1>2, <3>3, <3>6, OwnersFacts
    <3>8. \A q \in DOMAIN live \ TaskOwns(t) : q \in DOMAIN live' /\ live'[q] = live[q]
      BY <3>1, <3>3
    <3>9. QED
      BY <1>5, <2>2, <2>3, <2>5, <3>3, <3>7, <3>8
  <2>7. CASE id \notin DOMAIN taskMem[t]
    <3>1. Alloc!Separate' /\ live' = live
      BY <1>1, <2>1, <2>7, MemKept DEF memVars
    <3>2. {t} \cup AddrsOf(taskMem[t], Left(k + 1)) \subseteq TaskOwns(t)
      BY <1>3, <2>1 DEF AddrsOf
    <3>3. \A u : u = t => TaskOwns(u)' \subseteq TaskOwns(u) /\ TaskOwns(u)' \subseteq DOMAIN live'
      BY <1>2, <2>4, <3>1, <3>2, OwnersFacts
    <3>4. QED
      BY <1>5, <2>2, <2>3, <2>5, <3>1, <3>3
  <2>8. QED
    BY <2>6, <2>7
<1>7. CASE k = 7
  <2>1. id = "struct" /\ ~(k < Len(CleanupOrder))
    BY <1>7, CleanupFacts DEF id
  <2>2. /\ Mem!Free(t) /\ cleaning' = [task |-> 0, step |-> 1] /\ dying' = dying \ {t}
        /\ taskMem' = Restrict(taskMem, DOMAIN taskMem \ {t})
    <3>1. Mem!Free(t)
      <4>1. id \notin DOMAIN taskMem[t]
        BY <1>2, <2>1, CleanupFacts DEF TaskRegions
      <4>2. QED
        BY <1>1, <2>1, <4>1
    <3>2. /\ cleaning' = [task |-> 0, step |-> 1] /\ dying' = dying \ {t}
          /\ taskMem' = Restrict(taskMem, DOMAIN taskMem \ {t})
      BY <1>1, <2>1
    <3>3. QED
      BY <3>1, <3>2
  <2>3. DOMAIN taskMem' = DOMAIN taskMem \ {t} /\ \A u \in DOMAIN taskMem' : taskMem'[u] = taskMem[u]
    BY <2>2 DEF Restrict
  <2>4. t \in TaskOwns(t) /\ t \in DOMAIN live
    BY <1>2, <1>3, OwnersFacts
  <2>5. /\ Alloc!Separate'
        /\ DOMAIN live' = DOMAIN live \ {t}
        /\ \A q \in DOMAIN live' : live'[q] = live[q]
    BY <2>2, <2>4, MemFree
  <2>6. /\ Running' = Running /\ dying' \subseteq DOMAIN taskMem'
        /\ cleaning' \in [task : dying' \cup {0}, step : 1 .. Len(CleanupOrder)]
    <3>1. dying \subseteq DOMAIN taskMem
      BY DEF TaskRegions
    <3>2. Running' = Running /\ dying' \subseteq DOMAIN taskMem'
      BY <1>2, <2>2, <2>3, <3>1 DEF Running
    <3>3. 1 \in 1 .. Len(CleanupOrder)
      BY CleanupFacts
    <3>4. QED
      BY <2>2, <3>2, <3>3
  <2>7. ASSUME NEW u \in DOMAIN taskMem' \ {t} PROVE TaskOwns(u)' = TaskOwns(u)
    <3>1. u # 0 /\ u # cleaning.task /\ u # cleaning'.task /\ taskMem'[u] = taskMem[u]
      BY <1>2, <2>2, <2>3, NoTaskAtZero
    <3>2. QED
      BY <3>1 DEF TaskOwns, AddrsOf
  <2>8. \A q \in DOMAIN live \ TaskOwns(t) : q \in DOMAIN live' /\ live'[q] = live[q]
    BY <2>4, <2>5
  <2>9. QED
    BY <1>5, <2>3, <2>5, <2>6, <2>7, <2>8
<1>8. QED
  BY <1>2, <1>6, <1>7

-----------------------------------------------------------------------------
(* The invariant and what follows from it.                                 *)

LEMMA StutterKeeps == TaskMemInv /\ UNCHANGED vars => TaskMemInv'
<1> SUFFICES ASSUME TaskMemInv, UNCHANGED vars PROVE TaskMemInv'
  OBVIOUS
<1>1. UNCHANGED <<memVars, mainVars, taskVars>>
  BY DEF vars
<1>2. \A p \in MainOwns : p \in DOMAIN live' /\ live'[p] = live[p]
  BY <1>1, OwnersFacts DEF TaskMemInv, memVars
<1>3. Places' /\ Gifts' /\ Ungiven' /\ RegionsDiffer(tm)' /\ MainOwns' = MainOwns
  BY <1>1, <1>2, MainKeeps DEF TaskMemInv
<1>4. QED
  BY <1>1, <1>3, MainHandsOver

LEMMA TaskMemStep == TaskMemInv /\ [Next]_vars => TaskMemInv'
<1> SUFFICES ASSUME TaskMemInv, [Next]_vars PROVE TaskMemInv'
  OBVIOUS
<1>1. CASE AddRange
  BY <1>1, AddRangeKeeps
<1>2. CASE BeginJob
  BY <1>2, BeginJobKeeps
<1>3. CASE NoProgram
  BY <1>3, NoProgramKeeps
<1>4. CASE Allocate
  BY <1>4, AllocateKeeps
<1>5. CASE AllocateFails
  BY <1>5, AllocateFailsKeeps
<1>6. CASE SetupSegments
  BY <1>6, SetupSegmentsKeeps
<1>7. CASE CreateTask
  BY <1>7, CreateTaskKeeps
<1>8. CASE MainCleanup
  BY <1>8, MainCleanupKeeps
<1>9. CASE TaskReady
  BY <1>9, TaskReadyKeeps
<1>10. ASSUME NEW t \in DOMAIN taskMem \ dying, Exit(t) PROVE TaskMemInv'
  BY <1>10, ExitKeeps
<1>11. ASSUME NEW t \in dying, Reap(t) PROVE TaskMemInv'
  BY <1>11, ReapKeeps
<1>12. CASE CleanupStep
  BY <1>12, CleanupStepKeeps
<1>13. CASE TestTaskFree
  BY <1>13, TestTaskFreeKeeps
<1>14. CASE TestTaskAlloc
  BY <1>14, TestTaskAllocKeeps
<1>15. CASE UNCHANGED vars
  BY <1>15, StutterKeeps
<1>16. QED
  BY <1>1, <1>2, <1>3, <1>4, <1>5, <1>6, <1>7, <1>8, <1>9, <1>10, <1>11, <1>12, <1>13,
     <1>14, <1>15 DEF Next

\* The invariant holds throughout: main() builds each task from memory that is its
\* own, and a task keeps it until the idle task has freed it.
THEOREM TaskMemAlways == Spec => []TaskMemInv
BY TaskMemInit, TaskMemStep, PTL DEF Spec

\* Memory has one owner, for any ranges, programs and order of boot: no region is in
\* two tasks or freed while a task has it, and nothing is freed twice.
THEOREM MemoryHasOneOwner == Spec => []OneOwner
<1>1. TaskMemInv => OneOwner
  BY DEF TaskMemInv
<1>2. QED
  BY <1>1, TaskMemAlways, PTL

\* What the MPU table opens to a running task was allocated for it.
THEOREM MpuShowsOwnMemory == Spec => []TasksIsolated
<1>1. TaskMemInv => TasksIsolated
  <2> SUFFICES ASSUME TaskMemInv, NEW t \in Running, NEW s \in MpuTable(t)
               PROVE  /\ taskMem[t][s].addr \in DOMAIN live
                      /\ taskMem[t][s].size <= live[taskMem[t][s].addr].req.size
    BY DEF TasksIsolated
  <2> DEFINE r == taskMem[t][s]
  <2>1. s \in MpuIds \cap DOMAIN taskMem[t]
    BY DEF MpuTable
  <2>2. /\ r.addr \in DOMAIN live /\ live[r.addr].req = [size |-> r.size, align |-> r.size]
        /\ r.size \in PowersOfTwo
    BY <2>1 DEF TaskMemInv, TaskRegions
  <2>3. live[r.addr].req.size = r.size /\ r.size \in Int
    BY <2>2 DEF PowersOfTwo
  <2> HIDE DEF r
  <2>4. QED
    BY <2>2, <2>3 DEF r
<1>2. QED
  BY <1>1, TaskMemAlways, PTL

\* No region of a running task is left out of its MPU table: sizes and addresses are
\* always such that the MPU takes them.
THEOREM MpuTakesEveryRegion == Spec => []RegionsProgrammed
<1>1. TaskMemInv => RegionsProgrammed
  <2> SUFFICES ASSUME TaskMemInv, NEW t \in Running, NEW s \in MpuIds \cap DOMAIN taskMem[t]
               PROVE  Programmable(taskMem[t][s])
    BY DEF RegionsProgrammed, MpuTable
  <2> DEFINE r == taskMem[t][s]
  <2>1. /\ r.addr \in DOMAIN live /\ live[r.addr].req = [size |-> r.size, align |-> r.size]
        /\ r.size \in PowersOfTwo /\ r.size >= MpuMin
    BY DEF TaskMemInv, TaskRegions
  <2>2. live[r.addr].req.align = r.size /\ r.size # 0
    BY <2>1 DEF PowersOfTwo
  <2>3. r.addr % r.size = 0
    BY <2>1, <2>2, AddressFacts DEF TaskMemInv
  <2>4. QED
    BY <2>1, <2>3 DEF Programmable
<1>2. QED
  BY <1>1, TaskMemAlways, PTL

\* Types.
THEOREM TaskMemTypes == Spec => []TypeOK
<1>1. TaskMemInv => TypeOK
  <2> SUFFICES ASSUME TaskMemInv PROVE TypeOK
    OBVIOUS
  <2>1. Mem!TypeOK
    BY DEF TaskMemInv, Alloc!Separate, Alloc!TypeOK, Mem!TypeOK, Alloc!Block, Mem!Block
  <2>2. /\ job \in 0 .. Len(Jobs) /\ step \in 1 .. 8
        /\ pc \in {"next", "alloc", "segments", "create", "cleanup", "running", "undefined"}
        /\ header \in Headers
        /\ addrs \in [Regions \cup {"struct"} -> Nat]
        /\ DOMAIN tm \subseteq Regions
    BY DEF TaskMemInv, Places, Wanted
  <2>3. /\ dying \subseteq DOMAIN taskMem
        /\ \A t \in DOMAIN taskMem : DOMAIN taskMem[t] \subseteq Regions
        /\ cleaning.task \in dying \cup {0} /\ cleaning.step \in 1 .. Len(CleanupOrder)
        /\ buffer \in Nat
    BY DEF TaskMemInv, TaskRegions
  <2>4. QED
    BY <2>1, <2>2, <2>3 DEF TypeOK
<1>2. QED
  BY <1>1, TaskMemAlways, PTL

-----------------------------------------------------------------------------
(* Nobody loses memory on the way.                                         *)

\* The owner of a place is still one when main() and the tasks still are.
LEMMA OwnersStay ==
  ASSUME MainOwns \cap DOMAIN live' \subseteq Owned',
         TestTaskOwns \cap DOMAIN live' \subseteq Owned',
         \A t \in DOMAIN taskMem : TaskOwns(t) \cap DOMAIN live' \subseteq Owned'
  PROVE  Owned \cap DOMAIN live' \subseteq Owned'
BY DEF Owned

\* Steps of main() concern its own memory only.
LEMMA MainLetsGo ==
  ASSUME UNCHANGED taskVars, MainOwns \cap DOMAIN live' \subseteq MainOwns'
  PROVE  Owned \cap DOMAIN live' \subseteq Owned'
<1>1. /\ TestTaskOwns' = TestTaskOwns /\ DOMAIN taskMem' = DOMAIN taskMem
      /\ \A t : TaskOwns(t)' = TaskOwns(t)
  BY OthersSame
<1>2. QED
  BY <1>1 DEF Owned

\* When main() begins a task, or finds no program, it owns nothing.
LEMMA NextLetsGo ==
  ASSUME BeginJob \/ NoProgram \/ TaskReady \/ AddRange
  PROVE  Owned \cap DOMAIN live' \subseteq Owned'
<1>1. pc = "next" /\ UNCHANGED taskVars
  BY DEF BeginJob, NoProgram, TaskReady, AddRange
<1>2. MainOwns = {}
  BY <1>1 DEF MainOwns
<1>3. QED
  BY <1>1, <1>2, MainLetsGo

\* An allocation writes over no address that main() has.
LEMMA AllocateLetsGo ==
  ASSUME TaskMemInv, Allocate
  PROVE  Owned \cap DOMAIN live' \subseteq Owned'
<1>1. pc = "alloc" /\ Advance /\ UNCHANGED <<job, header, tm, taskVars>>
  BY DEF Allocate
<1>2. PICK a : addrs' = [addrs EXCEPT ![Asked] = a]
  BY DEF Allocate
<1>3. Places /\ Ungiven /\ DOMAIN addrs = Wanted
  BY DEF TaskMemInv, Places
<1>4. addrs[Asked] = 0
  <2>1. /\ step \in 1 .. Len(AllocOrder) /\ Asked = AllocOrder[step]
        /\ \A i \in 1 .. Len(AllocOrder) : i >= step => addrs[AllocOrder[i]] = 0
    BY <1>1, <1>3, RequestFacts DEF Ungiven
  <2>2. step >= step
    BY <1>3 DEF Places
  <2>3. QED
    BY <2>1, <2>2
<1>5. Range(addrs) \ {0} \subseteq Range(addrs')
  <2>1. ASSUME NEW w \in Wanted, addrs[w] # 0 PROVE addrs[w] \in Range(addrs')
    <3>1. w # Asked
      BY <1>4, <2>1
    <3>2. addrs'[w] = addrs[w] /\ w \in DOMAIN addrs'
      BY <1>2, <1>3, <3>1
    <3>3. QED
      BY <3>2 DEF Range
  <2>2. QED
    BY <1>3, <2>1 DEF Range
<1>6. pc' \in {"alloc", "segments", "create"}
  BY <1>1 DEF Advance
<1>7. MainOwns = Range(addrs) \ {0} /\ MainOwns' = Range(addrs') \ {0}
  BY <1>1, <1>6 DEF MainOwns, Range
<1>8. QED
  BY <1>1, <1>5, <1>7, MainLetsGo

\* What main() has is what is in task_mem, and the struct.
LEMMA OwnsGivenAndStruct ==
  ASSUME Places, Gifts, IsBuilding
  PROVE  MainOwns = (AddrsOf(TaskMemSet, Regions) \cup {addrs["struct"]}) \ {0}
<1>1. /\ DOMAIN TaskMemSet = Given /\ Given \subseteq Regions
      /\ \A s \in Given : TaskMemSet[s].addr = addrs[s]
      /\ MainOwns = Range(addrs) \ {0}
  BY TaskMemSetFacts
<1>2. DOMAIN addrs = Regions \cup {"struct"}
  BY DEF Places, Wanted
<1>3. Range(addrs) = {addrs[w] : w \in Regions \cup {"struct"}}
  BY <1>2 DEF Range
<1>4. AddrsOf(TaskMemSet, Regions) = {addrs[s] : s \in Given}
  BY <1>1 DEF AddrsOf
<1>5. QED
  BY <1>1, <1>3, <1>4 DEF Given

LEMMA SetupSegmentsLetsGo ==
  ASSUME TaskMemInv, SetupSegments
  PROVE  Owned \cap DOMAIN live' \subseteq Owned'
<1>1. /\ pc = "segments" /\ tm' = TaskMemSet /\ UNCHANGED <<memVars, job, header, addrs, taskVars>>
      /\ \/ pc' = "alloc" /\ step' = step
         \/ pc' = "cleanup" /\ step' = 1
  BY DEF SetupSegments
<1>2. Places /\ Gifts /\ Ungiven /\ IsBuilding
  BY <1>1 DEF TaskMemInv, IsBuilding
<1>3. CASE pc' = "alloc"
  <2>1. MainOwns' = MainOwns
    BY <1>1, <1>3 DEF MainOwns
  <2>2. QED
    BY <1>1, <2>1, MainLetsGo
<1>4. CASE pc' = "cleanup" /\ step' = 1
  <2>1. addrs["struct"] = 0
    <3>1. Building = "userload" /\ step = 7 /\ job \in 1 .. Len(Jobs)
      <4>1. Len(Jobs) \in Nat
        BY TaskMemAssumption
      <4>2. QED
        BY <1>1, <1>2, <4>1 DEF Places
    <3>2. Len(AllocOrder) = 7 /\ AllocOrder[7] = "struct"
      BY <3>1, AllocFacts
    <3>3. 7 \in 1 .. Len(AllocOrder) /\ 7 >= step
      BY <3>1, <3>2
    <3>4. QED
      BY <1>1, <1>2, <3>2, <3>3 DEF Ungiven
  <2>2. MainOwns = AddrsOf(TaskMemSet, Regions) \ {0}
    BY <1>2, <2>1, OwnsGivenAndStruct
  <2>3. MainOwns' = AddrsOf(TaskMemSet, Left(1))
    BY <1>1, <1>4 DEF MainOwns, AddrsOf, Left
  <2>4. AddrsOf(TaskMemSet, Regions) \subseteq AddrsOf(TaskMemSet, Left(1))
    BY CleanupFacts DEF AddrsOf, Wanted
  <2>5. MainOwns \subseteq MainOwns'
    BY <2>2, <2>3, <2>4
  <2>6. QED
    BY <1>1, <2>5, MainLetsGo
<1>5. QED
  BY <1>1, <1>3, <1>4

\* The new task owns all that main() had.
LEMMA CreateTaskLetsGo ==
  ASSUME TaskMemInv, CreateTask
  PROVE  Owned \cap DOMAIN live' \subseteq Owned'
<1>1. pc = "create" /\ UNCHANGED <<memVars, job, step, header, addrs, dying, cleaning, buffer>>
  BY DEF CreateTask
<1>2. Places /\ Gifts /\ IsBuilding /\ TaskRegions /\ OneOwner
  BY <1>1 DEF TaskMemInv, IsBuilding
<1> DEFINE t == addrs["struct"]
<1>3. CASE 0 \in {addrs["kstack"], addrs["stack"], addrs["struct"]}
  <2>1. pc' = "undefined" /\ UNCHANGED <<tm, taskMem>>
    BY <1>3 DEF CreateTask
  <2>2. MainOwns' = MainOwns
    BY <1>1, <2>1 DEF MainOwns
  <2>3. QED
    BY <1>1, <2>1, <2>2, MainLetsGo DEF taskVars
<1>4. CASE 0 \notin {addrs["kstack"], addrs["stack"], addrs["struct"]}
  <2>1. /\ taskMem' = [u \in DOMAIN taskMem \cup {t} |-> IF u = t THEN TaskMemSet ELSE taskMem[u]]
        /\ t # 0
    BY <1>4 DEF CreateTask
  <2>2. t \in MainOwns
    BY <1>2, <2>1, OwnsGivenAndStruct
  <2>3. MainOwns \subseteq AddrsOf(TaskMemSet, Regions) \cup {t}
    BY <1>2, <2>1, OwnsGivenAndStruct
  <2> HIDE DEF t
  <2>4. t \notin DOMAIN taskMem
    BY <1>2, <2>2, OwnersFacts DEF TaskOwns
  <2>5. /\ DOMAIN taskMem' = DOMAIN taskMem \cup {t} /\ taskMem'[t] = TaskMemSet
        /\ \A u \in DOMAIN taskMem : u # t /\ taskMem'[u] = taskMem[u]
    BY <2>1, <2>4
  <2>6. \A u : u = t => u # cleaning'.task
    BY <1>1, <1>2, <2>1, <2>4 DEF TaskRegions
  <2>7. ASSUME NEW u, u = t PROVE MainOwns \subseteq TaskOwns(u)'
    <3>1. TaskOwns(u)' = {u} \cup AddrsOf(taskMem'[u], Regions)
      BY <2>6, <2>7 DEF TaskOwns, AddrsOf
    <3>2. QED
      BY <2>3, <2>5, <2>7, <3>1
  <2>8. \A u \in DOMAIN taskMem : TaskOwns(u)' = TaskOwns(u)
    BY <1>1, <2>5 DEF TaskOwns, AddrsOf, Left
  <2>9. TestTaskOwns' = TestTaskOwns
    BY <1>1 DEF TestTaskOwns
  <2>10. MainOwns \subseteq Owned'
    BY <2>5, <2>7 DEF Owned
  <2>11. \A u \in DOMAIN taskMem : TaskOwns(u) \subseteq Owned'
    BY <2>5, <2>8 DEF Owned
  <2>12. QED
    BY <2>9, <2>10, <2>11, OwnersStay DEF Owned
<1>5. QED
  BY <1>3, <1>4

LEMMA MainCleanupLetsGo ==
  ASSUME TaskMemInv, MainCleanup
  PROVE  Owned \cap DOMAIN live' \subseteq Owned'
<1> DEFINE id == CleanupOrder[step]
<1>1. /\ pc = "cleanup" /\ UNCHANGED <<job, header, addrs, tm, taskVars>>
      /\ IF id \in DOMAIN tm THEN Mem!Free(tm[id].addr) ELSE UNCHANGED memVars
      /\ IF step = Len(CleanupOrder) THEN pc' = "next" /\ UNCHANGED step
                                     ELSE pc' = pc /\ step' = step + 1
  BY DEF MainCleanup
<1>2. OneOwner /\ Alloc!Separate /\ step \in 1 .. 7 /\ DOMAIN tm \subseteq Regions
  BY <1>1, CleanupFacts DEF TaskMemInv, Places
<1>3. MainOwns = AddrsOf(tm, Left(step))
  BY <1>1 DEF MainOwns
<1> HIDE DEF id
<1>4. CASE step = 7
  <2>1. MainOwns = {}
    BY <1>2, <1>3, <1>4, CleanupFacts DEF AddrsOf
  <2>2. QED
    BY <1>1, <2>1, MainLetsGo
<1>5. CASE step \in 1 .. 6
  <2>1. pc' = "cleanup" /\ step' = step + 1 /\ Left(step) = Left(step + 1) \cup {id}
    BY <1>1, <1>5, CleanupFacts DEF id
  <2>2. MainOwns' = AddrsOf(tm, Left(step + 1))
    BY <1>1, <2>1 DEF MainOwns, AddrsOf, Left
  <2>3. CASE id \in DOMAIN tm
    <3> DEFINE p == tm[id].addr
    <3>1. p \in DOMAIN live /\ Mem!Free(p)
      BY <1>1, <1>2, <1>3, <2>1, <2>3, OwnersFacts DEF AddrsOf
    <3>2. p \notin DOMAIN live'
      BY <1>2, <3>1, MemFree
    <3>3. MainOwns \subseteq MainOwns' \cup {p}
      BY <1>3, <2>1, <2>2 DEF AddrsOf
    <3> HIDE DEF p
    <3>4. QED
      BY <1>1, <3>2, <3>3, MainLetsGo
  <2>4. CASE id \notin DOMAIN tm
    <3>1. MainOwns \subseteq MainOwns'
      BY <1>3, <2>1, <2>2, <2>4 DEF AddrsOf
    <3>2. QED
      BY <1>1, <3>1, MainLetsGo
  <2>5. QED
    BY <2>3, <2>4
<1>6. QED
  BY <1>2, <1>4, <1>5

\* Other tasks keep what they have while one exits, is taken up or is cleaned up.
LEMMA TasksLetGo ==
  ASSUME TaskMemInv,
         \/ \E t \in DOMAIN taskMem \ dying : Exit(t)
         \/ \E t \in dying : Reap(t)
  PROVE  Owned \cap DOMAIN live' \subseteq Owned'
<1>1. UNCHANGED <<memVars, mainVars, taskMem, buffer>>
  BY DEF Exit, Reap
<1>2. MainOwns' = MainOwns /\ TestTaskOwns' = TestTaskOwns
  BY <1>1 DEF MainOwns, TestTaskOwns, AddrsOf, Left, mainVars
<1>3. cleaning' = cleaning \/ (cleaning.task = 0 /\ cleaning'.step = 1)
  BY DEF Exit, Reap
<1>4. ASSUME NEW u \in DOMAIN taskMem PROVE TaskOwns(u) \subseteq TaskOwns(u)'
  <2>1. CASE cleaning' = cleaning
    BY <1>1, <2>1 DEF TaskOwns, AddrsOf, Left
  <2>2. CASE cleaning.task = 0 /\ cleaning'.step = 1
    <3>1. TaskOwns(u) = {u} \cup AddrsOf(taskMem[u], Regions)
      BY <2>2, NoTaskAtZero DEF TaskOwns
    <3> DEFINE left == IF u = cleaning'.task THEN Left(cleaning'.step) ELSE Regions
    <3>2. Regions \subseteq left
      BY <2>2, CleanupFacts DEF Wanted
    <3>3. TaskOwns(u)' = {u} \cup AddrsOf(taskMem[u], left)
      BY <1>1 DEF TaskOwns, AddrsOf, Left
    <3> HIDE DEF left
    <3>4. AddrsOf(taskMem[u], Regions) \subseteq AddrsOf(taskMem[u], left)
      BY <3>2 DEF AddrsOf
    <3>5. QED
      BY <3>1, <3>3, <3>4
  <2>3. QED
    BY <1>3, <2>1, <2>2
<1>5. QED
  BY <1>1, <1>2, <1>4 DEF Owned

LEMMA CleanupStepLetsGo ==
  ASSUME TaskMemInv, CleanupStep
  PROVE  Owned \cap DOMAIN live' \subseteq Owned'
<1> DEFINE t == cleaning.task
           k == cleaning.step
           id == CleanupOrder[k]
<1>1. /\ t # 0
      /\ CASE id = "struct" -> Mem!Free(t)
           [] id \in DOMAIN taskMem[t] -> Mem!Free(taskMem[t][id].addr)
           [] OTHER -> UNCHANGED memVars
      /\ IF k < Len(CleanupOrder)
         THEN cleaning' = [cleaning EXCEPT !.step = @ + 1] /\ UNCHANGED <<taskMem, dying>>
         ELSE /\ cleaning' = [task |-> 0, step |-> 1]
              /\ taskMem' = Restrict(taskMem, DOMAIN taskMem \ {t})
              /\ dying' = dying \ {t}
      /\ UNCHANGED <<mainVars, buffer>>
  BY DEF CleanupStep
<1>2. /\ t \in DOMAIN taskMem /\ k \in 1 .. 7 /\ cleaning = [task |-> t, step |-> k]
      /\ DOMAIN taskMem[t] \subseteq Regions /\ Alloc!Separate /\ OneOwner
  BY <1>1, CleanupFacts DEF TaskMemInv, TaskRegions
<1>3. TaskOwns(t) = {t} \cup AddrsOf(taskMem[t], Left(k))
  BY DEF TaskOwns
<1>4. MainOwns' = MainOwns /\ TestTaskOwns' = TestTaskOwns
  BY <1>1 DEF MainOwns, TestTaskOwns, AddrsOf, Left, mainVars
<1> HIDE DEF t, k, id
<1>5. CASE k \in 1 .. 6
  <2>1. /\ id \in Regions /\ id # "struct" /\ k < Len(CleanupOrder)
        /\ Left(k) = Left(k + 1) \cup {id}
    BY <1>5, CleanupFacts DEF id
  <2>2. cleaning' = [task |-> t, step |-> k + 1] /\ taskMem' = taskMem
    BY <1>1, <1>2, <1>5, <2>1
  <2>3. \A u \in DOMAIN taskMem \ {t} : TaskOwns(u)' = TaskOwns(u)
    BY <1>2, <2>2 DEF TaskOwns, AddrsOf, Left
  <2>4. \A u : u = t => TaskOwns(u)' = {u} \cup AddrsOf(taskMem[u], Left(k + 1))
    BY <2>2 DEF TaskOwns, AddrsOf, Left
  <2>5. AddrsOf(taskMem[t], Left(k)) \cap DOMAIN live' \subseteq AddrsOf(taskMem[t], Left(k + 1))
    <3>1. CASE id \in DOMAIN taskMem[t]
      <4> DEFINE p == taskMem[t][id].addr
      <4>1. p \in DOMAIN live /\ Mem!Free(p)
        BY <1>1, <1>2, <1>3, <2>1, <3>1, OwnersFacts DEF AddrsOf
      <4>2. p \notin DOMAIN live'
        BY <1>2, <4>1, MemFree
      <4>3. QED
        BY <2>1, <4>2 DEF AddrsOf
    <3>2. CASE id \notin DOMAIN taskMem[t]
      BY <2>1, <3>2 DEF AddrsOf
    <3>3. QED
      BY <3>1, <3>2
  <2>6. ASSUME NEW u \in DOMAIN taskMem
        PROVE  TaskOwns(u) \cap DOMAIN live' \subseteq TaskOwns(u)'
    <3>1. CASE u = t
      BY <1>3, <2>4, <2>5, <3>1
    <3>2. CASE u # t
      BY <2>3, <3>2
    <3>3. QED
      BY <3>1, <3>2
  <2>7. QED
    BY <1>4, <2>2, <2>6 DEF Owned
<1>6. CASE k = 7
  <2>1. id = "struct" /\ ~(k < Len(CleanupOrder)) /\ id \notin DOMAIN taskMem[t]
    BY <1>2, <1>6, CleanupFacts DEF id
  <2>2. Mem!Free(t)
    BY <1>1, <2>1
  <2>3. cleaning' = [task |-> 0, step |-> 1] /\ taskMem' = Restrict(taskMem, DOMAIN taskMem \ {t})
    BY <1>1, <2>1
  <2>4. DOMAIN taskMem' = DOMAIN taskMem \ {t} /\ \A u \in DOMAIN taskMem' : taskMem'[u] = taskMem[u]
    BY <2>3 DEF Restrict
  <2>5. t \in DOMAIN live
    BY <1>2, <1>3, OwnersFacts
  <2>6. t \notin DOMAIN live'
    BY <1>2, <2>2, <2>5, MemFree
  <2>7. TaskOwns(t) = {t}
    BY <1>2, <1>3, <1>6, CleanupFacts DEF AddrsOf
  <2>8. ASSUME NEW u \in DOMAIN taskMem' PROVE TaskOwns(u)' = TaskOwns(u)
    <3>1. u # 0 /\ u # cleaning.task /\ u # cleaning'.task /\ taskMem'[u] = taskMem[u]
      BY <1>2, <2>3, <2>4, NoTaskAtZero
    <3>2. QED
      BY <3>1 DEF TaskOwns, AddrsOf
  <2>9. \A u \in DOMAIN taskMem : TaskOwns(u) \cap DOMAIN live' \subseteq Owned'
    BY <2>4, <2>6, <2>7, <2>8 DEF Owned
  <2>10. QED
    BY <1>4, <2>9, OwnersStay DEF Owned
<1>7. QED
  BY <1>2, <1>5, <1>6

LEMMA TestTaskLetsGo ==
  ASSUME TaskMemInv, TestTaskFree \/ TestTaskAlloc
  PROVE  Owned \cap DOMAIN live' \subseteq Owned'
<1>1. UNCHANGED <<mainVars, taskMem, dying, cleaning>>
  BY DEF TestTaskFree, TestTaskAlloc
<1>2. MainOwns' = MainOwns /\ \A u : TaskOwns(u)' = TaskOwns(u)
  BY <1>1 DEF MainOwns, TaskOwns, AddrsOf, Left, mainVars
<1>3. TestTaskOwns \cap DOMAIN live' = {}
  <2>1. CASE TestTaskFree
    <3>1. buffer \in DOMAIN live /\ Mem!Free(buffer)
      BY <2>1, OwnersFacts DEF TestTaskFree, TestTaskOwns, TaskMemInv
    <3>2. buffer \notin DOMAIN live'
      BY <3>1, MemFree DEF TaskMemInv
    <3>3. QED
      BY <3>2 DEF TestTaskOwns
  <2>2. CASE TestTaskAlloc
    BY <2>2 DEF TestTaskAlloc, TestTaskOwns
  <2>3. QED
    BY <2>1, <2>2
<1>4. QED
  BY <1>1, <1>2, <1>3 DEF Owned

\* Memory that is still allocated still has an owner, whatever the step: only a load
\* that runs out of memory drops what it was given.
THEOREM OwnersLetGoByFreeing == Spec => OwnersLetGo
<1>1. ASSUME TaskMemInv, [Next]_vars
      PROVE  [\/ pc = "alloc" /\ pc' = "cleanup"
              \/ Owned \cap DOMAIN live' \subseteq Owned']_vars
  <2>1. CASE AllocateFails
    <3>1. /\ pc = "alloc" /\ UNCHANGED <<addrs, taskVars>>
          /\ pc' \in {"alloc", "segments", "create", "cleanup"}
      BY <2>1 DEF AllocateFails, Advance
    <3>2. CASE pc' = "cleanup"
      BY <3>1, <3>2
    <3>3. CASE pc' # "cleanup"
      <4>1. MainOwns' = MainOwns
        BY <3>1, <3>3 DEF MainOwns
      <4>2. QED
        BY <3>1, <4>1, MainLetsGo
    <3>4. QED
      BY <3>2, <3>3
  <2>2. CASE BeginJob \/ NoProgram \/ TaskReady \/ AddRange
    BY <2>2, NextLetsGo
  <2>3. CASE Allocate
    BY <1>1, <2>3, AllocateLetsGo
  <2>4. CASE SetupSegments
    BY <1>1, <2>4, SetupSegmentsLetsGo
  <2>5. CASE CreateTask
    BY <1>1, <2>5, CreateTaskLetsGo
  <2>6. CASE MainCleanup
    BY <1>1, <2>6, MainCleanupLetsGo
  <2>7. CASE \/ \E t \in DOMAIN taskMem \ dying : Exit(t)
             \/ \E t \in dying : Reap(t)
    BY <1>1, <2>7, TasksLetGo
  <2>8. CASE CleanupStep
    BY <1>1, <2>8, CleanupStepLetsGo
  <2>9. CASE TestTaskFree \/ TestTaskAlloc
    BY <1>1, <2>9, TestTaskLetsGo
  <2>10. QED
    BY <1>1, <2>1, <2>2, <2>3, <2>4, <2>5, <2>6, <2>7, <2>8, <2>9 DEF Next
<1>2. QED
  BY <1>1, TaskMemAlways, PTL DEF Spec, OwnersLetGo
=============================================================================
