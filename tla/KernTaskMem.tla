----------------------------- MODULE KernTaskMem -----------------------------
(***************************************************************************)
(* The memory behind user tasks: platform_user_task_mem_allocate, the      *)
(* kern_task_mem functions, the two callers that build tasks at boot       *)
(* (test_userland.c, test_userload.c) and the clean-up of dead tasks by    *)
(* the idle task, on top of KernPhysmem.                                   *)
(*                                                                         *)
(* main() builds the tasks one after the other before any of them runs.    *)
(* Then tasks exit, the idle task frees what they had, region by region    *)
(* with no lock held, and the kernel's test task frees and allocates a     *)
(* buffer in between.  A task is known by the address of its struct, as in *)
(* the code.                                                               *)
(***************************************************************************)
EXTENDS Integers, FiniteSets, SequencesExt, Functions

CONSTANTS
  BootRanges, MaxRegions, HeaderSize, MinAlloc,  \* see KernPhysmem
  MpuMin,          \* ARM_M4_MPU_MIN_REGION_SIZE
  MaxShift,        \* bound: the largest region is 2 ^ MaxShift
  Headers,         \* segment sizes of the programs that may be in flash
  Jobs,            \* what main() builds, in order: "userland" or "userload"
  KStackRequest,   \* PLATFORM_DEFAULT_KERN_STACK_SIZE, _ALIGNMENT
  UserStackSize,   \* of the task of test_userland.c
  StructRequest,   \* sizeof(struct kern_task), 4
  BufferRequest    \* what the test task allocates

\* The regions with memory of their own; text and rodata stay in flash.
Segments == {"got", "bss", "data", "heap", "stack"}
Regions == Segments \cup {"kstack"}

VARIABLES
  added, freelist, live,  \* KernPhysmem
  job,       \* how many of Jobs main() has begun
  pc,        \* where main() is
  step,      \* its place in an allocation or clean-up order
  header,    \* the program header it has parsed
  addrs,     \* what it has been given so far; 0 is nothing
  tm,        \* its struct task_mem: the dynamic regions as [addr, size]
  taskMem,   \* task_mem of each task
  dying,     \* tasks that have exited and are not freed yet
  cleaning,  \* the task in kern_task_cleanup, 0 for none, and how far it is
  buffer     \* alloc of kern_test_task_fn, 0 is NULL

memVars == <<added, freelist, live>>
mainVars == <<job, pc, step, header, addrs, tm>>
taskVars == <<taskMem, dying, cleaning, buffer>>
vars == <<memVars, mainVars, taskVars>>

PowersOfTwo == {p \in 1 .. 2 ^ MaxShift : \E k \in 0 .. MaxShift : p = 2 ^ k}

ASSUME TaskMemAssumption ==
  /\ Jobs \in Seq({"userland", "userload"})
  /\ Headers \subseteq [Segments -> Nat]
  /\ \A h \in Headers, s \in Segments : \E p \in PowersOfTwo : p >= h[s]
  /\ {MpuMin, UserStackSize} \subseteq PowersOfTwo /\ UserStackSize >= MpuMin

\* platform_user_task_mpu_region_size
RegionSize(len) ==
  IF len < MpuMin THEN MpuMin
  ELSE CHOOSE p \in PowersOfTwo : p >= len /\ \A q \in PowersOfTwo : q >= len => p <= q

\* Faulty variant: only the address is made fit for the MPU.
RegionRequestUnsized(len) == [size |-> len, align |-> RegionSize(len)]

\* Faulty variant: only the size is made fit for the MPU.
RegionRequestUnaligned(len) == [size |-> RegionSize(len), align |-> KStackRequest.align]

RegionRequest(len) == [size |-> RegionSize(len), align |-> RegionSize(len)]

Building == Jobs[job]

\* The order of allocation: setup_test_userland_task; platform_user_task_mem_allocate
\* and the struct in test_userload.
AllocOrder ==
  IF Building = "userland" THEN <<"kstack", "stack", "struct">>
  ELSE <<"kstack", "got", "bss", "data", "heap", "stack", "struct">>

Asked == AllocOrder[step]

Request ==
  CASE Asked = "kstack" -> KStackRequest
    [] Asked = "struct" -> StructRequest
    [] Asked = "stack" /\ Building = "userland" -> [size |-> UserStackSize, align |-> UserStackSize]
    [] OTHER -> RegionRequest(header[Asked])

\* Faulty variant: the struct that holds the addresses is freed first.
CleanupOrderStructFirst == <<"struct", "kstack", "stack", "heap", "bss", "data", "got">>

\* The order of task_mem_id_t, in which kern_task_mem_cleanup frees; then, when a
\* task is cleaned up, its struct.
CleanupOrder == <<"kstack", "stack", "heap", "bss", "data", "got", "struct">>

Requests == {KStackRequest, StructRequest, BufferRequest, [size |-> UserStackSize, align |-> UserStackSize]}
              \cup {RegionRequest(h[s]) : h \in Headers, s \in Segments}

Mem == INSTANCE KernPhysmem

ASSUME MemAssumption == Mem!PhysmemAssumption

NoAddrs == [w \in Regions \cup {"struct"} |-> 0]

TypeOK ==
  /\ Mem!TypeOK
  /\ job \in 0 .. Len(Jobs) /\ step \in 1 .. 8
  /\ pc \in {"next", "alloc", "segments", "create", "cleanup", "running", "undefined"}
  /\ header \in Headers
  /\ addrs \in [Regions \cup {"struct"} -> Nat]
  /\ DOMAIN tm \subseteq Regions
  /\ dying \subseteq DOMAIN taskMem
  /\ \A t \in DOMAIN taskMem : DOMAIN taskMem[t] \subseteq Regions
  /\ cleaning.task \in dying \cup {0} /\ cleaning.step \in 1 .. Len(CleanupOrder)
  /\ buffer \in Nat

Init ==
  /\ Mem!Init
  /\ job = 0 /\ pc = "next" /\ step = 1 /\ header \in Headers
  /\ addrs = NoAddrs /\ tm = << >>
  /\ taskMem = << >> /\ dying = {} /\ cleaning = [task |-> 0, step |-> 1] /\ buffer = 0

-----------------------------------------------------------------------------
(* main(), before kern_task_ready *)

AddRange == pc = "next" /\ Mem!AddRange /\ UNCHANGED <<mainVars, taskVars>>

BeginJob ==
  /\ pc = "next" /\ added = Len(BootRanges) /\ job < Len(Jobs)
  /\ job' = job + 1
  /\ pc' = "alloc" /\ step' = 1
  /\ addrs' = NoAddrs /\ tm' = << >>
  /\ UNCHANGED <<memVars, header, taskVars>>

\* No program in flash, or one without a valid header.
NoProgram ==
  /\ pc = "next" /\ added = Len(BootRanges) /\ job < Len(Jobs) /\ Jobs[job + 1] = "userload"
  /\ job' = job + 1
  /\ UNCHANGED <<memVars, pc, step, header, addrs, tm, taskVars>>

\* After the memory of a program come its segments, after the struct the task.
Advance ==
  /\ step' = step + 1
  /\ pc' = CASE Asked = "struct" -> "create"
             [] Asked = "stack" /\ Building = "userload" -> "segments"
             [] OTHER -> "alloc"

Allocate ==
  /\ pc = "alloc"
  /\ \E i \in DOMAIN freelist :
       /\ Mem!AllocFrom(i, Request)
       /\ addrs' = [addrs EXCEPT ![Asked] = Mem!PayloadStart(freelist[i], Request)]
  /\ Advance
  /\ UNCHANGED <<job, header, tm, taskVars>>

\* Only platform_user_task_mem_allocate looks at what it is given.
Checked == Building = "userload" /\ Asked # "struct"

AllocateFails ==
  /\ pc = "alloc" /\ Mem!NoFit(Request)
  /\ IF Checked THEN pc' = "cleanup" /\ step' = 1 ELSE Advance
  /\ UNCHANGED <<memVars, job, header, addrs, tm, taskVars>>

Given == {s \in Regions : addrs[s] # 0}

RegionOf(s) ==
  [addr |-> addrs[s],
   size |-> CASE s = "kstack" -> KStackRequest.size
              [] Building = "userland" -> UserStackSize
              [] OTHER -> RegionSize(header[s])]

\* Faulty variant: one region is not marked as dynamic.
TaskMemSetStaticData == [s \in Given \ {"data"} |-> RegionOf(s)]

\* The calls of kern_task_mem_set whose region is dynamic.
TaskMemSet == [s \in Given |-> RegionOf(s)]

\* A program whose GOT points outside of its segments is refused.
SetupSegments ==
  /\ pc = "segments"
  /\ tm' = TaskMemSet
  /\ \/ pc' = "alloc" /\ step' = step
     \/ pc' = "cleanup" /\ step' = 1
  /\ UNCHANGED <<memVars, job, header, addrs, taskVars>>

\* kern_task_user_init takes the memory over and uses the struct and both stacks;
\* with an address of 0 among them it writes through a null pointer.
CreateTask ==
  LET needed == {addrs["kstack"], addrs["stack"], addrs["struct"]} IN
  /\ pc = "create"
  /\ IF 0 \in needed
     THEN pc' = "undefined" /\ UNCHANGED <<taskMem, tm>>
     ELSE /\ taskMem' = [t \in DOMAIN taskMem \cup {addrs["struct"]} |->
                           IF t = addrs["struct"] THEN TaskMemSet ELSE taskMem[t]]
          /\ tm' = << >>
          /\ pc' = "next"
  /\ UNCHANGED <<memVars, job, step, header, addrs, dying, cleaning, buffer>>

\* kern_task_mem_cleanup in test_userload.
MainCleanup ==
  LET id == CleanupOrder[step] IN
  /\ pc = "cleanup"
  /\ IF id \in DOMAIN tm THEN Mem!Free(tm[id].addr) ELSE UNCHANGED memVars
  /\ IF step = Len(CleanupOrder) THEN pc' = "next" /\ UNCHANGED step
                                 ELSE pc' = pc /\ step' = step + 1
  /\ UNCHANGED <<job, header, addrs, tm, taskVars>>

TaskReady ==
  /\ pc = "next" /\ added = Len(BootRanges) /\ job = Len(Jobs)
  /\ pc' = "running"
  /\ UNCHANGED <<memVars, job, step, header, addrs, tm, taskVars>>

-----------------------------------------------------------------------------
(* Once tasks run *)

Exit(t) ==
  /\ pc = "running"
  /\ dying' = dying \cup {t}
  /\ UNCHANGED <<memVars, mainVars, taskMem, cleaning, buffer>>

Reap(t) ==
  /\ pc = "running" /\ cleaning.task = 0
  /\ cleaning' = [task |-> t, step |-> 1]
  /\ UNCHANGED <<memVars, mainVars, taskMem, dying, buffer>>

\* kern_task_cleanup, one kern_physmem_free at a time.
CleanupStep ==
  LET t == cleaning.task
      id == CleanupOrder[cleaning.step]
  IN  /\ t # 0
      /\ CASE id = "struct" -> Mem!Free(t)
           [] id \in DOMAIN taskMem[t] -> Mem!Free(taskMem[t][id].addr)
           [] OTHER -> UNCHANGED memVars
      /\ IF cleaning.step < Len(CleanupOrder)
         THEN cleaning' = [cleaning EXCEPT !.step = @ + 1] /\ UNCHANGED <<taskMem, dying>>
         ELSE /\ cleaning' = [task |-> 0, step |-> 1]
              /\ taskMem' = Restrict(taskMem, DOMAIN taskMem \ {t})
              /\ dying' = dying \ {t}
      /\ UNCHANGED <<mainVars, buffer>>

TestTaskFree ==
  /\ pc = "running" /\ buffer # 0
  /\ Mem!Free(buffer) /\ buffer' = 0
  /\ UNCHANGED <<mainVars, taskMem, dying, cleaning>>

TestTaskAlloc ==
  /\ pc = "running" /\ buffer = 0
  /\ \E i \in DOMAIN freelist :
       /\ Mem!AllocFrom(i, BufferRequest)
       /\ buffer' = Mem!PayloadStart(freelist[i], BufferRequest)
  /\ UNCHANGED <<mainVars, taskMem, dying, cleaning>>

Next ==
  \/ AddRange \/ BeginJob \/ NoProgram \/ Allocate \/ AllocateFails \/ SetupSegments \/ CreateTask
  \/ MainCleanup \/ TaskReady
  \/ \E t \in DOMAIN taskMem \ dying : Exit(t)
  \/ \E t \in dying : Reap(t)
  \/ CleanupStep \/ TestTaskFree \/ TestTaskAlloc

Spec == Init /\ [][Next]_vars

-----------------------------------------------------------------------------
Left(from) == {CleanupOrder[i] : i \in from .. Len(CleanupOrder)}

AddrsOf(mem, left) == {mem[s].addr : s \in DOMAIN mem \cap left}

MainOwns ==
  CASE pc \in {"alloc", "segments", "create", "undefined"} -> Range(addrs) \ {0}
    [] pc = "cleanup" -> AddrsOf(tm, Left(step))
    [] OTHER -> {}

TaskOwns(t) ==
  {t} \cup AddrsOf(taskMem[t], IF t = cleaning.task THEN Left(cleaning.step) ELSE Regions)

TestTaskOwns == {buffer} \ {0}

Owned == MainOwns \cup TestTaskOwns \cup UNION {TaskOwns(t) : t \in DOMAIN taskMem}

\* Memory has one owner: main() while it builds a task, then the task, even while
\* it is cleaned up region by region; nobody owns what has been freed, so nothing is
\* freed twice and a struct is not read after its memory went back.
OneOwner ==
  /\ Owned \subseteq DOMAIN live
  /\ MainOwns \cap TestTaskOwns = {}
  /\ \A t \in DOMAIN taskMem :
       /\ TaskOwns(t) \cap (MainOwns \cup TestTaskOwns) = {}
       /\ \A u \in DOMAIN taskMem \ {t} : TaskOwns(t) \cap TaskOwns(u) = {}

\* An owner parts with memory only by handing it on or freeing it: when a task is
\* created, when a program is refused, and when a task is cleaned up in steps.  A load
\* that runs out of memory is the exception (NoLeak).
OwnersLetGo ==
  [][\/ pc = "alloc" /\ pc' = "cleanup"
     \/ Owned \cap DOMAIN live' \subseteq Owned']_vars

\* All memory that is allocated is somebody's, whichever allocation fails:
\* platform_user_task_mem_allocate "will free memory and return false".
NoLeak == DOMAIN live \subseteq Owned

\* platform_mpu_table_set accepts a power of two that is aligned to itself.
Programmable(r) == r.size >= MpuMin /\ r.size \in PowersOfTwo /\ r.addr % r.size = 0

\* The regions kern_task_mem_setup_mpu puts in the table, besides text.
MpuIds == {"stack", "heap", "got", "bss"}

MpuTable(t) == {s \in MpuIds \cap DOMAIN taskMem[t] : Programmable(taskMem[t][s])}

Running == DOMAIN taskMem \ dying

\* What the MPU lets a running task reach in RAM is memory that was allocated for
\* it: no header of the allocator, no other task, no free block.
TasksIsolated ==
  \A t \in Running : \A s \in MpuTable(t) :
    LET r == taskMem[t][s]
    IN  r.addr \in DOMAIN live /\ r.size <= live[r.addr].req.size

\* kern_task_mem_setup_mpu ignores a region that the MPU cannot take; none of a
\* task that was loaded is lost that way.
RegionsProgrammed ==
  \A t \in Running :
    MpuIds \cap DOMAIN taskMem[t] \subseteq MpuTable(t)

\* "DATA - noexec, rw": a loaded task can reach its data segment.
DataReachable ==
  \A t \in Running : "data" \in DOMAIN taskMem[t] => "data" \in MpuTable(t)
=============================================================================
