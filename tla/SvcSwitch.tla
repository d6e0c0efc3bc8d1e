------------------------------ MODULE SvcSwitch ------------------------------
(***************************************************************************)
(* The system call path and the context switch of the Cortex-M4 port       *)
(* (arm_m4_svc.S, arm_m4_switch.S, arm_m4_platform.c, arm_m4_mpu.c), with  *)
(* the MPU programming of kern_task_select: one CPU, the two stacks of     *)
(* each user task, the three fields of struct kern_task the assembly uses. *)
(*                                                                         *)
(* A user task enters the kernel through SVC, whose handler sends it on in *)
(* thread mode, privileged, to arm_m4_syscall_handler; that moves to the   *)
(* kernel stack, calls C, moves back, gives up its privilege and jumps     *)
(* back.  PendSV may switch to any thread between any two instructions.    *)
(* Exceptions have equal priority, so each handler is one step.            *)
(*                                                                         *)
(* One register stands for each group the code treats alike: r0 carries    *)
(* argument and result, r1 and ip are scratch, r4 is preserved by calls.   *)
(* A stack slot holds a whole frame.  What is below a stack pointer is     *)
(* dead, since any exception may write over it: it is NoFrame.             *)
(***************************************************************************)
EXTENDS Integers

CONSTANTS
  UserTasks, KernTasks,
  Boot,        \* main(), before the first switch
  Sites,       \* where the programs make system calls
  NoSite, Junk,
  Slots,       \* entries of mpu_phys_table
  LastField,   \* bound: the largest size field tried, 30 in the code
  Asked        \* what kern_task_mem_setup_mpu asks for: task -> slot -> region

ASSUME SwitchAssumption ==
  /\ Boot \notin UserTasks \cup KernTasks
  /\ UserTasks \cap KernTasks = {}
  /\ Sites # {} /\ NoSite \notin Sites
  /\ Slots \in Nat \ {0}
  /\ LastField \in 4 .. 30

VARIABLES
  current,     \* current_task
  cpu,         \* the registers
  mem,         \* the stacks: thread -> stack -> slot -> frame
  stackTop,    \* task->stack_top
  returnPc,    \* task->syscall_return_address
  mpu          \* the MPU's enable bit and its regions

vars == <<current, cpu, mem, stackTop, returnPc, mpu>>

Threads == UserTasks \cup KernTasks
Depth == 4                              \* bound: the deepest a stack gets

UserPc(at, s) == [at |-> at, site |-> s]
KernPc(at) == [at |-> at, site |-> NoSite]
Sp(stack, used) == [stack |-> stack, used |-> used]

-----------------------------------------------------------------------------
(* Frames.                                                                 *)

\* What the hardware pushes when it takes an exception.
ExcFrame(r) == [kind |-> "exc", pc |-> r.pc, r0 |-> r.r0, r1 |-> r.r1,
                ip |-> r.ip, lr |-> r.lr]

\* What arm_m4_task_switch adds: CONTROL and the preserved registers.
SwitchFrame(r) == [kind |-> "switch", priv |-> r.priv, r4 |-> r.r4]

\* What arm_m4_syscall_handler leaves at the top of the kernel stack.
LinkFrame(r) == [kind |-> "link", sp |-> r.psp, lr |-> r.lr]

\* The prologue of a C function.
CallFrame(r) == [kind |-> "call", r4 |-> r.r4]

NoFrame == [kind |-> "none"]

\* The registers of a thread whose switch frame is on top of the stack at sp.
Unstacked(stack, sp) ==
  LET sw == stack[sp.stack][sp.used]
      ex == stack[sp.stack][sp.used - 1]
  IN [pc |-> ex.pc, r0 |-> ex.r0, r1 |-> ex.r1, ip |-> ex.ip, lr |-> ex.lr,
      r4 |-> sw.r4, priv |-> sw.priv, psp |-> Sp(sp.stack, sp.used - 2)]

(* Faulty variant: CONTROL is not restored. *)
RestoredNoControl(stack, sp) == [Unstacked(stack, sp) EXCEPT !.priv = cpu.priv]

\* What the second half of arm_m4_task_switch and the exception return load.
Restored(stack, sp) == Unstacked(stack, sp)

-----------------------------------------------------------------------------
(* The MPU.                                                                *)

Blank == [base |-> 0, size |-> 0, enable |-> FALSE, rights |-> {}]

Rights(prot) ==
  {"read"} \cup (IF prot = "EXEC_RO" THEN {"exec"} ELSE {})
           \cup (IF prot = "NOEXEC_RW" THEN {"write"} ELSE {})

MinRegion == 32

\* The exponents platform_mpu_table_set tries: region size 2^(i+1).
SizeFields(size) == {i \in 4 .. LastField : 2 ^ (i + 1) = size}

\* platform_mpu_table_set on a blank entry: refused, it stays blank.
EntrySet(region) ==
  IF \/ region.size < MinRegion
     \/ SizeFields(region.size) = {}
     \/ region.base % region.size # 0
  THEN Blank
  ELSE [base |-> region.base, size |-> CHOOSE i \in SizeFields(region.size) : TRUE,
        enable |-> TRUE, rights |-> Rights(region.prot)]

\* Whatever is asked for can be granted or is empty: what kern_task_mem_setup_mpu
\* asks for comes from allocations made for the MPU.
ASSUME AskedAssumption ==
  \A t \in UserTasks :
    /\ DOMAIN Asked[t] \subseteq 0 .. Slots - 1
    /\ \A i \in DOMAIN Asked[t] :
         LET region == Asked[t][i]
         IN /\ region.base \in Nat
            /\ region.prot \in {"EXEC_RO", "NOEXEC_RW", "NOEXEC_RO"}
            /\ \/ region.size = 0
               \/ /\ region.size \in Nat /\ region.size >= MinRegion
                  /\ SizeFields(region.size) # {}
                  /\ region.base % region.size = 0

\* kern_task_mem_setup_mpu: the table of a task; slots not asked for are blank.
Table(t) ==
  [i \in 0 .. Slots - 1 |->
     IF i \in DOMAIN Asked[t] THEN EntrySet(Asked[t][i]) ELSE Blank]

(* Faulty variant: blank entries are not written. *)
ProgrammedUsed(regions, table) ==
  [i \in 0 .. Slots - 1 |-> IF table[i].enable THEN table[i] ELSE regions[i]]

\* platform_mpu_table_program.
Programmed(regions, table) == [i \in 0 .. Slots - 1 |-> table[i]]

\* What the hardware lets unprivileged code do, in units of 32 bytes.
RegionCells(e) == {e.base \div MinRegion + k : k \in 0 .. 2 ^ (e.size + 1) \div MinRegion - 1}
Reach ==
  UNION {RegionCells(mpu.regions[i]) \X mpu.regions[i].rights :
           i \in {j \in 0 .. Slots - 1 : mpu.regions[j].enable}}

-----------------------------------------------------------------------------
(* Threads' own instructions.                                              *)

Step(at, r) ==
  /\ current \in UserTasks /\ cpu.pc.at = at
  /\ cpu' = r
  /\ UNCHANGED <<current, stackTop, mpu>>

\* A user program goes to its next call; syscall_test is entered with the
\* return address in lr.
UserRun ==
  /\ current \in UserTasks /\ cpu.pc.at \in {"entry", "after"}
  /\ \E s \in Sites :
       cpu' = [cpu EXCEPT !.pc = UserPc("svc", s), !.r0 = [arg |-> s],
                          !.r4 = current, !.lr = s, !.r1 = Junk, !.ip = Junk]
  /\ UNCHANGED <<current, mem, stackTop, returnPc, mpu>>

KernRun ==
  /\ current \in KernTasks
  /\ cpu' = [cpu EXCEPT !.r0 = Junk, !.r4 = current]
  /\ UNCHANGED <<current, mem, stackTop, returnPc, mpu>>

(* Faulty variant: the return address is kept in one place for all tasks. *)
ReturnSlotShared(t) == CHOOSE u \in UserTasks : TRUE

\* Where the return address of a task's system call is kept.
ReturnSlot(t) == t

\* SVC: the exception frame goes to the caller's stack, the handler swaps its
\* PC for arm_m4_syscall_handler's and makes thread mode privileged, and the
\* exception return takes the frame off again.
SvcHandler ==
  LET frame == ExcFrame([cpu EXCEPT !.pc = UserPc("after", cpu.pc.site)])
  IN /\ Step("svc", [cpu EXCEPT !.pc = KernPc("top"), !.priv = TRUE])
     /\ returnPc' = [returnPc EXCEPT ![ReturnSlot(current)] = frame.pc]
     /\ UNCHANGED mem

\* arm_m4_syscall_handler, up to the C function.
HandlerTop ==
  /\ Step("top", [cpu EXCEPT !.pc = KernPc("link"), !.ip = Sp("kern", 1)])
  /\ UNCHANGED <<mem, returnPc>>

HandlerLink ==
  /\ Step("link", [cpu EXCEPT !.pc = KernPc("psp")])
  /\ mem' = [mem EXCEPT ![current][cpu.ip.stack][cpu.ip.used] = LinkFrame(cpu)]
  /\ UNCHANGED returnPc

HandlerPsp ==
  /\ Step("psp", [cpu EXCEPT !.pc = KernPc("call"), !.psp = cpu.ip])
  /\ UNCHANGED <<mem, returnPc>>

\* blx, and the prologue of arm_m4_c_syscall_handler, which keeps its argument
\* in a register it has saved.
HandlerCall ==
  /\ Step("call", [cpu EXCEPT !.pc = KernPc("c"), !.lr = Junk, !.r1 = Junk,
                     !.ip = Junk, !.r4 = cpu.r0, !.r0 = Junk,
                     !.psp.used = @ + 1])
  /\ mem' = [mem EXCEPT ![current][cpu.psp.stack][cpu.psp.used + 1] =
                           CallFrame(cpu)]
  /\ UNCHANGED returnPc

\* The C function returns its result.
HandlerServe ==
  /\ Step("c", [cpu EXCEPT !.pc = KernPc("lr"),
                   !.r0 = [result |-> cpu.r4.arg],
                   !.r4 = mem[current][cpu.psp.stack][cpu.psp.used].r4,
                   !.psp.used = @ - 1])
  /\ mem' = [mem EXCEPT ![current][cpu.psp.stack][cpu.psp.used] = NoFrame]
  /\ UNCHANGED returnPc

\* ... and back.
HandlerLr ==
  /\ Step("lr", [cpu EXCEPT !.pc = KernPc("sp"),
                   !.lr = mem[current][cpu.psp.stack][cpu.psp.used].lr])
  /\ UNCHANGED <<mem, returnPc>>

(* Faulty variant: the stack pointer is moved past the saved registers instead
   of back to the user stack. *)
UserSpForgotten == Sp("kern", 0)

UserSp == mem[current][cpu.psp.stack][cpu.psp.used].sp

HandlerSp ==
  /\ Step("sp", [cpu EXCEPT !.pc = KernPc("retaddr"), !.psp = UserSp])
  /\ mem' = [mem EXCEPT ![current][cpu.psp.stack][cpu.psp.used] = NoFrame]
  /\ UNCHANGED returnPc

HandlerRetaddr ==
  /\ Step("retaddr", [cpu EXCEPT !.pc = KernPc("drop"),
                        !.r1 = returnPc[ReturnSlot(current)]])
  /\ UNCHANGED <<mem, returnPc>>

HandlerDrop ==
  /\ Step("drop", [cpu EXCEPT !.pc = KernPc("back"), !.priv = FALSE])
  /\ UNCHANGED <<mem, returnPc>>

HandlerBack ==
  /\ Step("back", [cpu EXCEPT !.pc = cpu.r1, !.ip = cpu.r1, !.r1 = Junk])
  /\ UNCHANGED <<mem, returnPc>>

Handler ==
  \/ HandlerTop \/ HandlerLink \/ HandlerPsp \/ HandlerCall \/ HandlerServe
  \/ HandlerLr \/ HandlerSp \/ HandlerRetaddr \/ HandlerDrop \/ HandlerBack

-----------------------------------------------------------------------------
(* PendSV.  A handler that returns to the thread it interrupted changes    *)
(* nothing but dead slots, so it is no action.                             *)

\* The first half of arm_m4_task_switch: both frames on the interrupted
\* thread's stack.
Saved ==
  IF current = Boot THEN mem
  ELSE [mem EXCEPT ![current][cpu.psp.stack] =
          [@ EXCEPT ![cpu.psp.used + 1] = ExcFrame(cpu),
                    ![cpu.psp.used + 2] = SwitchFrame(cpu)]]

SavedTop ==
  IF current = Boot THEN stackTop
  ELSE [stackTop EXCEPT ![current] = Sp(cpu.psp.stack, cpu.psp.used + 2)]

Popped(stacks, t, sp) ==
  [stacks EXCEPT ![t][sp.stack] =
     [@ EXCEPT ![sp.used] = NoFrame, ![sp.used - 1] = NoFrame]]

\* The MPU is disabled before kern_task_select, which programs and enables it
\* again if the task it has selected is a user task.
Switch(next) ==
  /\ stackTop' = SavedTop
  /\ current' = next
  /\ cpu' = Restored(Saved[next], SavedTop[next])
  /\ mem' = Popped(Saved, next, SavedTop[next])
  /\ mpu' = IF next \in UserTasks
            THEN [on |-> TRUE, regions |-> Programmed(mpu.regions, Table(next))]
            ELSE [mpu EXCEPT !.on = FALSE]
  /\ UNCHANGED returnPc

-----------------------------------------------------------------------------

\* platform_task_stack_setup: the two frames a thread's first switch takes off
\* its stack.  r0 gets the entry point, not the parameter; the registers that
\* are skipped are what was on the stack.
FirstFrames(t, stack) ==
  LET r == [pc |-> IF t \in UserTasks THEN UserPc("entry", CHOOSE s \in Sites : TRUE)
                   ELSE KernPc("task"),
            r0 |-> Junk, r1 |-> Junk, ip |-> Junk, lr |-> Junk, r4 |-> Junk,
            priv |-> t \in KernTasks, psp |-> Sp(stack, 0)]
  IN [i \in 1 .. Depth |-> IF i = 1 THEN ExcFrame(r)
                          ELSE IF i = 2 THEN SwitchFrame(r) ELSE NoFrame]

FirstStack(t) == IF t \in UserTasks THEN "user" ELSE "kern"

Init ==
  /\ current = Boot
  /\ cpu = [pc |-> KernPc("main"), r0 |-> Junk, r1 |-> Junk, ip |-> Junk,
            lr |-> Junk, r4 |-> Junk, priv |-> TRUE, psp |-> Sp("main", 0)]
  /\ mem = [t \in Threads |-> [st \in {"user", "kern"} |->
              IF st = FirstStack(t) THEN FirstFrames(t, st)
              ELSE [i \in 1 .. Depth |-> NoFrame]]]
  /\ stackTop = [t \in Threads |-> Sp(FirstStack(t), 2)]
  /\ returnPc = [t \in UserTasks |-> Junk]
  /\ mpu = [on |-> FALSE, regions |-> [i \in 0 .. Slots - 1 |-> Blank]]

Next ==
  \/ UserRun
  \/ KernRun
  \/ SvcHandler
  \/ Handler
  \/ \E next \in Threads : Switch(next)

Spec == Init /\ [][Next]_vars

-----------------------------------------------------------------------------
(* Properties.                                                             *)

\* What a thread has in its registers, on the CPU or on its stack.
Regs(t) == IF t = current THEN cpu ELSE Unstacked(mem[t], stackTop[t])
At(t) == Regs(t).pc.at

UserCode == {"entry", "svc", "after"}
OnKernStack == {"call", "c", "lr", "sp"}
KernCode == {"top", "link", "psp", "retaddr", "drop", "back"} \cup OnKernStack

Pcs == [at : UserCode \cup KernCode \cup {"task", "main"}, site : Sites \cup {NoSite}]
Sps == [stack : {"user", "kern", "main"}, used : 0 .. Depth]
Words == Pcs \cup Sps \cup Threads \cup Sites \cup {Junk}
           \cup [arg : Sites] \cup [result : Sites]
Registers == [pc : Pcs, r0 : Words, r1 : Words, ip : Words, lr : Words,
              r4 : Words, priv : BOOLEAN, psp : Sps]
Frames ==
  [kind : {"exc"}, pc : Pcs, r0 : Words, r1 : Words, ip : Words, lr : Words]
    \cup [kind : {"switch"}, priv : BOOLEAN, r4 : Words]
    \cup [kind : {"link"}, sp : Sps, lr : Words]
    \cup [kind : {"call"}, r4 : Words]
    \cup {NoFrame}

\* Every variable keeps its type: no frame is pushed past the end of a stack.
TypeOK ==
  /\ current \in Threads \cup {Boot}
  /\ cpu \in Registers
  /\ mem \in [Threads -> [{"user", "kern"} -> [1 .. Depth -> Frames]]]
  /\ stackTop \in [Threads -> [stack : {"user", "kern"}, used : 2 .. Depth]]
  /\ returnPc \in [UserTasks -> Pcs \cup {Junk}]
  /\ mpu \in [on : BOOLEAN, regions : [0 .. Slots - 1 ->
                [base : Nat, size : 0 .. LastField, enable : BOOLEAN,
                 rights : SUBSET {"read", "write", "exec"}]]]

\* A task's own code never runs privileged, whoever was switched out or in
\* around its calls, and every instruction of the call path that touches the
\* struct of the task or its kernel stack is privileged: arm_m4_svc.S:75-78
\* reads the return address before it drops the privilege for this reason.
PrivilegeFollowsCode ==
  /\ \A t \in UserTasks : Regs(t).priv <=> At(t) \in KernCode \ {"back"}
  /\ \A t \in KernTasks : Regs(t).priv

\* Every call starts on an empty kernel stack and ends with the user stack as
\* deep as before, so neither grows, and code runs on its own stack.
StacksBalanced ==
  \A t \in UserTasks :
    Regs(t).psp = IF At(t) = "c" THEN Sp("kern", 2)
                  ELSE IF At(t) \in OnKernStack THEN Sp("kern", 1)
                  ELSE Sp("user", 0)

\* While a user task runs, in its program or in the kernel, the MPU is on and
\* opens to unprivileged code exactly the memory asked for that task: nothing
\* of the task before it.  While a kernel task runs the MPU is off.
MpuFollowsTask ==
  /\ current \in UserTasks =>
       /\ mpu.on
       /\ Reach = UNION {{r.base \div MinRegion + k : k \in 0 .. r.size \div MinRegion - 1}
                            \X Rights(r.prot) :
                          r \in {Asked[current][i] : i \in DOMAIN Asked[current]}}
  /\ current \in KernTasks => ~mpu.on

-----------------------------------------------------------------------------
(* This module implements SystemCalls.                                     *)

ModeOf(t) ==
  IF At(t) \in UserCode THEN "user"
  ELSE IF At(t) \in {"top", "link", "psp", "call", "c"} THEN "kernel"
  ELSE "served"

\* Where each register of a program is while the kernel works for it.
ViewOf(t) ==
  LET r == Regs(t)
      at == At(t)
      back == IF at \in {"drop", "back"} THEN r.r1 ELSE returnPc[ReturnSlot(t)]
  IN [pc |-> IF at \in UserCode THEN r.pc ELSE [back EXCEPT !.at = "svc"],
      r0 |-> IF at = "c" THEN r.r4 ELSE r.r0,
      r4 |-> IF at = "c" THEN mem[t]["kern"][2].r4 ELSE r.r4,
      lr |-> IF at \in {"c", "lr"} THEN mem[t]["kern"][1].lr ELSE r.lr]

Programs == INSTANCE SystemCalls WITH
  Tasks <- UserTasks,
  mode <- [t \in UserTasks |-> ModeOf(t)],
  view <- [t \in UserTasks |-> ViewOf(t)]

\* The CPU gives each program what it would have alone: a call comes back
\* to its own caller with its own result and registers, and a switch, wherever
\* it happens, changes nothing any program can see.
ImplementsSystemCalls == Programs!Spec
=============================================================================
