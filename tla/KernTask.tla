------------------------------- MODULE KernTask -------------------------------
(***************************************************************************)
(* Tasks, signals and the scheduler: src/src/kern/core/task.c with the     *)
(* system calls, the exception handlers and the boot sequence that drive   *)
(* it.  One core; at any moment a thread runs, or the PendSV or SysTick    *)
(* handler does.                                                           *)
(*                                                                         *)
(* A section under kern_task_spinlock masks interrupts, so it is one step; *)
(* between two sections of a thread anything may come in.  The handlers    *)
(* have equal priority and do not nest.  PendSV is one step.  SysTick is   *)
(* cut at each callback, because its callbacks are kern_task_signal calls; *)
(* no thread runs in between.                                              *)
(*                                                                         *)
(* The timer is TimerEvents, which KernTimer implements.                   *)
(***************************************************************************)
EXTENDS Integers, SequencesExt

CONSTANTS
  Tasks,        \* every task but the idle task
  IdleTask,     \* idle_task
  Boot,         \* the context of main(), in which current_task is NULL
  Signals,      \* the signals in use
  KSLEEP,       \* KERN_SIGNAL_TASK_KSLEEP, posted by the sleep timer
  Masks,        \* the sets of signals tasks wait for and post to each other
  MaskChanges,  \* the <<and, or>> arguments of kern_task_set_sigmask
  DefaultMask,  \* KERN_SIGNAL_TASK_MASK
  MayExit,      \* the tasks that may call exit
  MaxRefs,      \* bound: references held through kern_task_lookup
  LateSwitch    \* a thread may run on for a while with PendSV pending

ASSUME TaskAssumption ==
  /\ IdleTask \notin Tasks /\ Boot \notin Tasks /\ IdleTask # Boot
  /\ KSLEEP \in Signals
  /\ Masks \subseteq SUBSET Signals
  /\ MaskChanges \subseteq (SUBSET Signals) \X (SUBSET Signals)
  /\ DefaultMask \in SUBSET Signals
  /\ MayExit \subseteq Tasks
  /\ MaxRefs \in Nat
  /\ LateSwitch \in BOOLEAN

VARIABLES
  current,      \* current_task
  state,        \* cur_state
  activeList, onActive, activeCount,   \* kern_task_active_list, is_on_active_list
  dyingList, onDying, dyingCount,      \* kern_task_dying_list, is_on_dying_list
  tasks,        \* kern_task_list; nothing reads its order
  switchReady,  \* task_switch_ready
  pendsv,       \* a context switch has been kicked and not yet taken
  sigSet, sigMask,
  refcount,
  dead,         \* the idle task's private list of reaped tasks
  freed,        \* tasks whose memory kern_task_cleanup has released
  pc,           \* where each thread is
  waitFor,      \* the mask argument of the kern_task_wait in progress
  armed, active, todo, running, latched, busy   \* the timer

schedVars == <<activeList, onActive, activeCount, dyingList, onDying, dyingCount>>
sigVars == <<sigSet, sigMask>>
reapVars == <<tasks, dead, freed>>
timerVars == <<armed, active, todo, running, latched, busy>>
vars == <<current, state, schedVars, reapVars, switchReady, pendsv, sigVars,
          refcount, pc, waitFor, timerVars>>

Timer == INSTANCE TimerEvents WITH Events <- Tasks

Threads == Tasks \cup {IdleTask}

States == {"IDLE", "READY", "RUNNING", "SLEEPING", "DYING"}
TaskPCs == {"new", "made", "run", "rearm", "wait", "exit", "spin"}
IdlePCs == {"check", "clean", "stop", "wfi", "asleep"}
BootPCs == {"main", "ready", "done"}

-----------------------------------------------------------------------------
(* kern_task_setup has run, with the idle task created and on the list of   *)
(* tasks; the timer has been started.                                       *)

Init ==
  /\ current = Boot
  /\ state = [t \in Threads |-> "IDLE"]
  /\ activeList = <<>> /\ onActive = [t \in Tasks |-> FALSE] /\ activeCount = 0
  /\ dyingList = <<>> /\ onDying = [t \in Tasks |-> FALSE] /\ dyingCount = 0
  /\ tasks = {IdleTask} /\ dead = {} /\ freed = {}
  /\ switchReady = FALSE /\ pendsv = FALSE
  /\ sigSet = [t \in Tasks |-> {}]
  /\ sigMask = [t \in Tasks |-> DefaultMask]
  /\ refcount = [t \in Tasks |-> 0]
  /\ pc = [t \in Threads \cup {Boot} |->
             CASE t \in Tasks -> "new" [] t = IdleTask -> "check" [] t = Boot -> "main"]
  /\ waitFor = [t \in Tasks |-> {}]
  /\ Timer!Init

\* Thread t executes: it is on the CPU and no handler has taken over.
Runs(t) ==
  /\ current = t
  /\ ~busy
  /\ pendsv => LateSwitch

At(t, label) == Runs(t) /\ pc[t] = label

Goto(t, label) == pc' = [pc EXCEPT ![t] = label]

\* An interrupt ends the WFI the idle task may be in.
WakeCPU ==
  pc' = IF current = IdleTask /\ pc[IdleTask] = "asleep"
          THEN [pc EXCEPT ![IdleTask] = "check"] ELSE pc

-----------------------------------------------------------------------------
(* _kern_task_set_state_locked.                                            *)

(* Faulty variant: task_switch_ready is not asked. *)
KickUnready == pendsv' = TRUE

Kick == pendsv' = (pendsv \/ switchReady)

(* Faulty variant: the kick gets lost. *)
KickLost == UNCHANGED pendsv

\* platform_kick_context_switch, called without the lock and unconditionally.
KickUnlocked == pendsv' = TRUE

(* Faulty variants: the flag, or the counter, is forgotten. *)
LeaveActiveKeepingFlag(t) ==
  IF onActive[t]
    THEN /\ activeList' = RemoveFirst(activeList, t)
         /\ activeCount' = activeCount - 1
         /\ UNCHANGED onActive
    ELSE UNCHANGED <<activeList, onActive, activeCount>>

LeaveActiveKeepingCount(t) ==
  IF onActive[t]
    THEN /\ activeList' = RemoveFirst(activeList, t)
         /\ onActive' = [onActive EXCEPT ![t] = FALSE]
         /\ UNCHANGED activeCount
    ELSE UNCHANGED <<activeList, onActive, activeCount>>

LeaveActive(t) ==
  IF onActive[t]
    THEN /\ activeList' = RemoveFirst(activeList, t)
         /\ onActive' = [onActive EXCEPT ![t] = FALSE]
         /\ activeCount' = activeCount - 1
    ELSE UNCHANGED <<activeList, onActive, activeCount>>

JoinDying(t) ==
  IF onDying[t]
    THEN UNCHANGED <<dyingList, onDying, dyingCount>>
    ELSE /\ dyingList' = Append(dyingList, t)
         /\ onDying' = [onDying EXCEPT ![t] = TRUE]
         /\ dyingCount' = dyingCount + 1

(* Faulty variant: a task that wakes goes to the head of the queue. *)
JoinActiveAtHead(t) ==
  IF onActive[t]
    THEN UNCHANGED <<activeList, onActive, activeCount, pendsv>>
    ELSE /\ activeList' = <<t>> \o activeList
         /\ onActive' = [onActive EXCEPT ![t] = TRUE]
         /\ activeCount' = activeCount + 1
         /\ Kick

JoinActive(t) ==
  IF onActive[t]
    THEN UNCHANGED <<activeList, onActive, activeCount, pendsv>>
    ELSE /\ activeList' = Append(activeList, t)
         /\ onActive' = [onActive EXCEPT ![t] = TRUE]
         /\ activeCount' = activeCount + 1
         /\ Kick

(* Faulty variants: a dying task is left on the run queue; going to sleep does
   not ask for a switch. *)
TurnDyingActive(t) == JoinDying(t) /\ Kick /\ UNCHANGED <<activeList, onActive, activeCount>>
TurnSleepingOn(t) == LeaveActive(t) /\ UNCHANGED <<dyingList, onDying, dyingCount, pendsv>>

TurnDying(t) == LeaveActive(t) /\ JoinDying(t) /\ Kick
TurnSleeping(t) == LeaveActive(t) /\ Kick /\ UNCHANGED <<dyingList, onDying, dyingCount>>
TurnReady(t) == JoinActive(t) /\ UNCHANGED <<dyingList, onDying, dyingCount>>

SetState(t, new) ==
  IF state[t] = new
    THEN UNCHANGED <<state, schedVars, pendsv>>
    ELSE /\ state' = [state EXCEPT ![t] = new]
         /\ \/ new = "DYING" /\ TurnDying(t)
            \/ new = "SLEEPING" /\ TurnSleeping(t)
            \/ new = "READY" /\ TurnReady(t)

(* Faulty variant: decided on the signals read before the new ones came. *)
WakesStale(t, sigs) == sigSet[t] \cap sigMask[t] # {} /\ state[t] = "SLEEPING"

Wakes(t, sigs) == (sigSet[t] \cup sigs) \cap sigMask[t] # {} /\ state[t] = "SLEEPING"

\* kern_task_signal on task t; a task that is not yet started, or dying,
\* refuses.
Signal(t, sigs) ==
  IF state[t] \in {"SLEEPING", "READY", "RUNNING"}
    THEN /\ sigSet' = [sigSet EXCEPT ![t] = @ \cup sigs]
         /\ IF Wakes(t, sigs)
              THEN SetState(t, "READY")
              ELSE UNCHANGED <<state, schedVars, pendsv>>
    ELSE UNCHANGED <<sigSet, state, schedVars, pendsv>>

-----------------------------------------------------------------------------
(* The boot sequence of main().                                            *)

\* kern_task_init and kern_task_user_init.
Create(t) ==
  /\ At(Boot, "main") /\ pc[t] = "new"
  /\ tasks' = tasks \cup {t}
  /\ Goto(t, "made")
  /\ UNCHANGED <<current, state, schedVars, dead, freed, switchReady, pendsv,
                 sigVars, refcount, waitFor, timerVars>>

\* kern_task_start.
StartTask(t) ==
  /\ At(Boot, "main") /\ pc[t] = "made"
  /\ SetState(t, "READY")
  /\ Goto(t, "run")
  /\ UNCHANGED <<current, reapVars, switchReady, sigVars, refcount, waitFor,
                 timerVars>>

\* kern_task_ready, once every task that was created has been started.
Ready ==
  /\ At(Boot, "main") /\ \A t \in Tasks : pc[t] # "made"
  /\ switchReady' = TRUE
  /\ Goto(Boot, "ready")
  /\ UNCHANGED <<current, state, schedVars, reapVars, pendsv, sigVars, refcount,
                 waitFor, timerVars>>

\* kern_task_tick, called by main() to leave it for good.
FirstSwitch ==
  /\ At(Boot, "ready")
  /\ Kick
  /\ Goto(Boot, "done")
  /\ UNCHANGED <<current, state, schedVars, reapVars, switchReady, sigVars,
                 refcount, waitFor, timerVars>>

-----------------------------------------------------------------------------
(* A task's calls.                                                         *)

(* Faulty variant: the event stays where it is. *)
TimerDelNot(t) == UNCHANGED timerVars

\* kern_timer_event_del.
TimerDel(t) == Timer!Del(t)

\* kern_syscall_sleep: kern_task_timer_set deletes the event and adds it again,
\* in two calls.  Neither is refused: see NeverRefused.
SleepDel(t) ==
  /\ At(t, "run")
  /\ TimerDel(t)
  /\ Goto(t, "rearm")
  /\ UNCHANGED <<current, state, schedVars, reapVars, switchReady, pendsv,
                 sigVars, refcount, waitFor>>

SleepAdd(t) ==
  /\ At(t, "rearm")
  /\ Timer!Add(t)
  /\ Goto(t, "wait")
  /\ waitFor' = [waitFor EXCEPT ![t] = {KSLEEP}]
  /\ UNCHANGED <<current, state, schedVars, reapVars, switchReady, pendsv,
                 sigVars, refcount>>

\* A kernel task's own call of kern_task_wait.
BeginWait(t, mask) ==
  /\ At(t, "run")
  /\ Goto(t, "wait")
  /\ waitFor' = [waitFor EXCEPT ![t] = mask]
  /\ UNCHANGED <<current, state, schedVars, reapVars, switchReady, pendsv,
                 sigVars, refcount, timerVars>>

(* Faulty variant: the signals waited for are not cleared. *)
SigsLeftAll(t) == sigSet[t]

\* What a wait leaves set; signals it asked for go whether masked or not.
SigsLeft(t) == sigSet[t] \ waitFor[t]

\* The loop of kern_task_wait: one turn of it is one locked section.
WaitDone(t) ==
  /\ At(t, "wait")
  /\ sigSet[t] \cap waitFor[t] \cap sigMask[t] # {}
  /\ SetState(t, "READY")
  /\ sigSet' = [sigSet EXCEPT ![t] = SigsLeft(t)]
  /\ waitFor' = [waitFor EXCEPT ![t] = {}]
  /\ Goto(t, "run")
  /\ UNCHANGED <<current, reapVars, switchReady, sigMask, refcount, timerVars>>

WaitSleep(t) ==
  /\ At(t, "wait")
  /\ sigSet[t] \cap waitFor[t] \cap sigMask[t] = {}
  /\ SetState(t, "SLEEPING")
  /\ UNCHANGED <<current, reapVars, switchReady, sigVars, refcount, pc, waitFor,
                 timerVars>>

\* kern_task_set_sigmask.
SetSigmask(t, and, or) ==
  /\ At(t, "run")
  /\ sigMask' = [sigMask EXCEPT ![t] = (@ \cap and) \cup or]
  /\ UNCHANGED <<current, state, schedVars, reapVars, switchReady, pendsv, sigSet,
                 refcount, pc, waitFor, timerVars>>

\* kern_task_signal, called by one task for another it knows to exist.
SignalTask(t, u, sigs) ==
  /\ At(t, "run")
  /\ u \in tasks
  /\ Signal(u, sigs)
  /\ UNCHANGED <<current, reapVars, switchReady, sigMask, refcount, pc, waitFor,
                 timerVars>>

\* kern_task_lookup of another task, and kern_task_refcount_dec.
Lookup(t, u) ==
  /\ At(t, "run")
  /\ u \in tasks \ {t} /\ refcount[u] < MaxRefs
  /\ refcount' = [refcount EXCEPT ![u] = @ + 1]
  /\ UNCHANGED <<current, state, schedVars, reapVars, switchReady, pendsv, sigVars,
                 pc, waitFor, timerVars>>

Release(t, u) ==
  /\ At(t, "run")
  /\ refcount[u] > 0
  /\ refcount' = [refcount EXCEPT ![u] = @ - 1]
  /\ UNCHANGED <<current, state, schedVars, reapVars, switchReady, pendsv, sigVars,
                 pc, waitFor, timerVars>>

\* kern_task_exit: the timer event is deleted before the task turns DYING.
ExitDel(t) ==
  /\ At(t, "run") /\ t \in MayExit
  /\ TimerDel(t)
  /\ Goto(t, "exit")
  /\ UNCHANGED <<current, state, schedVars, reapVars, switchReady, pendsv,
                 sigVars, refcount, waitFor>>

ExitDying(t) ==
  /\ At(t, "exit")
  /\ SetState(t, "DYING")
  /\ Goto(t, "spin")
  /\ UNCHANGED <<current, reapVars, switchReady, sigVars, refcount, waitFor,
                 timerVars>>

\* Its last loop kicks, without the lock, until it is switched away from.
Spin(t) ==
  /\ At(t, "spin")
  /\ KickUnlocked
  /\ UNCHANGED <<current, state, schedVars, reapVars, switchReady, sigVars,
                 refcount, pc, waitFor, timerVars>>

-----------------------------------------------------------------------------
(* kern_idle_task_fn.                                                      *)

(* Faulty variant: the reaped tasks stay on the dying list. *)
ReapKeepingList ==
  /\ At(IdleTask, "check")
  /\ dyingCount > 0
  /\ tasks' = tasks \ ToSet(dyingList)
  /\ dead' = dead \cup ToSet(dyingList)
  /\ Goto(IdleTask, "clean")
  /\ UNCHANGED <<current, state, schedVars, freed, switchReady, pendsv, sigVars,
                 refcount, waitFor, timerVars>>

\* kern_reap_dying_tasks_locked: the whole dying list, under the lock.
Reap ==
  /\ At(IdleTask, "check")
  /\ dyingCount > 0
  /\ tasks' = tasks \ ToSet(dyingList)
  /\ dead' = dead \cup ToSet(dyingList)
  /\ dyingCount' = dyingCount - Len(dyingList)
  /\ dyingList' = <<>>
  /\ Goto(IdleTask, "clean")
  /\ UNCHANGED <<current, state, activeList, onActive, activeCount, onDying, freed,
                 switchReady, pendsv, sigVars, refcount, waitFor, timerVars>>

\* One turn of kern_cleanup_dying_tasks, without the lock.
Cleanup(t) ==
  /\ At(IdleTask, "clean")
  /\ t \in dead
  /\ dead' = dead \ {t}
  /\ freed' = freed \cup {t}
  /\ UNCHANGED <<current, state, schedVars, tasks, switchReady, pendsv, sigVars,
                 refcount, pc, waitFor, timerVars>>

CleanupDone ==
  /\ At(IdleTask, "clean")
  /\ dead = {}
  /\ KickUnlocked
  /\ Goto(IdleTask, "check")
  /\ UNCHANGED <<current, state, schedVars, reapVars, switchReady, sigVars, refcount,
                 waitFor, timerVars>>

NothingDying ==
  /\ At(IdleTask, "check")
  /\ dyingCount = 0
  /\ Goto(IdleTask, "stop")
  /\ UNCHANGED <<current, state, schedVars, reapVars, switchReady, pendsv, sigVars,
                 refcount, waitFor, timerVars>>

\* kern_timer_idle.
StopTimer ==
  /\ At(IdleTask, "stop")
  /\ Timer!Idle
  /\ Goto(IdleTask, "wfi")
  /\ UNCHANGED <<current, state, schedVars, reapVars, switchReady, pendsv, sigVars,
                 refcount, waitFor>>

\* platform_cpu_idle: an exception that is already pending ends it at once.
WaitForInterrupt ==
  /\ At(IdleTask, "wfi")
  /\ Goto(IdleTask, IF pendsv \/ latched THEN "check" ELSE "asleep")
  /\ UNCHANGED <<current, state, schedVars, reapVars, switchReady, pendsv, sigVars,
                 refcount, waitFor, timerVars>>

-----------------------------------------------------------------------------
(* Exceptions.                                                             *)

(* kern_task_select, in the PendSV handler.                                *)

(* Faulty variant: dying tasks make no difference. *)
NextThreadIgnoringDying == IF activeList = <<>> THEN IdleTask ELSE Head(activeList)

\* The idle task at once if there is a task to clean up.
NextThread ==
  IF dyingCount > 0 \/ activeList = <<>> THEN IdleTask ELSE Head(activeList)

(* Faulty variant: the old thread is never made READY. *)
DemotedNever == state

\* The old thread's RUNNING turns READY, but not on the way to a cleanup.
Demoted ==
  IF dyingCount = 0 /\ current # Boot /\ state[current] = "RUNNING"
    THEN [state EXCEPT ![current] = "READY"] ELSE state

(* Faulty variant: the chosen task stays at the head. *)
RotatedNot(next) == activeList

\* The chosen task moves to the tail.
Rotated(next) ==
  IF next = IdleTask THEN activeList ELSE Append(RemoveFirst(activeList, next), next)

Select ==
  /\ pendsv /\ ~busy
  /\ current' = NextThread
  /\ state' = [Demoted EXCEPT ![NextThread] = "RUNNING"]
  /\ activeList' = Rotated(NextThread)
  /\ IF activeCount > 1 THEN Timer!Start ELSE UNCHANGED timerVars
  /\ pendsv' = FALSE
  /\ WakeCPU
  /\ UNCHANGED <<onActive, activeCount, dyingList, onDying, dyingCount, reapVars,
                 switchReady, sigVars, refcount, waitFor>>

\* kern_timer_tick, up to the callbacks.
Tick ==
  /\ pendsv => LateSwitch
  /\ Timer!Tick
  /\ WakeCPU
  /\ UNCHANGED <<current, state, schedVars, reapVars, switchReady, pendsv, sigVars,
                 refcount, waitFor>>

\* kern_task_timer_ev_fn.
TimerFires(t) ==
  /\ Timer!Callback(t)
  /\ Signal(t, {KSLEEP})
  /\ UNCHANGED <<current, reapVars, switchReady, sigMask, refcount, pc, waitFor>>

\* The end of kern_timer_tick, and kern_task_tick.
TickEnd ==
  /\ Timer!TickDone
  /\ Kick
  /\ UNCHANGED <<current, state, schedVars, reapVars, switchReady, sigVars, refcount,
                 pc, waitFor>>

\* Any other interrupt: the console's and the button's touch no task.
OtherInterrupt ==
  /\ ~busy
  /\ WakeCPU
  /\ UNCHANGED <<current, state, schedVars, reapVars, switchReady, pendsv, sigVars,
                 refcount, waitFor, timerVars>>

-----------------------------------------------------------------------------

Booting == (\E t \in Tasks : Create(t) \/ StartTask(t)) \/ Ready \/ FirstSwitch

TaskStep(t) ==
  \/ SleepDel(t) \/ SleepAdd(t)
  \/ \E mask \in Masks : BeginWait(t, mask)
  \/ WaitDone(t) \/ WaitSleep(t)
  \/ \E change \in MaskChanges : SetSigmask(t, change[1], change[2])
  \/ \E u \in Tasks, sigs \in Masks : SignalTask(t, u, sigs)
  \/ \E u \in Tasks : Lookup(t, u) \/ Release(t, u)
  \/ ExitDel(t) \/ ExitDying(t) \/ Spin(t)

IdleStep ==
  \/ Reap
  \/ \E t \in Tasks : Cleanup(t)
  \/ CleanupDone
  \/ NothingDying
  \/ StopTimer
  \/ WaitForInterrupt

Handler ==
  \/ Select
  \/ Tick
  \/ \E t \in Tasks : TimerFires(t)
  \/ TickEnd

Next ==
  \/ Booting
  \/ \E t \in Tasks : TaskStep(t)
  \/ IdleStep
  \/ Handler
  \/ OtherInterrupt
\* What the scheduling of the code justifies.  SysTick keeps coming while it
\* counts and no armed event stays so (TimerEvents); an exception that is
\* pending is taken; a thread that is given the CPU again and again gets
\* through the calls it is in.  A task owes no call: it may compute for ever.
InCall(t) == SleepAdd(t) \/ WaitDone(t) \/ WaitSleep(t) \/ ExitDying(t)

Fairness ==
  /\ \A t \in Tasks : []<>(t \notin armed)
  /\ \A t \in Tasks : WF_vars(TimerFires(t))
  /\ WF_vars(TickEnd)
  /\ SF_vars(Tick)
  /\ SF_vars(Select)
  /\ SF_vars(IdleStep)
  /\ SF_vars(Booting)
  /\ \A t \in Tasks : SF_vars(InCall(t))

Spec == Init /\ [][Next]_vars
FairSpec == Spec /\ Fairness

-----------------------------------------------------------------------------
(* Properties.                                                             *)

\* Every variable keeps its type.
TypeOK ==
  /\ current \in Threads \cup {Boot}
  /\ state \in [Threads -> States]
  /\ activeList \in Seq(Tasks) /\ dyingList \in Seq(Tasks)
  /\ onActive \in [Tasks -> BOOLEAN] /\ onDying \in [Tasks -> BOOLEAN]
  /\ activeCount \in Nat /\ dyingCount \in Nat
  /\ tasks \in SUBSET Threads /\ dead \in SUBSET Tasks /\ freed \in SUBSET Tasks
  /\ switchReady \in BOOLEAN /\ pendsv \in BOOLEAN
  /\ sigSet \in [Tasks -> SUBSET Signals]
  /\ sigMask \in [Tasks -> SUBSET Signals]
  /\ waitFor \in [Tasks -> SUBSET Signals]
  /\ refcount \in [Tasks -> 0 .. MaxRefs]
  /\ pc \in [Threads \cup {Boot} -> TaskPCs \cup IdlePCs \cup BootPCs]
  /\ \A t \in Tasks : pc[t] \in TaskPCs
  /\ pc[IdleTask] \in IdlePCs /\ pc[Boot] \in BootPCs
  /\ Timer!TypeOK

\* Where each thread is agrees with what the kernel knows of it: nothing is
\* switched before the kernel is ready for it, cur_state follows the task through
\* its calls, and only a task that is running or waiting has its timer armed or
\* in the handler's hands.
PhasesAgree ==
  /\ switchReady <=> pc[Boot] # "main"
  /\ pendsv \/ current # Boot => switchReady
  /\ state[IdleTask] \in {"IDLE", "READY", "RUNNING"}
  /\ ~busy => active = {}
  /\ \A t \in Tasks : /\ pc[t] \in {"new", "made"} <=> state[t] = "IDLE"
                      /\ pc[t] = "spin" <=> state[t] = "DYING"
                      /\ pc[t] \notin {"run", "wait"} => t \notin armed \cup active

\* The run queue and the dying queue, which share the task_active_node of a
\* task, agree with its flags and with the counters that kern_task_select and
\* the idle loop test: no task is on both, or twice on one.
ListsConsistent ==
  /\ IsInjective(activeList) /\ activeCount = Len(activeList)
  /\ IsInjective(dyingList) /\ dyingCount = Len(dyingList)
  /\ ToSet(activeList) \cap ToSet(dyingList) = {}
  /\ \A t \in Tasks :
       /\ onActive[t] <=> t \in ToSet(activeList)
       /\ onDying[t] <=> t \in ToSet(dyingList) \cup dead \cup freed

\* cur_state and the queues never disagree, though select, set_state, signal
\* and wait change them in different places: exactly the READY and RUNNING
\* tasks are on the run queue, exactly the DYING ones on their way out.
StateMatchesQueue ==
  \A t \in Tasks : /\ state[t] \in {"READY", "RUNNING"} <=> t \in ToSet(activeList)
                   /\ state[t] = "DYING" <=> onDying[t]

\* Lists, flags, counters and cur_state, kept in four places, tell one story.
QueuesAgree == ListsConsistent /\ StateMatchesQueue

\* A task is on the list of tasks, or reaped, or freed, and only one of them:
\* none is reaped twice and none is freed while a list still holds it.
ReapedOnce ==
  /\ tasks \cap dead = {} /\ tasks \cap freed = {} /\ dead \cap freed = {}
  /\ tasks \cup dead \cup freed = {IdleTask} \cup {t \in Tasks : pc[t] # "new"}
  /\ ToSet(dyingList) \cup ToSet(activeList) \subseteq tasks

\* Only the current thread is RUNNING, although kern_task_select does not
\* demote the thread it leaves when it skips to the idle task.
OneRunning == \A t \in Threads : state[t] = "RUNNING" => current = t

\* While a task is dying, the CPU is that task's or the idle task's.
DyingStopsTheRest ==
  dyingList # <<>> => current = IdleTask \/ current \in ToSet(dyingList)

\* Unless a switch is pending, a task that has the CPU is on the run queue: one
\* that went to sleep, or exited, is not left running.
CurrentIsActive == current \in Tasks /\ ~pendsv => onActive[current]

\* No wakeup is lost between kern_task_wait's look at the signals and its sleep:
\* a sleeping task has no signal that it waits for.
NoLostWakeup ==
  \A t \in Tasks : state[t] = "SLEEPING" =>
    pc[t] = "wait" /\ sigSet[t] \cap waitFor[t] \cap sigMask[t] = {}

\* The timer's handler never reaches an exiting or freed task through its
\* sleep_ev, and the scheduler never returns to a freed one.
NoUseAfterFree ==
  \A t \in Tasks :
    /\ pc[t] \in {"exit", "spin"} => t \notin armed \cup active
    /\ t \in dead \cup freed => pc[t] = "spin" /\ current # t

\* Sleeping and exiting never meet a refusal of the timer, though
\* kern_task_timer_set is two calls: the deletes find the event out of the
\* handler's hands, and nothing has queued it again before the add.
NeverRefused ==
  \A t \in Tasks : Runs(t) =>
    t \notin active /\ (pc[t] = "rearm" => t \notin armed)

\* The idle task has the CPU only when no task could use it, or when it has
\* dead to bury, or until the switch that is pending.
IdleOnlyWhenNothingReady ==
  current = IdleTask /\ ~pendsv /\ dyingCount = 0 /\ pc[IdleTask] # "clean" =>
    activeList = <<>>

\* A dying task stays one, and is never switched to again.
DyingNeverResumed ==
  [][\A t \in Tasks : state[t] = "DYING" =>
       state'[t] = "DYING" /\ (current' = t => current = t)]_vars

Ahead(queue, t) ==
  {queue[i] : i \in {i \in DOMAIN queue : \E k \in DOMAIN queue : i < k /\ queue[k] = t}}

\* The scheduler is first come, first served: whatever sleeps, wakes, signals
\* and exits come between, no task gets ahead of one that waits on the run
\* queue.
NoOvertaking ==
  [][\A t \in Tasks :
       onActive[t] /\ onActive'[t] /\ current' # t =>
         Ahead(activeList', t) \subseteq Ahead(activeList, t)]_vars

\* A sleep lasts until its own timer has fired (where no one else posts
\* KSLEEP): the signal of an earlier sleep never cuts a later one short.
SleepsFullTime ==
  [][\A t \in Tasks :
       waitFor[t] = {KSLEEP} /\ pc[t] = "wait" /\ pc'[t] = "run" =>
         t \notin armed \cup todo]_vars

\* No task stays on the run queue for ever without being run.
ReadyRuns == \A t \in Tasks : []<>(current = t \/ ~onActive[t])

\* No task stays for ever in a wait for a signal that is posted and not masked.
SignalEndsWait ==
  \A t \in Tasks :
    []<>~(pc[t] = "wait" /\ sigSet[t] \cap waitFor[t] \cap sigMask[t] # {})

\* No sleep lasts for ever, from the add of the timer to the return of the call.
SleepEnds ==
  \A t \in Tasks :
    []<>~(pc[t] = "wait" /\ waitFor[t] = {KSLEEP} /\ KSLEEP \in sigMask[t])

\* What kern_task_select's comment says of dying tasks (task.c:291-295): the
\* idle task will handle their cleanup.
DyingReaped == \A t \in Tasks : []<>(t \notin ToSet(dyingList))
-----------------------------------------------------------------------------
\* The safety properties together are inductive: each step that keeps one of
\* them needs some of the others.
IInv ==
  /\ TypeOK
  /\ PhasesAgree
  /\ ListsConsistent
  /\ StateMatchesQueue
  /\ ReapedOnce
  /\ OneRunning
  /\ DyingStopsTheRest
  /\ CurrentIsActive
  /\ NoLostWakeup
  /\ NoUseAfterFree
  /\ IdleOnlyWhenNothingReady
=============================================================================
