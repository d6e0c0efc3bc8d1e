---------------------------- MODULE KernTaskProofs ----------------------------
(***************************************************************************)
(* That the safety properties of KernTask hold for every set of tasks and  *)
(* signals.  The properties are proved in two layers.  The first, Agree,   *)
(* says that a task's place in its calls, its cur_state and the queues     *)
(* agree; it is inductive by itself.  Each property of the second layer is *)
(* then kept by every step that keeps the first.                           *)
(***************************************************************************)
EXTENDS KernTask, KernLists, TLAPS

Agree == TypeOK /\ PhasesAgree /\ ListsConsistent /\ StateMatchesQueue

-----------------------------------------------------------------------------
(* What _kern_task_set_state_locked does.                                  *)

\* list_delete on the run queue: the task is off the run queue, in whatever
\* way it was on it, and the flag and the counter follow.
LEMMA LeaveActiveFacts ==
  ASSUME TypeOK, ListsConsistent, NEW t \in Tasks, LeaveActive(t)
  PROVE  /\ activeList' \in Seq(Tasks) /\ activeCount' \in Nat
         /\ IsInjective(activeList') /\ activeCount' = Len(activeList')
         /\ ToSet(activeList') = ToSet(activeList) \ {t}
         /\ onActive' = [onActive EXCEPT ![t] = FALSE]
<1>1. activeList \in Seq(Tasks) /\ IsInjective(activeList)
      /\ activeCount = Len(activeList) /\ activeCount \in Nat
      /\ onActive \in [Tasks -> BOOLEAN]
      /\ (onActive[t] <=> t \in ToSet(activeList))
  BY DEF TypeOK, ListsConsistent
<1>2. CASE onActive[t]
  <2>1. /\ activeList' = RemoveFirst(activeList, t)
        /\ onActive' = [onActive EXCEPT ![t] = FALSE]
        /\ activeCount' = activeCount - 1
    BY <1>2 DEF LeaveActive
  <2>2. /\ RemoveFirst(activeList, t) \in Seq(Tasks)
        /\ Len(RemoveFirst(activeList, t)) = Len(activeList) - 1
        /\ IsInjective(RemoveFirst(activeList, t))
        /\ ToSet(RemoveFirst(activeList, t)) = ToSet(activeList) \ {t}
    BY <1>1, <1>2, RemoveFirstProps
  <2>3. activeList' \in Seq(Tasks) => Len(activeList') \in Nat
    BY EmptyProps
  <2>4. QED
    BY <1>1, <2>1, <2>2, <2>3
<1>3. CASE ~onActive[t]
  <2>1. UNCHANGED <<activeList, onActive, activeCount>>
    BY <1>3 DEF LeaveActive
  <2>2. [onActive EXCEPT ![t] = FALSE] = onActive
    BY <1>1, <1>3
  <2>3. QED
    BY <1>1, <1>3, <2>1, <2>2
<1>4. QED
  BY <1>2, <1>3

\* list_add_tail on the run queue, unless the task is on it already.
LEMMA JoinActiveFacts ==
  ASSUME TypeOK, ListsConsistent, NEW t \in Tasks, JoinActive(t)
  PROVE  /\ activeList' \in Seq(Tasks) /\ activeCount' \in Nat
         /\ IsInjective(activeList') /\ activeCount' = Len(activeList')
         /\ ToSet(activeList') = ToSet(activeList) \cup {t}
         /\ onActive' = [onActive EXCEPT ![t] = TRUE]
         /\ pendsv' = (IF onActive[t] THEN pendsv ELSE pendsv \/ switchReady)
<1>1. activeList \in Seq(Tasks) /\ IsInjective(activeList)
      /\ activeCount = Len(activeList) /\ activeCount \in Nat
      /\ onActive \in [Tasks -> BOOLEAN]
      /\ (onActive[t] <=> t \in ToSet(activeList))
  BY DEF TypeOK, ListsConsistent
<1>2. CASE ~onActive[t]
  <2>1. /\ activeList' = Append(activeList, t)
        /\ onActive' = [onActive EXCEPT ![t] = TRUE]
        /\ activeCount' = activeCount + 1
        /\ pendsv' = (pendsv \/ switchReady)
    BY <1>2 DEF JoinActive, Kick
  <2>2. /\ Append(activeList, t) \in Seq(Tasks)
        /\ Len(Append(activeList, t)) = Len(activeList) + 1
        /\ IsInjective(Append(activeList, t))
        /\ ToSet(Append(activeList, t)) = ToSet(activeList) \cup {t}
    BY <1>1, <1>2, AppendProps
  <2>3. QED
    BY <1>1, <1>2, <2>1, <2>2
<1>3. CASE onActive[t]
  <2>1. UNCHANGED <<activeList, onActive, activeCount, pendsv>>
    BY <1>3 DEF JoinActive
  <2>2. [onActive EXCEPT ![t] = TRUE] = onActive
    BY <1>1, <1>3
  <2>3. QED
    BY <1>1, <1>3, <2>1, <2>2
<1>4. QED
  BY <1>2, <1>3

\* list_add_tail on the dying queue.
LEMMA JoinDyingFacts ==
  ASSUME TypeOK, ListsConsistent, NEW t \in Tasks, JoinDying(t), ~onDying[t]
  PROVE  /\ dyingList' \in Seq(Tasks) /\ dyingCount' \in Nat
         /\ IsInjective(dyingList') /\ dyingCount' = Len(dyingList')
         /\ ToSet(dyingList') = ToSet(dyingList) \cup {t}
         /\ onDying' = [onDying EXCEPT ![t] = TRUE]
<1>1. dyingList \in Seq(Tasks) /\ IsInjective(dyingList)
      /\ dyingCount = Len(dyingList) /\ dyingCount \in Nat
      /\ t \notin ToSet(dyingList)
  BY DEF TypeOK, ListsConsistent
<1>2. /\ dyingList' = Append(dyingList, t)
      /\ onDying' = [onDying EXCEPT ![t] = TRUE]
      /\ dyingCount' = dyingCount + 1
  BY DEF JoinDying
<1>3. /\ Append(dyingList, t) \in Seq(Tasks)
      /\ Len(Append(dyingList, t)) = Len(dyingList) + 1
      /\ IsInjective(Append(dyingList, t))
      /\ ToSet(Append(dyingList, t)) = ToSet(dyingList) \cup {t}
  BY <1>1, AppendProps
<1>4. QED
  BY <1>1, <1>2, <1>3

\* The effect of a change of task t's cur_state to new, in terms of sets.
Moves(t, new) ==
  /\ state' = [state EXCEPT ![t] = new]
  /\ activeList' \in Seq(Tasks) /\ activeCount' \in Nat
  /\ dyingList' \in Seq(Tasks) /\ dyingCount' \in Nat
  /\ onActive' = [onActive EXCEPT ![t] = (new = "READY")]
  /\ onDying' = [onDying EXCEPT ![t] = (new = "DYING")]
  /\ ToSet(activeList') = IF new = "READY" THEN ToSet(activeList) \cup {t}
                          ELSE ToSet(activeList) \ {t}
  /\ ToSet(dyingList') = IF new = "DYING" THEN ToSet(dyingList) \cup {t}
                         ELSE ToSet(dyingList)
  /\ pendsv' \in BOOLEAN /\ (pendsv => pendsv')
  /\ pendsv' => pendsv \/ switchReady
  /\ onActive'[t] # onActive[t] => pendsv' = (pendsv \/ switchReady)

\* A change of cur_state keeps the queues and cur_state in agreement, whatever
\* it is; and it asks for a switch whenever the run queue changes.
LEMMA SetStateFacts ==
  ASSUME TypeOK, ListsConsistent, StateMatchesQueue, NEW t \in Tasks,
         NEW new \in {"READY", "SLEEPING", "DYING"},
         SetState(t, new), state[t] # "DYING", UNCHANGED <<dead, freed>>
  PROVE  Moves(t, new) /\ ListsConsistent' /\ StateMatchesQueue'
<1>1. /\ state \in [Threads -> States] /\ t \in Threads /\ pendsv \in BOOLEAN
      /\ onActive \in [Tasks -> BOOLEAN] /\ onDying \in [Tasks -> BOOLEAN]
      /\ activeList \in Seq(Tasks) /\ dyingList \in Seq(Tasks)
      /\ activeCount \in Nat /\ dyingCount \in Nat /\ switchReady \in BOOLEAN
  BY DEF TypeOK, Threads
<1>2. /\ onActive[t] <=> state[t] \in {"READY", "RUNNING"}
      /\ onActive[t] <=> t \in ToSet(activeList)
      /\ onDying[t] = FALSE
      /\ t \notin ToSet(dyingList) \cup dead \cup freed
  BY <1>1 DEF ListsConsistent, StateMatchesQueue
<1>3. [onDying EXCEPT ![t] = FALSE] = onDying
  BY <1>1, <1>2
<1>4. /\ Moves(t, new)
      /\ IsInjective(activeList') /\ activeCount' = Len(activeList')
      /\ IsInjective(dyingList') /\ dyingCount' = Len(dyingList')
  <2>1. CASE state[t] = new
    <3>1. UNCHANGED <<state, schedVars, pendsv>>
      BY <2>1 DEF SetState
    <3>2. /\ state' = [state EXCEPT ![t] = new]
          /\ onActive' = [onActive EXCEPT ![t] = (new = "READY")]
      <4>1. state' = state /\ onActive' = onActive
        BY <3>1 DEF schedVars
      <4>2. state = [state EXCEPT ![t] = new]
        BY <1>1, <2>1
      <4>3. onActive[t] = (new = "READY")
        BY <1>1, <1>2, <2>1
      <4>4. onActive = [onActive EXCEPT ![t] = (new = "READY")]
        BY <1>1, <4>3
      <4>5. QED
        BY <4>1, <4>2, <4>4
    <3>3. new # "DYING"
      BY <2>1
    <3>4. /\ activeList' = activeList /\ activeCount' = activeCount
          /\ dyingList' = dyingList /\ dyingCount' = dyingCount
          /\ onDying' = onDying /\ onActive' = onActive /\ pendsv' = pendsv
      BY <3>1 DEF schedVars
    <3>5. /\ IsInjective(activeList) /\ activeCount = Len(activeList)
          /\ IsInjective(dyingList) /\ dyingCount = Len(dyingList)
      BY DEF ListsConsistent
    <3>6. ToSet(activeList) = IF new = "READY" THEN ToSet(activeList) \cup {t}
                              ELSE ToSet(activeList) \ {t}
      BY <1>2, <2>1
    <3>7. onDying' = [onDying EXCEPT ![t] = (new = "DYING")]
      BY <1>3, <3>3, <3>4
    <3>8. QED
      BY <1>1, <3>2, <3>3, <3>4, <3>5, <3>6, <3>7 DEF Moves
  <2>2. CASE state[t] # new /\ new = "DYING"
    <3>1. state' = [state EXCEPT ![t] = new] /\ LeaveActive(t) /\ JoinDying(t)
          /\ pendsv' = (pendsv \/ switchReady)
      BY <2>2 DEF SetState, TurnDying, Kick
    <3>2. QED
      BY <1>1, <1>2, <2>2, <3>1, LeaveActiveFacts, JoinDyingFacts DEF Moves
  <2>3. CASE state[t] # new /\ new = "SLEEPING"
    <3>1. state' = [state EXCEPT ![t] = new] /\ LeaveActive(t)
          /\ pendsv' = (pendsv \/ switchReady)
          /\ UNCHANGED <<dyingList, onDying, dyingCount>>
      BY <2>3 DEF SetState, TurnSleeping, Kick
    <3>2. QED
      BY <1>1, <1>2, <1>3, <2>3, <3>1, LeaveActiveFacts DEF Moves, ListsConsistent
  <2>4. CASE state[t] # new /\ new = "READY"
    <3>1. state' = [state EXCEPT ![t] = new] /\ JoinActive(t)
          /\ UNCHANGED <<dyingList, onDying, dyingCount>>
      BY <2>4 DEF SetState, TurnReady
    <3>2. QED
      BY <1>1, <1>2, <1>3, <2>4, <3>1, JoinActiveFacts DEF Moves, ListsConsistent
  <2>5. QED
    BY <2>1, <2>2, <2>3, <2>4
<1>5. ListsConsistent'
  <2>1. ToSet(activeList') \cap ToSet(dyingList') = {}
    BY <1>2, <1>4 DEF Moves, ListsConsistent
  <2>2. ASSUME NEW u \in Tasks
        PROVE  /\ onActive'[u] <=> u \in ToSet(activeList')
               /\ onDying'[u] <=> u \in ToSet(dyingList') \cup dead' \cup freed'
    <3>1. /\ onActive[u] <=> u \in ToSet(activeList)
          /\ onDying[u] <=> u \in ToSet(dyingList) \cup dead \cup freed
      BY DEF ListsConsistent
    <3>2. CASE u = t
      BY <1>1, <1>2, <1>4, <3>2 DEF Moves
    <3>3. CASE u # t
      BY <1>1, <1>4, <3>1, <3>3 DEF Moves
    <3>4. QED
      BY <3>2, <3>3
  <2>3. QED
    BY <1>4, <2>1, <2>2 DEF Moves, ListsConsistent
<1>6. StateMatchesQueue'
  <2>1. ASSUME NEW u \in Tasks
        PROVE  /\ state'[u] \in {"READY", "RUNNING"} <=> u \in ToSet(activeList')
               /\ state'[u] = "DYING" <=> onDying'[u]
    <3>1. CASE u = t
      BY <1>1, <1>2, <1>4, <3>1 DEF Moves
    <3>2. CASE u # t
      BY <1>1, <1>4, <3>2 DEF Moves, StateMatchesQueue, Threads
    <3>3. QED
      BY <3>1, <3>2
  <2>2. QED
    BY <2>1 DEF StateMatchesQueue
<1>7. QED
  BY <1>4, <1>5, <1>6

\* kern_task_signal either leaves the queues alone or wakes a sleeping task.
LEMMA SignalFacts ==
  ASSUME NEW t \in Tasks, NEW sigs, Signal(t, sigs)
  PROVE  \/ UNCHANGED <<state, schedVars, pendsv>>
         \/ state[t] = "SLEEPING" /\ SetState(t, "READY")
BY DEF Signal, Wakes

-----------------------------------------------------------------------------
(* The first layer: Agree is inductive.                                    *)

\* In the state that the boot code hands over, everything agrees.
LEMMA AgreeInit == Init => Agree
<1>1. SUFFICES ASSUME Init PROVE Agree
  OBVIOUS
<1>2. TypeOK
  <2>1. pc \in [Threads \cup {Boot} -> TaskPCs \cup IdlePCs \cup BootPCs]
    BY <1>1, TaskAssumption DEF Init, Threads, TaskPCs, IdlePCs, BootPCs
  <2>2. /\ \A t \in Tasks : pc[t] \in TaskPCs
        /\ pc[IdleTask] \in IdlePCs /\ pc[Boot] \in BootPCs
    BY <1>1, TaskAssumption DEF Init, Threads, TaskPCs, IdlePCs, BootPCs
  <2>3. activeList \in Seq(Tasks) /\ dyingList \in Seq(Tasks)
    BY <1>1 DEF Init
  <2>4. Timer!TypeOK
    BY <1>1 DEF Init, Timer!Init, Timer!TypeOK
  <2>5. /\ current \in Threads \cup {Boot}
        /\ state \in [Threads -> States]
        /\ onActive \in [Tasks -> BOOLEAN] /\ onDying \in [Tasks -> BOOLEAN]
        /\ activeCount \in Nat /\ dyingCount \in Nat
        /\ tasks \in SUBSET Threads /\ dead \in SUBSET Tasks /\ freed \in SUBSET Tasks
        /\ switchReady \in BOOLEAN /\ pendsv \in BOOLEAN
    BY <1>1 DEF Init, Threads, States
  <2>6. /\ sigSet \in [Tasks -> SUBSET Signals] /\ sigMask \in [Tasks -> SUBSET Signals]
        /\ waitFor \in [Tasks -> SUBSET Signals] /\ refcount \in [Tasks -> 0 .. MaxRefs]
    BY <1>1, TaskAssumption DEF Init
  <2>7. QED
    BY <2>1, <2>2, <2>3, <2>4, <2>5, <2>6 DEF TypeOK
<1>3. PhasesAgree
  BY <1>1, TaskAssumption DEF Init, Timer!Init, PhasesAgree, Threads
<1>4. ListsConsistent /\ StateMatchesQueue
  BY <1>1, TaskAssumption, EmptyInjective
  DEF Init, ListsConsistent, StateMatchesQueue, Threads
<1>5. QED
  BY <1>2, <1>3, <1>4 DEF Agree

\* The queues still agree after a step that does not touch them.
LEMMA QueuesFrame ==
  ASSUME ListsConsistent, StateMatchesQueue, UNCHANGED <<state, schedVars, dead, freed>>
  PROVE  ListsConsistent' /\ StateMatchesQueue'
BY DEF schedVars, ListsConsistent, StateMatchesQueue

\* The calls of main().
LEMMA AgreeBooting == ASSUME Agree, Booting PROVE Agree'
<1> USE TaskAssumption
    DEF At, Runs, Goto, TypeOK, PhasesAgree, Threads, States, TaskPCs, IdlePCs, BootPCs,
        Timer!TypeOK, schedVars, sigVars, reapVars, timerVars
<1>1. ASSUME NEW t \in Tasks, Create(t) PROVE Agree'
  BY <1>1, QueuesFrame DEF Create, Agree
<1>2. ASSUME NEW t \in Tasks, StartTask(t) PROVE Agree'
  <2>1. SetState(t, "READY") /\ state[t] # "DYING" /\ UNCHANGED <<dead, freed>>
    BY <1>2 DEF StartTask, Agree
  <2>2. Moves(t, "READY") /\ ListsConsistent' /\ StateMatchesQueue'
    BY <2>1, SetStateFacts DEF Agree
  <2>3. QED
    BY <1>2, <2>1, <2>2 DEF StartTask, Agree, Moves
<1>3. CASE Ready
  BY <1>3, QueuesFrame DEF Ready, Agree
<1>4. CASE FirstSwitch
  BY <1>4, QueuesFrame DEF FirstSwitch, Kick, Agree
<1>5. QED
  BY <1>1, <1>2, <1>3, <1>4 DEF Booting

\* A signal wakes its task as a change of cur_state does, or changes nothing
\* that the queues know of.
LEMMA SignalKeepsQueues ==
  ASSUME Agree, NEW t \in Tasks, NEW sigs, Signal(t, sigs), UNCHANGED <<dead, freed>>
  PROVE  /\ \/ UNCHANGED <<state, schedVars, pendsv>>
            \/ state[t] = "SLEEPING" /\ Moves(t, "READY")
         /\ ListsConsistent' /\ StateMatchesQueue'
<1>1. CASE UNCHANGED <<state, schedVars, pendsv>>
  BY <1>1, QueuesFrame DEF Agree
<1>2. CASE state[t] = "SLEEPING" /\ SetState(t, "READY")
  BY <1>2, SetStateFacts DEF Agree
<1>3. QED
  BY <1>1, <1>2, SignalFacts

\* What kern_task_signal posts are signals.
LEMMA SignalTypes ==
  ASSUME sigSet \in [Tasks -> SUBSET Signals], NEW t \in Tasks,
         NEW sigs \in SUBSET Signals, Signal(t, sigs)
  PROVE  sigSet' \in [Tasks -> SUBSET Signals]
<1>1. sigSet' \in {sigSet, [sigSet EXCEPT ![t] = @ \cup sigs]}
  BY DEF Signal
<1>2. sigSet[t] \cup sigs \in SUBSET Signals
  OBVIOUS
<1>3. QED
  BY <1>1, <1>2

\* The calls of a task.
LEMMA AgreeTaskStep == ASSUME Agree, NEW t \in Tasks, TaskStep(t) PROVE Agree'
<1> USE TaskAssumption
    DEF At, Runs, Goto, TypeOK, PhasesAgree, Threads, States, TaskPCs, IdlePCs, BootPCs,
        Timer!TypeOK, schedVars, sigVars, reapVars, timerVars
<1>1. CASE SleepDel(t)
  BY <1>1, QueuesFrame DEF SleepDel, TimerDel, Timer!Del, Agree
<1>2. CASE SleepAdd(t)
  BY <1>2, QueuesFrame DEF SleepAdd, Timer!Add, Timer!Addable, Agree
<1>3. ASSUME NEW mask \in Masks, BeginWait(t, mask) PROVE Agree'
  BY <1>3, QueuesFrame DEF BeginWait, Agree
<1>4. CASE WaitDone(t)
  <2>1. SetState(t, "READY") /\ state[t] # "DYING" /\ UNCHANGED <<dead, freed>>
    BY <1>4 DEF WaitDone, Agree
  <2>2. Moves(t, "READY") /\ ListsConsistent' /\ StateMatchesQueue'
    BY <2>1, SetStateFacts DEF Agree
  <2>3. QED
    BY <1>4, <2>1, <2>2 DEF WaitDone, SigsLeft, Agree, Moves
<1>5. CASE WaitSleep(t)
  <2>1. SetState(t, "SLEEPING") /\ state[t] # "DYING" /\ UNCHANGED <<dead, freed>>
    BY <1>5 DEF WaitSleep, Agree
  <2>2. Moves(t, "SLEEPING") /\ ListsConsistent' /\ StateMatchesQueue'
    BY <2>1, SetStateFacts DEF Agree
  <2>3. QED
    BY <1>5, <2>1, <2>2 DEF WaitSleep, Agree, Moves
<1>6. ASSUME NEW change \in MaskChanges, SetSigmask(t, change[1], change[2]) PROVE Agree'
  BY <1>6, QueuesFrame DEF SetSigmask, Agree
<1>7. ASSUME NEW u \in Tasks, NEW sigs \in Masks, SignalTask(t, u, sigs) PROVE Agree'
  <2>1. Signal(u, sigs) /\ UNCHANGED <<dead, freed>>
    BY <1>7 DEF SignalTask
  <2>2. /\ \/ UNCHANGED <<state, schedVars, pendsv>>
           \/ state[u] = "SLEEPING" /\ Moves(u, "READY")
        /\ ListsConsistent' /\ StateMatchesQueue'
    BY <2>1, SignalKeepsQueues
  <2>3. sigSet' \in [Tasks -> SUBSET Signals]
    BY <2>1, SignalTypes DEF Agree
  <2>4. CASE UNCHANGED <<state, schedVars, pendsv>>
    BY <1>7, <2>2, <2>3, <2>4 DEF SignalTask, Agree
  <2>5. CASE state[u] = "SLEEPING" /\ Moves(u, "READY")
    BY <1>7, <2>2, <2>3, <2>5 DEF SignalTask, Agree, Moves
  <2>6. QED
    BY <2>2, <2>4, <2>5
<1>8. ASSUME NEW u \in Tasks, Lookup(t, u) PROVE Agree'
  BY <1>8, QueuesFrame DEF Lookup, Agree
<1>9. ASSUME NEW u \in Tasks, Release(t, u) PROVE Agree'
  BY <1>9, QueuesFrame DEF Release, Agree
<1>10. CASE ExitDel(t)
  BY <1>10, QueuesFrame DEF ExitDel, TimerDel, Timer!Del, Agree
<1>11. CASE ExitDying(t)
  <2>1. SetState(t, "DYING") /\ state[t] # "DYING" /\ UNCHANGED <<dead, freed>>
    BY <1>11 DEF ExitDying, Agree
  <2>2. Moves(t, "DYING") /\ ListsConsistent' /\ StateMatchesQueue'
    BY <2>1, SetStateFacts DEF Agree
  <2>3. QED
    BY <1>11, <2>1, <2>2 DEF ExitDying, Agree, Moves
<1>12. CASE Spin(t)
  BY <1>12, QueuesFrame DEF Spin, KickUnlocked, Agree
<1>13. QED
  BY <1>1, <1>2, <1>3, <1>4, <1>5, <1>6, <1>7, <1>8, <1>9, <1>10, <1>11, <1>12 DEF TaskStep
\* The idle loop.
LEMMA AgreeIdleStep == ASSUME Agree, IdleStep PROVE Agree'
<1> USE TaskAssumption
    DEF At, Runs, Goto, TypeOK, PhasesAgree, Threads, States, TaskPCs, IdlePCs, BootPCs,
        Timer!TypeOK, schedVars, sigVars, reapVars, timerVars
<1>1. CASE Reap
  <2>1. dyingList' = <<>> /\ dyingCount' = 0 /\ dead' = dead \cup ToSet(dyingList)
        /\ ToSet(dyingList) \subseteq Tasks
    BY <1>1, EmptyProps DEF Reap, Agree, ListsConsistent
  <2>2. ListsConsistent'
    BY <1>1, <2>1, EmptyInjective DEF Reap, Agree, ListsConsistent
  <2>3. StateMatchesQueue'
    BY <1>1 DEF Reap, Agree, StateMatchesQueue
  <2>4. TypeOK'
    BY <1>1, <2>1 DEF Reap, Agree
  <2>5. PhasesAgree'
    BY <1>1 DEF Reap, Agree
  <2>6. QED
    BY <2>2, <2>3, <2>4, <2>5 DEF Agree
<1>2. ASSUME NEW t \in Tasks, Cleanup(t) PROVE Agree'
  <2>1. ListsConsistent' /\ StateMatchesQueue'
    BY <1>2 DEF Cleanup, Agree, ListsConsistent, StateMatchesQueue
  <2>2. QED
    BY <1>2, <2>1 DEF Cleanup, Agree
<1>3. CASE CleanupDone
  BY <1>3, QueuesFrame DEF CleanupDone, KickUnlocked, Agree
<1>4. CASE NothingDying
  BY <1>4, QueuesFrame DEF NothingDying, Agree
<1>5. CASE StopTimer
  BY <1>5, QueuesFrame DEF StopTimer, Timer!Idle, Agree
<1>6. CASE WaitForInterrupt
  BY <1>6, QueuesFrame DEF WaitForInterrupt, Agree
<1>7. QED
  BY <1>1, <1>2, <1>3, <1>4, <1>5, <1>6 DEF IdleStep

\* kern_task_select keeps the members of the run queue and only exchanges READY
\* and RUNNING.
LEMMA SelectFacts ==
  ASSUME Agree, Select
  PROVE  /\ NextThread \in Threads
         /\ NextThread # IdleTask => NextThread \in ToSet(activeList) /\ dyingCount = 0
         /\ NextThread = IdleTask => dyingCount > 0 \/ activeList = <<>>
         /\ activeList' \in Seq(Tasks) /\ Len(activeList') = Len(activeList)
         /\ IsInjective(activeList') /\ ToSet(activeList') = ToSet(activeList)
         /\ Demoted \in [Threads -> States]
         /\ \A t \in Threads :
              \/ Demoted[t] = state[t] /\ (t = current /\ state[t] = "RUNNING" => dyingCount > 0)
              \/ Demoted[t] = "READY" /\ state[t] = "RUNNING" /\ t = current
<1>1. /\ activeList \in Seq(Tasks) /\ dyingCount \in Nat /\ IsInjective(activeList)
      /\ state \in [Threads -> States] /\ current \in Threads \cup {Boot}
  BY DEF Agree, TypeOK, ListsConsistent
<1>2. /\ Demoted \in [Threads -> States]
      /\ \A t \in Threads :
           \/ Demoted[t] = state[t] /\ (t = current /\ state[t] = "RUNNING" => dyingCount > 0)
           \/ Demoted[t] = "READY" /\ state[t] = "RUNNING" /\ t = current
  BY <1>1, TaskAssumption DEF Demoted, States, Threads
<1>3. CASE dyingCount > 0 \/ activeList = <<>>
  <2>1. NextThread = IdleTask
    BY <1>3 DEF NextThread
  <2>2. activeList' = activeList
    BY <2>1 DEF Select, Rotated
  <2>3. QED
    BY <1>1, <1>3, <1>2, <2>1, <2>2 DEF Threads
<1>4. CASE ~(dyingCount > 0 \/ activeList = <<>>)
  <2>1. NextThread = Head(activeList)
    BY <1>4 DEF NextThread
  <2>2. NextThread \in ToSet(activeList) /\ NextThread \in Tasks /\ dyingCount = 0
    BY <1>1, <1>4, <2>1, HeadProps
  <2>3. NextThread # IdleTask
    BY <2>2, TaskAssumption
  <2>4. activeList' = Append(RemoveFirst(activeList, NextThread), NextThread)
    BY <2>3 DEF Select, Rotated
  <2>5. /\ activeList' \in Seq(Tasks) /\ Len(activeList') = Len(activeList)
        /\ IsInjective(activeList') /\ ToSet(activeList') = ToSet(activeList)
    BY <1>1, <2>2, <2>4, RotateProps
  <2>6. QED
    BY <1>2, <2>2, <2>3, <2>5 DEF Threads
<1>5. QED
  BY <1>2, <1>3, <1>4
\* The exception handlers.
LEMMA AgreeHandler == ASSUME Agree, Handler \/ OtherInterrupt PROVE Agree'
<1> DEFINE Placed == /\ pc \in [Threads \cup {Boot} -> TaskPCs \cup IdlePCs \cup BootPCs]
                     /\ \A t \in Tasks : pc[t] \in TaskPCs
                     /\ pc[IdleTask] \in IdlePCs /\ pc[Boot] \in BootPCs
<1>w. ASSUME WakeCPU
      PROVE  Placed' /\ \A t \in Tasks \cup {Boot} : pc'[t] = pc[t]
  BY <1>w, TaskAssumption
  DEF WakeCPU, Agree, TypeOK, Threads, TaskPCs, IdlePCs, BootPCs
<1>1. CASE Select
  <2> DEFINE n == NextThread
  <2>1. /\ n \in Threads
        /\ activeList' \in Seq(Tasks) /\ Len(activeList') = Len(activeList)
        /\ IsInjective(activeList') /\ ToSet(activeList') = ToSet(activeList)
        /\ Demoted \in [Threads -> States]
        /\ n # IdleTask => n \in ToSet(activeList)
        /\ \A t \in Threads : \/ Demoted[t] = state[t]
                              \/ Demoted[t] = "READY" /\ state[t] = "RUNNING"
    BY <1>1, SelectFacts
  <2>2. /\ current' = n /\ state' = [Demoted EXCEPT ![n] = "RUNNING"]
        /\ pendsv' = FALSE /\ WakeCPU
        /\ UNCHANGED <<onActive, activeCount, dyingList, onDying, dyingCount, reapVars,
                       switchReady, sigVars, refcount, waitFor>>
        /\ IF activeCount > 1 THEN Timer!Start ELSE UNCHANGED timerVars
    BY <1>1 DEF Select
  <2> HIDE DEF n
  <2>3. ListsConsistent'
    BY <2>1, <2>2 DEF Agree, ListsConsistent, reapVars
  <2>4. ASSUME NEW t \in Tasks
        PROVE  /\ state'[t] \in {"READY", "RUNNING"} <=> state[t] \in {"READY", "RUNNING"}
               /\ state'[t] = "DYING" <=> state[t] = "DYING"
               /\ state'[t] = "IDLE" <=> state[t] = "IDLE"
    <3>1. t # IdleTask /\ t \in Threads
      BY TaskAssumption DEF Threads
    <3>2. CASE t = n
      BY <2>1, <2>2, <3>1, <3>2 DEF Agree, StateMatchesQueue
    <3>3. CASE t # n
      BY <2>1, <2>2, <3>1, <3>3
    <3>4. QED
      BY <3>2, <3>3
  <2>5. StateMatchesQueue'
    BY <2>1, <2>2, <2>4 DEF Agree, StateMatchesQueue
  <2>6. TypeOK'
    <3>1. state' \in [Threads -> States] /\ current' \in Threads \cup {Boot}
      BY <2>1, <2>2 DEF States
    <3>2. Timer!TypeOK'
      BY <2>2 DEF Agree, TypeOK, Timer!TypeOK, Timer!Start, timerVars
    <3>3. QED
      BY <1>w, <2>1, <2>2, <3>1, <3>2 DEF Agree, TypeOK, reapVars, sigVars
  <2>7. PhasesAgree'
    <3>1. UNCHANGED <<armed, active, busy>>
      BY <2>2 DEF Timer!Start, timerVars
    <3>2. state'[IdleTask] \in {"IDLE", "READY", "RUNNING"}
      BY <2>1, <2>2 DEF Agree, PhasesAgree, Threads
    <3>3. switchReady
      BY <1>1 DEF Select, Agree, PhasesAgree
    <3>4. QED
      BY <1>w, <2>2, <2>4, <3>1, <3>2, <3>3 DEF Agree, PhasesAgree
  <2>8. QED
    BY <2>3, <2>5, <2>6, <2>7 DEF Agree
<1>2. CASE Tick
  <2>1. ListsConsistent' /\ StateMatchesQueue'
    BY <1>2, QueuesFrame DEF Tick, Agree, reapVars
  <2>2. TypeOK'
    BY <1>2, <1>w DEF Tick, Timer!Tick, Agree, TypeOK, Timer!TypeOK, schedVars, sigVars, reapVars
  <2>3. PhasesAgree'
    BY <1>2, <1>w DEF Tick, Timer!Tick, Agree, PhasesAgree
  <2>4. QED
    BY <2>1, <2>2, <2>3 DEF Agree
<1>3. ASSUME NEW t \in Tasks, TimerFires(t) PROVE Agree'
  <2>1. Signal(t, {KSLEEP}) /\ UNCHANGED <<dead, freed>>
    BY <1>3 DEF TimerFires, reapVars
  <2>2. /\ \/ UNCHANGED <<state, schedVars, pendsv>>
           \/ state[t] = "SLEEPING" /\ Moves(t, "READY")
        /\ ListsConsistent' /\ StateMatchesQueue'
    BY <2>1, SignalKeepsQueues
  <2>3. sigSet' \in [Tasks -> SUBSET Signals]
    BY <2>1, SignalTypes, TaskAssumption DEF Agree, TypeOK
  <2>4. Timer!TypeOK' /\ UNCHANGED <<armed, active, busy>>
    BY <1>3 DEF TimerFires, Timer!Callback, Agree, TypeOK, Timer!TypeOK
  <2>5. CASE UNCHANGED <<state, schedVars, pendsv>>
    BY <1>3, <2>2, <2>3, <2>4, <2>5
    DEF TimerFires, Agree, TypeOK, PhasesAgree, schedVars, sigVars, reapVars
  <2>6. CASE state[t] = "SLEEPING" /\ Moves(t, "READY")
    <3>1. TypeOK'
      BY <1>3, <2>2, <2>3, <2>4, <2>6
      DEF TimerFires, Agree, TypeOK, Moves, States, Threads, sigVars, reapVars
    <3>2. PhasesAgree'
      BY <1>3, <2>4, <2>6, TaskAssumption
      DEF TimerFires, Agree, TypeOK, PhasesAgree, Moves, Threads, sigVars, reapVars
    <3>3. QED
      BY <2>2, <3>1, <3>2 DEF Agree
  <2>7. QED
    BY <2>2, <2>5, <2>6
<1>4. CASE TickEnd
  <2>1. ListsConsistent' /\ StateMatchesQueue'
    BY <1>4, QueuesFrame DEF TickEnd, Agree, reapVars
  <2>2. TypeOK' /\ PhasesAgree'
    BY <1>4 DEF TickEnd, Timer!TickDone, Kick, Agree, TypeOK, PhasesAgree, Timer!TypeOK,
                schedVars, sigVars, reapVars
  <2>3. QED
    BY <2>1, <2>2 DEF Agree
<1>5. CASE OtherInterrupt
  <2>1. ListsConsistent' /\ StateMatchesQueue'
    BY <1>5, QueuesFrame DEF OtherInterrupt, Agree, reapVars
  <2>2. TypeOK' /\ PhasesAgree'
    BY <1>5, <1>w DEF OtherInterrupt, Agree, TypeOK, PhasesAgree, Timer!TypeOK,
                      schedVars, sigVars, reapVars, timerVars
  <2>3. QED
    BY <2>1, <2>2 DEF Agree
<1>6. QED
  BY <1>1, <1>2, <1>3, <1>4, <1>5 DEF Handler

\* Every step keeps the first layer.
LEMMA AgreeStep == Agree /\ [Next]_vars => Agree'
<1>1. ASSUME Agree, UNCHANGED vars PROVE Agree'
  BY <1>1, QueuesFrame
  DEF vars, Agree, TypeOK, PhasesAgree, Timer!TypeOK, schedVars, sigVars, reapVars, timerVars
<1>2. QED
  BY <1>1, AgreeBooting, AgreeTaskStep, AgreeIdleStep, AgreeHandler DEF Next

\* Agree holds in every state the kernel reaches.
THEOREM AgreeAlways == Spec => []Agree
BY AgreeInit, AgreeStep, PTL DEF Spec

\* Every variable keeps its type, for any number of tasks.
THEOREM TypeCorrect == Spec => []TypeOK
BY AgreeAlways, PTL DEF Agree

-----------------------------------------------------------------------------
(* The second layer.  For it, most steps are alike.                        *)

\* A step that changes no task's standing with the scheduler.
Quiet ==
  /\ UNCHANGED <<current, state, schedVars, reapVars>>
  /\ pendsv => pendsv'
  /\ pc'[IdleTask] = "clean" \/ pc[IdleTask] # "clean" \/ pendsv'
  /\ \A t \in Tasks : pc'[t] = "new" <=> pc[t] = "new"

\* A step that changes the cur_state of task t to new.
Moving(t, new) ==
  /\ Moves(t, new)
  /\ state[t] # "DYING" /\ pc[t] # "new"
  /\ new = "DYING" => current = t
  /\ UNCHANGED <<current, reapVars, switchReady>>
  /\ pc'[IdleTask] = pc[IdleTask]
  /\ \A u \in Tasks : pc'[u] = "new" <=> pc[u] = "new"

\* Every step creates a task, or changes one's cur_state, or is one of the three
\* that matter to all of them, or is quiet.
LEMMA StepKinds ==
  ASSUME Agree, [Next]_vars
  PROVE  \/ Quiet
         \/ \E t \in Tasks : Create(t)
         \/ \E t \in Tasks, new \in {"READY", "SLEEPING", "DYING"} : Moving(t, new)
         \/ Reap
         \/ \E t \in Tasks : Cleanup(t)
         \/ Select
<1> DEFINE Kinds == \/ Quiet
                    \/ \E t \in Tasks, new \in {"READY", "SLEEPING", "DYING"} : Moving(t, new)
<1>t. /\ pc \in [Threads \cup {Boot} -> TaskPCs \cup IdlePCs \cup BootPCs]
      /\ pc[IdleTask] \in IdlePCs
      /\ IdleTask \notin Tasks /\ Boot \notin Tasks /\ IdleTask # Boot
  BY TaskAssumption DEF Agree, TypeOK
<1>s. ASSUME NEW t \in Tasks, NEW new \in {"READY", "SLEEPING", "DYING"},
             SetState(t, new), state[t] # "DYING", UNCHANGED <<dead, freed>>
      PROVE  Moves(t, new)
  BY <1>s, SetStateFacts DEF Agree
<1> USE DEF Threads
<1>1. CASE UNCHANGED vars
  BY <1>1 DEF vars, Quiet
<1>2. CASE Ready \/ FirstSwitch
  BY <1>2, <1>t DEF Ready, FirstSwitch, Goto, Kick, Quiet
<1>3. ASSUME NEW t \in Tasks, StartTask(t) PROVE Kinds
  <2>1. Moves(t, "READY") /\ state[t] # "DYING" /\ pc[t] # "new"
    BY <1>3, <1>s DEF StartTask, At, Agree, PhasesAgree, reapVars
  <2>2. Moving(t, "READY")
    BY <1>3, <1>t, <2>1 DEF StartTask, At, Goto, Moving
  <2>3. QED
    BY <2>2
<1>4. ASSUME NEW t \in Tasks, TaskStep(t) PROVE Kinds
  <2>1. CASE \/ SleepDel(t) \/ SleepAdd(t) \/ ExitDel(t) \/ Spin(t)
             \/ \E mask \in Masks : BeginWait(t, mask)
             \/ \E change \in MaskChanges : SetSigmask(t, change[1], change[2])
             \/ \E u \in Tasks : Lookup(t, u) \/ Release(t, u)
    <3>1. Quiet
      BY <2>1, <1>t
      DEF SleepDel, SleepAdd, ExitDel, Spin, BeginWait, SetSigmask, Lookup, Release,
          At, Goto, KickUnlocked, Quiet
    <3>2. QED
      BY <3>1
  <2>2. CASE WaitDone(t)
    <3>1. Moves(t, "READY") /\ state[t] # "DYING" /\ pc[t] # "new"
      BY <2>2, <1>s DEF WaitDone, At, Agree, PhasesAgree, reapVars
    <3>2. Moving(t, "READY")
      BY <2>2, <1>t, <3>1 DEF WaitDone, At, Goto, Moving
    <3>3. QED
      BY <3>2
  <2>3. CASE WaitSleep(t)
    <3>1. Moves(t, "SLEEPING") /\ state[t] # "DYING" /\ pc[t] # "new"
      BY <2>3, <1>s DEF WaitSleep, At, Agree, PhasesAgree, reapVars
    <3>2. Moving(t, "SLEEPING")
      BY <2>3, <3>1 DEF WaitSleep, Moving
    <3>3. QED
      BY <3>2
  <2>4. CASE ExitDying(t)
    <3>1. Moves(t, "DYING") /\ state[t] # "DYING" /\ pc[t] # "new" /\ current = t
      BY <2>4, <1>s DEF ExitDying, At, Runs, Agree, PhasesAgree, reapVars
    <3>2. Moving(t, "DYING")
      BY <2>4, <1>t, <3>1 DEF ExitDying, At, Goto, Moving
    <3>3. QED
      BY <3>2
  <2>5. ASSUME NEW u \in Tasks, NEW sigs \in Masks, SignalTask(t, u, sigs) PROVE Kinds
    <3>1. \/ UNCHANGED <<state, schedVars, pendsv>>
          \/ state[u] = "SLEEPING" /\ Moves(u, "READY")
      BY <2>5, SignalKeepsQueues DEF SignalTask, reapVars
    <3>2. CASE UNCHANGED <<state, schedVars, pendsv>>
      BY <2>5, <3>2 DEF SignalTask, Quiet
    <3>3. CASE state[u] = "SLEEPING" /\ Moves(u, "READY")
      <4>1. Moving(u, "READY")
        BY <2>5, <3>3 DEF SignalTask, Moving, Agree, PhasesAgree
      <4>2. QED
        BY <4>1
    <3>4. QED
      BY <3>1, <3>2, <3>3
  <2>6. QED
    BY <1>4, <2>1, <2>2, <2>3, <2>4, <2>5 DEF TaskStep
<1>5. CASE CleanupDone \/ NothingDying \/ StopTimer \/ WaitForInterrupt
  BY <1>5, <1>t
  DEF CleanupDone, NothingDying, StopTimer, WaitForInterrupt, At, Goto, KickUnlocked, Quiet
<1>6. CASE Tick \/ OtherInterrupt
  BY <1>6, <1>t DEF Tick, OtherInterrupt, WakeCPU, Quiet
<1>7. ASSUME NEW t \in Tasks, TimerFires(t) PROVE Kinds
  <2>1. \/ UNCHANGED <<state, schedVars, pendsv>>
        \/ state[t] = "SLEEPING" /\ Moves(t, "READY")
    BY <1>7, SignalKeepsQueues DEF TimerFires, reapVars
  <2>2. CASE UNCHANGED <<state, schedVars, pendsv>>
    BY <1>7, <2>2 DEF TimerFires, Quiet
  <2>3. CASE state[t] = "SLEEPING" /\ Moves(t, "READY")
    <3>1. Moving(t, "READY")
      BY <1>7, <2>3 DEF TimerFires, Moving, Agree, PhasesAgree
    <3>2. QED
      BY <3>1
  <2>4. QED
    BY <2>1, <2>2, <2>3
<1>8. CASE TickEnd
  BY <1>8 DEF TickEnd, Kick, Quiet
<1>9. QED
  BY <1>1, <1>2, <1>3, <1>4, <1>5, <1>6, <1>7, <1>8 DEF Next, Booting, IdleStep, Handler
\* A task is never in two of the places of its life, nor in one of them twice.
LEMMA ReapedOnceStep == Agree /\ ReapedOnce /\ [Next]_vars => ReapedOnce'
<1> SUFFICES ASSUME Agree, ReapedOnce, [Next]_vars PROVE ReapedOnce'
  OBVIOUS
<1>t. /\ IdleTask \notin Tasks /\ dead \subseteq Tasks /\ freed \subseteq Tasks
      /\ ToSet(activeList) \subseteq Tasks /\ ToSet(dyingList) \subseteq Tasks
      /\ ToSet(activeList) \cap ToSet(dyingList) = {}
      /\ pc \in [Threads \cup {Boot} -> TaskPCs \cup IdlePCs \cup BootPCs]
      /\ Boot \notin Tasks
  BY TaskAssumption, EmptyProps DEF Agree, TypeOK, ListsConsistent
<1>1. CASE Quiet
  BY <1>1 DEF Quiet, ReapedOnce, schedVars, reapVars
<1>2. ASSUME NEW t \in Tasks, Create(t) PROVE ReapedOnce'
  <2>1. /\ tasks' = tasks \cup {t} /\ UNCHANGED <<dead, freed, activeList, dyingList>>
        /\ pc[t] = "new" /\ \A u \in Tasks : pc'[u] = "new" <=> pc[u] = "new" /\ u # t
    BY <1>2, <1>t DEF Create, Goto, schedVars, Threads
  <2>2. t \notin tasks \cup dead \cup freed
    BY <2>1, <1>t DEF ReapedOnce
  <2>3. QED
    BY <2>1, <2>2, <1>t DEF ReapedOnce
<1>3. ASSUME NEW t \in Tasks, NEW new \in {"READY", "SLEEPING", "DYING"}, Moving(t, new)
      PROVE  ReapedOnce'
  <2>1. t \in tasks
    <3>1. t \notin dead \cup freed
      BY <1>3 DEF Moving, Agree, ListsConsistent, StateMatchesQueue
    <3>2. QED
      BY <1>3, <3>1 DEF Moving, ReapedOnce
  <2>2. /\ ToSet(activeList') \subseteq ToSet(activeList) \cup {t}
        /\ ToSet(dyingList') \subseteq ToSet(dyingList) \cup {t}
    BY <1>3 DEF Moving, Moves
  <2>3. UNCHANGED <<tasks, dead, freed>>
    BY <1>3 DEF Moving, reapVars
  <2>4. {u \in Tasks : pc'[u] # "new"} = {u \in Tasks : pc[u] # "new"}
    BY <1>3 DEF Moving
  <2>5. QED
    BY <2>1, <2>2, <2>3, <2>4 DEF ReapedOnce
<1>4. CASE Reap
  <2>1. /\ tasks' = tasks \ ToSet(dyingList) /\ dead' = dead \cup ToSet(dyingList)
        /\ dyingList' = <<>> /\ UNCHANGED <<freed, activeList>>
        /\ \A u \in Tasks : pc'[u] = pc[u]
    BY <1>4, <1>t DEF Reap, Goto, Threads
  <2>2. QED
    BY <2>1, <1>t, EmptyInjective DEF ReapedOnce
<1>5. ASSUME NEW t \in Tasks, Cleanup(t) PROVE ReapedOnce'
  BY <1>5 DEF Cleanup, ReapedOnce, schedVars
<1>6. CASE Select
  <2>1. ToSet(activeList') = ToSet(activeList)
    BY <1>6, SelectFacts
  <2>2. UNCHANGED <<tasks, dead, freed, dyingList>> /\ \A u \in Tasks : pc'[u] = pc[u]
    BY <1>6, <1>t DEF Select, WakeCPU, reapVars
  <2>3. QED
    BY <2>1, <2>2 DEF ReapedOnce
<1>7. QED
  BY <1>1, <1>2, <1>3, <1>4, <1>5, <1>6, StepKinds

\* While a task is dying, the CPU does not go to a task that is not.
LEMMA DyingStopsTheRestStep ==
  Agree /\ DyingStopsTheRest /\ [Next]_vars => DyingStopsTheRest'
<1> SUFFICES ASSUME Agree, DyingStopsTheRest, [Next]_vars PROVE DyingStopsTheRest'
  OBVIOUS
<1>t. dyingList \in Seq(Tasks) /\ dyingCount = Len(dyingList)
  BY DEF Agree, TypeOK, ListsConsistent
<1>1. CASE Quiet \/ \E t \in Tasks : Create(t) \/ Cleanup(t)
  BY <1>1 DEF Quiet, Create, Cleanup, DyingStopsTheRest, schedVars
<1>2. ASSUME NEW t \in Tasks, NEW new \in {"READY", "SLEEPING", "DYING"}, Moving(t, new)
      PROVE  DyingStopsTheRest'
  <2>1. /\ current' = current /\ dyingList' \in Seq(Tasks)
        /\ ToSet(dyingList') = IF new = "DYING" THEN ToSet(dyingList) \cup {t}
                               ELSE ToSet(dyingList)
        /\ new = "DYING" => current = t
    BY <1>2 DEF Moving, Moves
  <2>2. dyingList' # <<>> => new = "DYING" \/ dyingList # <<>>
    BY <2>1, <1>t, EmptyProps
  <2>3. QED
    BY <2>1, <2>2 DEF DyingStopsTheRest
<1>3. CASE Reap
  BY <1>3 DEF Reap, DyingStopsTheRest
<1>4. CASE Select
  <2>1. current' = NextThread /\ dyingList' = dyingList
    BY <1>4 DEF Select
  <2>2. dyingList # <<>> => dyingCount > 0
    BY <1>t, EmptyProps
  <2>3. QED
    BY <2>1, <2>2 DEF NextThread, DyingStopsTheRest
<1>5. QED
  BY <1>1, <1>2, <1>3, <1>4, StepKinds

\* No thread that lost the CPU stays RUNNING.
LEMMA OneRunningStep ==
  Agree /\ DyingStopsTheRest /\ OneRunning /\ [Next]_vars => OneRunning'
<1> SUFFICES ASSUME Agree, DyingStopsTheRest, OneRunning, [Next]_vars PROVE OneRunning'
  OBVIOUS
<1>t. state \in [Threads -> States] /\ IdleTask \notin Tasks
  BY TaskAssumption DEF Agree, TypeOK
<1>1. CASE Quiet \/ Reap \/ \E t \in Tasks : Create(t) \/ Cleanup(t)
  BY <1>1 DEF Quiet, Create, Reap, Cleanup, OneRunning
<1>2. ASSUME NEW t \in Tasks, NEW new \in {"READY", "SLEEPING", "DYING"}, Moving(t, new)
      PROVE  OneRunning'
  BY <1>2, <1>t DEF Moving, Moves, OneRunning, Threads
<1>3. CASE Select
  <2> SUFFICES ASSUME NEW t \in Threads, state'[t] = "RUNNING", t # NextThread
               PROVE  FALSE
    BY <1>3 DEF Select, OneRunning
  <2>1. /\ Demoted \in [Threads -> States] /\ state' = [Demoted EXCEPT ![NextThread] = "RUNNING"]
        /\ \/ Demoted[t] = state[t] /\ (t = current /\ state[t] = "RUNNING" => dyingCount > 0)
           \/ Demoted[t] = "READY" /\ state[t] = "RUNNING" /\ t = current
    BY <1>3, SelectFacts DEF Select
  <2>2. state[t] = "RUNNING" /\ t = current /\ dyingCount > 0
    BY <2>1 DEF OneRunning
  <2>3. NextThread = IdleTask
    BY <2>2 DEF NextThread
  <2>4. dyingList # <<>>
    <3>1. dyingList \in Seq(Tasks) /\ dyingCount = Len(dyingList)
      BY DEF Agree, TypeOK, ListsConsistent
    <3>2. QED
      BY <2>2, <3>1, EmptyProps
  <2>5. t \in ToSet(dyingList) /\ t \in Tasks
    BY <2>2, <2>3, <2>4 DEF DyingStopsTheRest, Threads
  <2>6. state[t] = "DYING"
    BY <2>5 DEF Agree, ListsConsistent, StateMatchesQueue
  <2>7. QED
    BY <2>2, <2>6
<1>4. QED
  BY <1>1, <1>2, <1>3, StepKinds

\* A task that leaves the run queue asks for a switch in the same step.
LEMMA CurrentIsActiveStep == Agree /\ CurrentIsActive /\ [Next]_vars => CurrentIsActive'
<1> SUFFICES ASSUME Agree, CurrentIsActive, [Next]_vars PROVE CurrentIsActive'
  OBVIOUS
<1>t. /\ onActive \in [Tasks -> BOOLEAN] /\ Boot \notin Tasks /\ IdleTask \notin Tasks
      /\ current # Boot => switchReady
  BY TaskAssumption DEF Agree, TypeOK, PhasesAgree
<1>1. CASE Quiet \/ Reap \/ \E t \in Tasks : Create(t) \/ Cleanup(t)
  BY <1>1 DEF Quiet, Create, Reap, Cleanup, CurrentIsActive, schedVars
<1>2. ASSUME NEW t \in Tasks, NEW new \in {"READY", "SLEEPING", "DYING"}, Moving(t, new)
      PROVE  CurrentIsActive'
  BY <1>2, <1>t DEF Moving, Moves, CurrentIsActive
<1>3. CASE Select
  <2>1. current' = NextThread /\ onActive' = onActive
    BY <1>3 DEF Select
  <2>2. NextThread \in Tasks => NextThread \in ToSet(activeList)
    BY <1>3, <1>t, SelectFacts
  <2>3. QED
    BY <2>1, <2>2 DEF Agree, ListsConsistent, CurrentIsActive
<1>4. QED
  BY <1>1, <1>2, <1>3, StepKinds

\* A task that joins the run queue takes the CPU from the idle task.
LEMMA IdleOnlyStep ==
  Agree /\ IdleOnlyWhenNothingReady /\ [Next]_vars => IdleOnlyWhenNothingReady'
<1> SUFFICES ASSUME Agree, IdleOnlyWhenNothingReady, [Next]_vars
             PROVE  IdleOnlyWhenNothingReady'
  OBVIOUS
<1>t. /\ activeList \in Seq(Tasks) /\ dyingList \in Seq(Tasks)
      /\ dyingCount = Len(dyingList) /\ onActive \in [Tasks -> BOOLEAN]
      /\ Boot # IdleTask /\ (current # Boot => switchReady)
  BY TaskAssumption DEF Agree, TypeOK, PhasesAgree, ListsConsistent
<1>e. ASSUME NEW q \in Seq(Tasks)
      PROVE  /\ Len(q) \in Nat
             /\ q = <<>> <=> ToSet(q) = {}
             /\ q = <<>> <=> Len(q) = 0
  BY EmptyProps
<1>1. CASE Quiet
  BY <1>1 DEF Quiet, IdleOnlyWhenNothingReady, schedVars
<1>2. ASSUME NEW t \in Tasks, Create(t) PROVE IdleOnlyWhenNothingReady'
  BY <1>2, <1>t DEF Create, At, Runs, IdleOnlyWhenNothingReady
<1>3. ASSUME NEW t \in Tasks, NEW new \in {"READY", "SLEEPING", "DYING"}, Moving(t, new),
             current' = IdleTask, ~pendsv', dyingCount' = 0, pc'[IdleTask] # "clean"
      PROVE  activeList' = <<>>
  <2>1. /\ current = IdleTask /\ ~pendsv /\ pc[IdleTask] # "clean" /\ switchReady
        /\ onActive'[t] = onActive[t]
    BY <1>3, <1>t DEF Moving, Moves
  <2>2. dyingCount = 0
    <3>1. dyingList' \in Seq(Tasks) /\ Len(dyingList') = 0
      <4>1. ListsConsistent'
        BY AgreeStep DEF Agree
      <4>2. QED
        BY <1>3, <4>1 DEF Moving, Moves, ListsConsistent
    <3>2. ToSet(dyingList) \subseteq ToSet(dyingList')
      BY <1>3 DEF Moving, Moves
    <3>3. QED
      <4>1. ToSet(dyingList') = {}
        BY <3>1, <1>e
      <4>2. ToSet(dyingList) = {}
        BY <3>2, <4>1
      <4>3. QED
        BY <1>t, <4>2, <1>e
  <2>3. activeList = <<>>
    BY <2>1, <2>2 DEF IdleOnlyWhenNothingReady
  <2>4. ~onActive[t]
    BY <1>t, <2>3, EmptyProps DEF Agree, ListsConsistent
  <2>5. activeList' \in Seq(Tasks) /\ ToSet(activeList') \subseteq ToSet(activeList) 
    BY <1>3, <1>t, <2>1, <2>4 DEF Moving, Moves
  <2>6. QED
    <3>1. ToSet(activeList') = {}
      BY <1>t, <2>3, <2>5, <1>e
    <3>2. QED
      BY <2>5, <3>1, <1>e
<1>4. CASE Reap
  BY <1>4 DEF Reap, At, Runs, Goto, IdleOnlyWhenNothingReady, Agree, TypeOK, Threads
<1>5. ASSUME NEW t \in Tasks, Cleanup(t) PROVE IdleOnlyWhenNothingReady'
  BY <1>5 DEF Cleanup, At, IdleOnlyWhenNothingReady
<1>6. CASE Select
  <2>1. current' = NextThread /\ dyingCount' = dyingCount
    BY <1>6 DEF Select
  <2>2. /\ activeList' \in Seq(Tasks) /\ Len(activeList') = Len(activeList)
        /\ NextThread = IdleTask => dyingCount > 0 \/ activeList = <<>>
    BY <1>6, SelectFacts
  <2>3. QED
    <3>1. activeList = <<>> => activeList' = <<>>
      BY <1>t, <2>2, <1>e
    <3>2. dyingCount \in Nat
      BY <1>t, <1>e
    <3>3. QED
      BY <2>1, <2>2, <3>1, <3>2 DEF IdleOnlyWhenNothingReady
<1>7. QED
  BY <1>1, <1>2, <1>3, <1>4, <1>5, <1>6, StepKinds DEF IdleOnlyWhenNothingReady
\* A freed task is one that spins in kern_task_exit without the CPU.
LEMMA NoUseAfterFreeStep == Agree /\ NoUseAfterFree /\ [Next]_vars => NoUseAfterFree'
<1> SUFFICES ASSUME Agree, NoUseAfterFree, [Next]_vars PROVE NoUseAfterFree'
  OBVIOUS
<1>a. Agree'
  BY AgreeStep
<1>t. IdleTask \notin Tasks
  BY TaskAssumption
<1> SUFFICES ASSUME NEW t \in Tasks, t \in dead' \cup freed' PROVE current' # t
  <2>1. \A t \in Tasks : t \in dead' \cup freed' => pc'[t] = "spin"
    BY <1>a DEF Agree, ListsConsistent, StateMatchesQueue, PhasesAgree
  <2>2. \A t \in Tasks : pc'[t] \in {"exit", "spin"} => t \notin armed' \cup active'
    BY <1>a DEF Agree, PhasesAgree
  <2>3. QED
    BY <2>1, <2>2 DEF NoUseAfterFree
<1>1. CASE Quiet
  BY <1>1 DEF Quiet, NoUseAfterFree, reapVars
<1>2. ASSUME NEW u \in Tasks, Create(u) PROVE current' # t
  BY <1>2 DEF Create, NoUseAfterFree
<1>3. ASSUME NEW u \in Tasks, NEW new \in {"READY", "SLEEPING", "DYING"}, Moving(u, new)
      PROVE  current' # t
  BY <1>3 DEF Moving, NoUseAfterFree, reapVars
<1>4. CASE Reap \/ \E u \in Tasks : Cleanup(u)
  BY <1>4, <1>t DEF Reap, Cleanup, At, Runs
<1>5. CASE Select
  <2>1. NextThread # IdleTask => NextThread \in ToSet(activeList)
    BY <1>5, SelectFacts
  <2>2. onDying[t]
    BY <1>5 DEF Select, reapVars, Agree, ListsConsistent
  <2>3. t \notin ToSet(activeList)
    BY <2>2 DEF Agree, StateMatchesQueue
  <2>4. QED
    BY <1>5, <1>t, <2>1, <2>3 DEF Select
<1>6. QED
  BY <1>1, <1>2, <1>3, <1>4, <1>5, StepKinds

\* A signal wakes a sleeping task or is not one of those it waits for: only the
\* task's own locked section puts it to sleep, having looked at the signals.
LEMMA NoLostWakeupStep == Agree /\ NoLostWakeup /\ [Next]_vars => NoLostWakeup'
<1> SUFFICES ASSUME Agree, NoLostWakeup, [Next]_vars,
                    NEW t \in Tasks, state'[t] = "SLEEPING"
             PROVE  pc'[t] = "wait" /\ sigSet'[t] \cap waitFor'[t] \cap sigMask'[t] = {}
  BY DEF NoLostWakeup
<1> DEFINE Waits == pc[t] = "wait" /\ sigSet[t] \cap waitFor[t] \cap sigMask[t] = {}
           Kept == UNCHANGED <<state, sigSet, sigMask, waitFor>> /\ pc'[t] = pc[t]
<1>t. /\ pc \in [Threads \cup {Boot} -> TaskPCs \cup IdlePCs \cup BootPCs]
      /\ state \in [Threads -> States]
      /\ sigSet \in [Tasks -> SUBSET Signals] /\ sigMask \in [Tasks -> SUBSET Signals]
      /\ waitFor \in [Tasks -> SUBSET Signals]
      /\ IdleTask \notin Tasks /\ Boot \notin Tasks
      /\ (state[t] = "SLEEPING" => Waits)
  BY TaskAssumption DEF Agree, TypeOK, NoLostWakeup
<1>k. Kept => Waits'
  BY <1>t
<1>g. ASSUME NEW u \in Tasks, NEW sigs, Signal(u, sigs), UNCHANGED <<dead, freed>>,
             UNCHANGED <<sigMask, waitFor, pc>>
      PROVE  Waits'
  <2>1. CASE u # t
    <3>1. sigSet'[t] = sigSet[t]
      BY <1>g, <1>t, <2>1 DEF Signal
    <3>2. state'[t] = state[t]
      <4>1. UNCHANGED state \/ Moves(u, "READY")
        BY <1>g, SignalKeepsQueues
      <4>2. QED
        BY <4>1, <1>t, <2>1 DEF Moves, Threads
    <3>3. QED
      BY <1>g, <1>t, <3>1, <3>2
  <2>2. CASE u = t
    <3>1. UNCHANGED state \/ Moves(t, "READY")
      BY <1>g, <2>2, SignalKeepsQueues
    <3>2. state[t] = "SLEEPING" /\ UNCHANGED state
      BY <1>t, <3>1 DEF Moves, Threads
    <3>3. (sigSet[t] \cup sigs) \cap sigMask[t] = {}
      <4>1. CASE Wakes(t, sigs)
        <5>1. state' = [state EXCEPT ![t] = "READY"]
          BY <1>g, <2>2, <3>2, <4>1 DEF Signal, SetState
        <5>2. QED
          BY <1>t, <5>1 DEF Threads
      <4>2. QED
        BY <3>2, <4>1 DEF Wakes
    <3>4. sigSet'[t] = sigSet[t] \cup sigs
      BY <1>g, <1>t, <2>2, <3>2 DEF Signal
    <3>5. QED
      BY <1>g, <1>t, <3>2, <3>3, <3>4
  <2>3. QED
    BY <2>1, <2>2
<1>1. CASE UNCHANGED vars
  BY <1>1, <1>k DEF vars, sigVars
<1>2. ASSUME NEW u \in Tasks, Create(u) PROVE Waits'
  <2>1. u # t
    BY <1>2, <1>t DEF Create
  <2>2. QED
    BY <1>2, <1>k, <1>t, <2>1 DEF Create, Goto, sigVars, Threads
<1>3. ASSUME NEW u \in Tasks, StartTask(u) PROVE Waits'
  <2>1. state' = [state EXCEPT ![u] = "READY"]
    BY <1>3, SetStateFacts DEF StartTask, At, Moves, Agree, PhasesAgree, reapVars
  <2>2. u # t
    BY <1>t, <2>1 DEF Threads
  <2>3. QED
    BY <1>3, <1>t, <2>1, <2>2 DEF StartTask, Goto, sigVars, Threads
<1>4. CASE Ready \/ FirstSwitch
  BY <1>4, <1>k, <1>t DEF Ready, FirstSwitch, Goto, sigVars, Threads
<1>5. ASSUME NEW u \in Tasks, TaskStep(u) PROVE Waits'
  <2>1. CASE \/ SleepDel(u) \/ SleepAdd(u) \/ ExitDel(u) \/ Spin(u)
             \/ \E mask \in Masks : BeginWait(u, mask)
             \/ \E change \in MaskChanges : SetSigmask(u, change[1], change[2])
             \/ \E v \in Tasks : Lookup(u, v) \/ Release(u, v)
    <3>1. UNCHANGED <<state, sigSet>> /\ (pc[u] # "wait" \/ Kept)
      BY <2>1, <1>t
      DEF SleepDel, SleepAdd, ExitDel, Spin, BeginWait, SetSigmask, Lookup, Release,
          At, Goto, sigVars
    <3>2. u # t \/ Kept
      BY <3>1, <1>t
    <3>3. CASE u # t
      <4>1. pc'[t] = pc[t] /\ sigMask'[t] = sigMask[t] /\ waitFor'[t] = waitFor[t]
        BY <2>1, <1>t, <3>3
        DEF SleepDel, SleepAdd, ExitDel, Spin, BeginWait, SetSigmask, Lookup, Release,
            At, Goto, sigVars, Threads
      <4>2. QED
        BY <3>1, <4>1, <1>t
    <3>4. QED
      BY <3>2, <3>3, <1>k
  <2>2. CASE WaitDone(u)
    <3>1. state' = [state EXCEPT ![u] = "READY"]
      BY <2>2, SetStateFacts DEF WaitDone, At, Moves, Agree, PhasesAgree, reapVars
    <3>2. u # t
      BY <1>t, <3>1 DEF Threads
    <3>3. QED
      BY <2>2, <1>t, <3>1, <3>2 DEF WaitDone, Goto, Threads
  <2>3. CASE WaitSleep(u)
    <3>1. state' = [state EXCEPT ![u] = "SLEEPING"]
      BY <2>3, SetStateFacts DEF WaitSleep, At, Moves, Agree, PhasesAgree, reapVars
    <3>2. CASE u = t
      BY <2>3, <3>2 DEF WaitSleep, At, sigVars
    <3>3. CASE u # t
      BY <2>3, <1>t, <3>1, <3>3 DEF WaitSleep, sigVars, Threads
    <3>4. QED
      BY <3>2, <3>3
  <2>4. CASE ExitDying(u)
    <3>1. state' = [state EXCEPT ![u] = "DYING"]
      BY <2>4, SetStateFacts DEF ExitDying, At, Moves, Agree, PhasesAgree, reapVars
    <3>2. u # t
      BY <1>t, <3>1 DEF Threads
    <3>3. QED
      BY <2>4, <1>t, <3>1, <3>2 DEF ExitDying, Goto, sigVars, Threads
  <2>5. ASSUME NEW v \in Tasks, NEW sigs \in Masks, SignalTask(u, v, sigs) PROVE Waits'
    BY <2>5, <1>g DEF SignalTask, reapVars
  <2>6. QED
    BY <1>5, <2>1, <2>2, <2>3, <2>4, <2>5 DEF TaskStep
<1>6. ASSUME IdleStep PROVE Waits'
  BY <1>6, <1>k, <1>t
  DEF IdleStep, Reap, Cleanup, CleanupDone, NothingDying, StopTimer, WaitForInterrupt,
      Goto, sigVars, Threads
<1>7. CASE Select
  <2>1. /\ state' = [Demoted EXCEPT ![NextThread] = "RUNNING"] /\ Demoted \in [Threads -> States]
        /\ \A u \in Threads : Demoted[u] = state[u] \/ Demoted[u] = "READY"
    BY <1>7, SelectFacts DEF Select
  <2>2. state[t] = "SLEEPING"
    BY <2>1 DEF Threads
  <2>3. UNCHANGED <<sigSet, sigMask, waitFor>> /\ pc'[t] = pc[t]
    BY <1>7, <1>t DEF Select, WakeCPU, sigVars
  <2>4. QED
    BY <1>t, <2>2, <2>3
<1>8. CASE Tick \/ OtherInterrupt \/ TickEnd
  <2>1. CASE Tick \/ OtherInterrupt
    <3>1. WakeCPU /\ UNCHANGED <<state, sigSet, sigMask, waitFor>>
      BY <2>1 DEF Tick, OtherInterrupt, sigVars
    <3>2. pc'[t] = pc[t]
      BY <3>1, <1>t DEF WakeCPU
    <3>3. QED
      BY <3>1, <3>2, <1>k
  <2>2. CASE TickEnd
    BY <2>2, <1>k, <1>t DEF TickEnd, sigVars
  <2>3. QED
    BY <1>8, <2>1, <2>2
<1>9. ASSUME NEW u \in Tasks, TimerFires(u) PROVE Waits'
  BY <1>9, <1>g DEF TimerFires, reapVars
<1>10. QED
  BY <1>1, <1>2, <1>3, <1>4, <1>5, <1>6, <1>7, <1>8, <1>9 DEF Next, Booting, Handler
-----------------------------------------------------------------------------
(* The theorems.                                                           *)

\* The inductive invariant holds when the boot code hands over.
LEMMA InvariantInit == Init => IInv
<1> SUFFICES ASSUME Init PROVE IInv
  OBVIOUS
<1>1. Agree
  BY AgreeInit
<1>2. ReapedOnce
  BY TaskAssumption, EmptyInjective DEF Init, ReapedOnce, Threads
<1>3. OneRunning /\ NoLostWakeup
  BY TaskAssumption DEF Init, OneRunning, NoLostWakeup, Threads
<1>4. DyingStopsTheRest /\ CurrentIsActive /\ IdleOnlyWhenNothingReady
  BY TaskAssumption DEF Init, DyingStopsTheRest, CurrentIsActive, IdleOnlyWhenNothingReady
<1>5. NoUseAfterFree
  BY <1>1, TaskAssumption DEF Init, NoUseAfterFree, Timer!Init, Threads
<1>6. QED
  BY <1>1, <1>2, <1>3, <1>4, <1>5 DEF Agree, IInv

\* Every step keeps it.
LEMMA InvariantStep == IInv /\ [Next]_vars => IInv'
BY AgreeStep, ReapedOnceStep, OneRunningStep, DyingStopsTheRestStep, CurrentIsActiveStep,
   NoLostWakeupStep, NoUseAfterFreeStep, IdleOnlyStep
DEF IInv, Agree

\* The safety properties of the scheduler hold together in every state that the
\* kernel reaches, whatever the tasks, the signals and the masks.
THEOREM InvariantAlways == Spec => []IInv
BY InvariantInit, InvariantStep, PTL DEF Spec

\* The queues, the flags, the counters and cur_state never disagree.
THEOREM QueuesAlwaysAgree == Spec => []QueuesAgree
BY InvariantAlways, PTL DEF IInv, QueuesAgree

\* No thread is where the kernel takes it not to be: ticks before
\* kern_task_ready switch nothing, whatever is pending.
THEOREM PhasesAlwaysAgree == Spec => []PhasesAgree
BY InvariantAlways, PTL DEF IInv

\* No task is reaped or freed while a list still holds it, or twice.
THEOREM NothingReapedTwice == Spec => []ReapedOnce
BY InvariantAlways, PTL DEF IInv

\* Only the current thread is RUNNING.
THEOREM OnlyOneRuns == Spec => []OneRunning
BY InvariantAlways, PTL DEF IInv

\* While a task is dying, only it and the idle task get the CPU.
THEOREM DyingFirst == Spec => []DyingStopsTheRest
BY InvariantAlways, PTL DEF IInv

\* A task that slept or exited does not keep the CPU without a switch pending.
THEOREM CurrentOnQueue == Spec => []CurrentIsActive
BY InvariantAlways, PTL DEF IInv

\* No wakeup is lost between a wait's look at the signals and its sleep.
THEOREM WakeupsKept == Spec => []NoLostWakeup
BY InvariantAlways, PTL DEF IInv

\* Neither the tick handler nor the scheduler reaches a task that is freed.
THEOREM FreedUntouched == Spec => []NoUseAfterFree
BY InvariantAlways, PTL DEF IInv

\* The idle task does not keep the CPU from a task that is ready.
THEOREM IdleLast == Spec => []IdleOnlyWhenNothingReady
BY InvariantAlways, PTL DEF IInv

\* The timer never refuses a sleeping or an exiting task: the branches for a
\* refusal in kern_task_timer_set and kern_task_exit are never taken.
THEOREM TimerNeverRefuses == Spec => []NeverRefused
<1>1. Agree => NeverRefused
  BY DEF Agree, PhasesAgree, NeverRefused, Runs
<1>2. QED
  BY <1>1, AgreeAlways, PTL

\* A dying task is never switched to again.
THEOREM DyingStaysDead == Spec => DyingNeverResumed
<1>1. ASSUME Agree, [Next]_vars
      PROVE  [\A t \in Tasks : state[t] = "DYING" =>
                state'[t] = "DYING" /\ (current' = t => current = t)]_vars
  <2> SUFFICES ASSUME NEW t \in Tasks, state[t] = "DYING"
               PROVE  state'[t] = "DYING" /\ (current' = t => current = t)
    OBVIOUS
  <2>t. state \in [Threads -> States] /\ t \in Threads
    BY <1>1 DEF Agree, TypeOK, Threads
  <2>1. CASE Quiet \/ Reap \/ \E u \in Tasks : Create(u) \/ Cleanup(u)
    BY <2>1 DEF Quiet, Reap, Create, Cleanup
  <2>2. ASSUME NEW u \in Tasks, NEW new \in {"READY", "SLEEPING", "DYING"}, Moving(u, new)
        PROVE  state'[t] = "DYING" /\ (current' = t => current = t)
    BY <2>2, <2>t DEF Moving, Moves
  <2>3. CASE Select
    <3>1. t \notin ToSet(activeList) /\ t # IdleTask
      BY <1>1, TaskAssumption DEF Agree, StateMatchesQueue
    <3>2. NextThread # t
      BY <1>1, <2>3, <3>1, SelectFacts
    <3>3. Demoted \in [Threads -> States] /\ Demoted[t] = "DYING"
      BY <1>1, <2>3, <2>t, SelectFacts
    <3>4. current' = NextThread /\ state' = [Demoted EXCEPT ![NextThread] = "RUNNING"]
      BY <2>3 DEF Select
    <3>5. QED
      BY <2>t, <3>2, <3>3, <3>4
  <2>4. QED
    BY <1>1, <2>1, <2>2, <2>3, StepKinds
<1>2. QED
  BY <1>1, AgreeAlways, PTL DEF Spec, DyingNeverResumed
-----------------------------------------------------------------------------
(* The order of the run queue.                                              *)

\* Taking a task off the queue puts no one ahead of another task.
LEMMA AheadAfterRemove ==
  ASSUME NEW S, NEW q \in Seq(S), IsInjective(q), NEW e \in ToSet(q), NEW t, t # e
  PROVE  Ahead(RemoveFirst(q, e), t) \subseteq Ahead(q, t)
<1>1. PICK k \in 1 .. Len(q) : q[k] = e
  BY DEF ToSet
<1> DEFINE r == RemoveFirst(q, e)
           Was(i) == IF i < k THEN i ELSE i + 1
<1>2. r \in Seq(S) /\ Len(r) = Len(q) - 1 /\ \A i \in 1 .. Len(q) - 1 : r[i] = q[Was(i)]
  BY <1>1, RemoveFirstIsShift
<1> HIDE DEF r
<1>3. SUFFICES ASSUME NEW i \in DOMAIN r, NEW j \in DOMAIN r, i < j, r[j] = t
               PROVE  r[i] \in Ahead(q, t)
  BY DEF Ahead, r
<1>4. i \in 1 .. Len(q) - 1 /\ j \in 1 .. Len(q) - 1
  BY <1>2
<1>5. Was(i) \in DOMAIN q /\ Was(j) \in DOMAIN q /\ Was(i) < Was(j)
  BY <1>1, <1>3, <1>4
<1>6. QED
  BY <1>2, <1>3, <1>4, <1>5 DEF Ahead

\* Nor does a task that joins the queue at its tail.
LEMMA AheadAfterAppend ==
  ASSUME NEW S, NEW q \in Seq(S), NEW e \in S, NEW t, t # e
  PROVE  Ahead(Append(q, e), t) \subseteq Ahead(q, t)
<1> DEFINE r == Append(q, e)
<1>1. /\ DOMAIN r = 1 .. Len(q) + 1 /\ DOMAIN q = 1 .. Len(q) /\ Len(q) \in Nat
      /\ \A i \in 1 .. Len(q) : r[i] = q[i]
      /\ r[Len(q) + 1] = e
  OBVIOUS
<1> HIDE DEF r
<1>2. SUFFICES ASSUME NEW i \in DOMAIN r, NEW j \in DOMAIN r, i < j, r[j] = t
               PROVE  r[i] \in Ahead(q, t)
  BY DEF Ahead, r
<1>3. i \in 1 .. Len(q) /\ j \in 1 .. Len(q)
  BY <1>1, <1>2
<1>4. QED
  BY <1>1, <1>2, <1>3 DEF Ahead

\* The run queue changes only where _kern_task_set_state_locked moves a task on
\* or off it, and where kern_task_select moves the one it has chosen.
LEMMA QueueChanges ==
  ASSUME Agree, [Next]_vars
  PROVE  \/ UNCHANGED activeList
         \/ \E u \in Tasks : LeaveActive(u) \/ JoinActive(u)
         \/ Select
<1> DEFINE Same == UNCHANGED activeList
           Turned == Same \/ \E u \in Tasks : LeaveActive(u) \/ JoinActive(u)
<1>s. ASSUME NEW u \in Tasks, NEW new, SetState(u, new) PROVE Turned
  BY <1>s DEF SetState, TurnDying, TurnSleeping, TurnReady, schedVars
<1>g. ASSUME NEW u \in Tasks, NEW sigs, Signal(u, sigs) PROVE Turned
  BY <1>g, <1>s, SignalFacts DEF schedVars
<1> HIDE DEF Turned
<1>1. CASE UNCHANGED vars
  BY <1>1 DEF vars, schedVars
<1>2. CASE Booting
  <2>1. ASSUME NEW u \in Tasks, Create(u) \/ StartTask(u) PROVE Same \/ Turned
    BY <2>1, <1>s DEF Create, StartTask, schedVars
  <2>2. CASE Ready \/ FirstSwitch
    BY <2>2 DEF Ready, FirstSwitch, schedVars
  <2>3. QED
    BY <1>2, <2>1, <2>2 DEF Booting, Turned
<1>3. ASSUME NEW u \in Tasks, TaskStep(u) PROVE Same \/ Turned
  <2>1. CASE \/ SleepDel(u) \/ SleepAdd(u) \/ ExitDel(u) \/ Spin(u)
             \/ \E mask \in Masks : BeginWait(u, mask)
             \/ \E change \in MaskChanges : SetSigmask(u, change[1], change[2])
             \/ \E v \in Tasks : Lookup(u, v) \/ Release(u, v)
    BY <2>1
    DEF SleepDel, SleepAdd, ExitDel, Spin, BeginWait, SetSigmask, Lookup, Release, schedVars
  <2>2. CASE WaitDone(u) \/ WaitSleep(u) \/ ExitDying(u)
    BY <2>2, <1>s DEF WaitDone, WaitSleep, ExitDying
  <2>3. ASSUME NEW v \in Tasks, NEW sigs \in Masks, SignalTask(u, v, sigs) PROVE Turned
    BY <2>3, <1>g DEF SignalTask
  <2>4. QED
    BY <1>3, <2>1, <2>2, <2>3 DEF TaskStep
<1>4. CASE IdleStep
  BY <1>4
  DEF IdleStep, Reap, Cleanup, CleanupDone, NothingDying, StopTimer, WaitForInterrupt, schedVars
<1>5. CASE Tick \/ TickEnd \/ OtherInterrupt
  BY <1>5 DEF Tick, TickEnd, OtherInterrupt, schedVars
<1>6. ASSUME NEW u \in Tasks, TimerFires(u) PROVE Turned
  BY <1>6, <1>g DEF TimerFires
<1>7. QED
  BY <1>1, <1>2, <1>3, <1>4, <1>5, <1>6 DEF Next, Handler, Turned

\* No task gets ahead of one that waits on the run queue: the scheduler is first
\* come, first served, for any number of tasks.
THEOREM NobodyOvertakes == Spec => NoOvertaking
<1>1. ASSUME Agree, Agree', [Next]_vars
      PROVE  [\A t \in Tasks : onActive[t] /\ onActive'[t] /\ current' # t =>
                Ahead(activeList', t) \subseteq Ahead(activeList, t)]_vars
  <2>1. SUFFICES ASSUME NEW t \in Tasks, onActive[t], onActive'[t], current' # t
                 PROVE  Ahead(activeList', t) \subseteq Ahead(activeList, t)
    OBVIOUS
  <2>2. /\ activeList \in Seq(Tasks) /\ IsInjective(activeList)
        /\ onActive \in [Tasks -> BOOLEAN]
        /\ \A u \in Tasks : onActive[u] <=> u \in ToSet(activeList)
    BY <1>1 DEF Agree, TypeOK, ListsConsistent
  <2>3. CASE UNCHANGED activeList
    BY <2>3
  <2>4. ASSUME NEW u \in Tasks, LeaveActive(u), onActive[u]
        PROVE  Ahead(activeList', t) \subseteq Ahead(activeList, t)
    <3>1. activeList' = RemoveFirst(activeList, u) /\ u # t
      BY <2>1, <2>2, <2>4 DEF LeaveActive
    <3>2. QED
      BY <2>2, <2>4, <3>1, AheadAfterRemove
  <2>5. ASSUME NEW u \in Tasks, JoinActive(u), ~onActive[u]
        PROVE  Ahead(activeList', t) \subseteq Ahead(activeList, t)
    <3>1. activeList' = Append(activeList, u) /\ u # t
      BY <2>1, <2>5 DEF JoinActive
    <3>2. QED
      BY <2>2, <3>1, AheadAfterAppend
  <2>6. CASE Select /\ NextThread # IdleTask
    <3> DEFINE n == NextThread
               r == RemoveFirst(activeList, n)
    <3>1. n \in ToSet(activeList) /\ n # t /\ activeList' = Append(r, n)
      BY <1>1, <2>1, <2>6, SelectFacts DEF Select, Rotated
    <3>2. n \in Tasks /\ r \in Seq(Tasks)
      BY <2>2, <3>1, RemoveFirstProps, EmptyProps
    <3> HIDE DEF n, r
    <3>3. Ahead(r, t) \subseteq Ahead(activeList, t)
      BY <2>2, <3>1, AheadAfterRemove DEF r
    <3>4. Ahead(Append(r, n), t) \subseteq Ahead(r, t)
      BY <3>1, <3>2, AheadAfterAppend
    <3>5. QED
      BY <3>1, <3>3, <3>4
  <2>7. CASE Select /\ NextThread = IdleTask
    BY <2>7 DEF Select, Rotated
  <2>8. QED
    BY <1>1, <2>3, <2>4, <2>5, <2>6, <2>7, QueueChanges DEF LeaveActive, JoinActive
<1>2. QED
  BY <1>1, AgreeAlways, PTL DEF Spec, NoOvertaking
-----------------------------------------------------------------------------
(* The length of a sleep.                                                  *)

\* How task t's sleep stands: an event that is armed, or still to be called
\* back, is that of a sleep the task is in and has not been told the end of; and
\* KSLEEP is set only to end such a sleep.
SleepStands(t) ==
  /\ t \notin armed \cap active
  /\ t \in armed \cup todo =>
       pc[t] = "wait" /\ waitFor[t] = {KSLEEP} /\ KSLEEP \notin sigSet[t]
  /\ KSLEEP \in sigSet[t] => pc[t] = "wait" /\ waitFor[t] = {KSLEEP}

\* A step that leaves all of it alone, for task t.
SleepKept(t) ==
  /\ pc'[t] = pc[t] /\ waitFor'[t] = waitFor[t]
  /\ KSLEEP \in sigSet'[t] <=> KSLEEP \in sigSet[t]
  /\ t \in armed' => t \in armed
  /\ t \in active' => t \in active
  /\ t \in todo' => t \in todo

\* kern_task_signal adds the signals it is given to one task's, or none.
LEMMA SignalAdds ==
  ASSUME sigSet \in [Tasks -> SUBSET Signals], NEW t \in Tasks, NEW u \in Tasks,
         NEW sigs, Signal(u, sigs)
  PROVE  sigSet'[t] = sigSet[t] \/ (t = u /\ sigSet'[t] = sigSet[t] \cup sigs)
<1>1. sigSet' = sigSet \/ sigSet' = [sigSet EXCEPT ![u] = sigSet[u] \cup sigs]
  BY DEF Signal
<1>2. CASE t = u
  BY <1>1, <1>2
<1>3. CASE t # u
  BY <1>1, <1>3
<1>4. QED
  BY <1>2, <1>3

\* Where nobody posts KSLEEP, every step keeps how each sleep stands: the delete
\* before the add of a sleep, and the clearing at the end of its wait, leave
\* nothing that a later sleep could take for its own.
LEMMA SleepStandsStep ==
  ASSUME \A mask \in Masks : KSLEEP \notin mask, Agree, [Next]_vars,
         NEW t \in Tasks, SleepStands(t)
  PROVE  SleepStands(t)'
<1>t. /\ pc \in [Threads \cup {Boot} -> TaskPCs \cup IdlePCs \cup BootPCs]
      /\ sigSet \in [Tasks -> SUBSET Signals] /\ waitFor \in [Tasks -> SUBSET Signals]
      /\ IdleTask \notin Tasks /\ Boot \notin Tasks
      /\ todo \subseteq active
  BY TaskAssumption DEF Agree, TypeOK, Timer!TypeOK
<1>k. SleepKept(t) => SleepStands(t)'
  BY DEF SleepKept, SleepStands
<1>1. CASE UNCHANGED vars
  BY <1>1, <1>k DEF vars, sigVars, timerVars, SleepKept
<1>2. CASE Booting
  <2>1. ASSUME NEW u \in Tasks, Create(u) \/ StartTask(u), u = t PROVE SleepStands(t)'
    <3>1. pc[t] # "wait" /\ UNCHANGED <<sigSet, armed, active, todo>>
      BY <2>1 DEF Create, StartTask, At, sigVars, timerVars
    <3>2. QED
      BY <3>1 DEF SleepStands
  <2>2. ASSUME NEW u \in Tasks, Create(u) \/ StartTask(u), u # t PROVE SleepStands(t)'
    BY <2>2, <1>k, <1>t DEF Create, StartTask, Goto, sigVars, timerVars, Threads, SleepKept
  <2>3. CASE Ready \/ FirstSwitch
    BY <2>3, <1>k, <1>t DEF Ready, FirstSwitch, Goto, sigVars, timerVars, Threads, SleepKept
  <2>4. QED
    BY <1>2, <2>1, <2>2, <2>3 DEF Booting
<1>3. ASSUME NEW u \in Tasks, TaskStep(u), u # t PROVE SleepStands(t)'
  <2>1. CASE \/ SleepDel(u) \/ SleepAdd(u) \/ ExitDel(u) \/ Spin(u) \/ ExitDying(u)
             \/ \E mask \in Masks : BeginWait(u, mask)
             \/ WaitDone(u) \/ WaitSleep(u)
             \/ \E change \in MaskChanges : SetSigmask(u, change[1], change[2])
             \/ \E v \in Tasks : Lookup(u, v) \/ Release(u, v)
    <3>1. pc'[t] = pc[t] /\ waitFor'[t] = waitFor[t] /\ sigSet'[t] = sigSet[t]
      BY <1>3, <2>1, <1>t
      DEF SleepDel, SleepAdd, ExitDel, Spin, ExitDying, BeginWait, WaitDone, WaitSleep,
          SetSigmask, Lookup, Release, Goto, sigVars, Threads
    <3>2. /\ t \in armed' => t \in armed
          /\ UNCHANGED <<active, todo>>
      BY <1>3, <2>1
      DEF SleepDel, SleepAdd, ExitDel, Spin, ExitDying, BeginWait, WaitDone, WaitSleep,
          SetSigmask, Lookup, Release, TimerDel, Timer!Del, Timer!Add, timerVars
    <3>3. QED
      BY <3>1, <3>2, <1>k DEF SleepKept
  <2>2. ASSUME NEW v \in Tasks, NEW sigs \in Masks, SignalTask(u, v, sigs)
        PROVE  SleepStands(t)'
    BY <2>2, <1>t, <1>k, SignalAdds DEF SignalTask, timerVars, SleepKept
  <2>3. QED
    BY <1>3, <2>1, <2>2 DEF TaskStep
<1>4. CASE TaskStep(t)
  <2>1. CASE SleepDel(t) \/ ExitDel(t)
    <3>1. /\ pc[t] = "run" /\ t \notin armed' /\ UNCHANGED <<active, todo, sigSet>>
      BY <2>1 DEF SleepDel, ExitDel, At, TimerDel, Timer!Del, sigVars
    <3>2. QED
      BY <3>1 DEF SleepStands
  <2>2. CASE SleepAdd(t)
    <3>1. /\ pc[t] = "rearm" /\ pc'[t] = "wait" /\ waitFor'[t] = {KSLEEP}
          /\ t \notin active /\ UNCHANGED <<active, todo, sigSet>>
      BY <2>2, <1>t DEF SleepAdd, At, Goto, Timer!Add, Timer!Addable, sigVars, Threads
    <3>2. QED
      BY <3>1, <1>t DEF SleepStands
  <2>3. CASE \E mask \in Masks : BeginWait(t, mask)
    <3>1. pc[t] = "run" /\ UNCHANGED <<armed, active, todo, sigSet>>
      BY <2>3 DEF BeginWait, At, sigVars, timerVars
    <3>2. QED
      BY <3>1 DEF SleepStands
  <2>4. CASE WaitDone(t)
    <3>1. /\ pc[t] = "wait" /\ UNCHANGED <<armed, active, todo>>
          /\ sigSet[t] \cap waitFor[t] # {} /\ sigSet'[t] = sigSet[t] \ waitFor[t]
      BY <2>4, <1>t DEF WaitDone, SigsLeft, At, timerVars
    <3>2. QED
      BY <3>1 DEF SleepStands
  <2>5. CASE \/ WaitSleep(t) \/ Spin(t)
             \/ \E change \in MaskChanges : SetSigmask(t, change[1], change[2])
             \/ \E v \in Tasks : Lookup(t, v) \/ Release(t, v)
    BY <2>5, <1>k
    DEF WaitSleep, Spin, SetSigmask, Lookup, Release, sigVars, timerVars, SleepKept
  <2>6. CASE ExitDying(t)
    <3>1. pc[t] = "exit" /\ UNCHANGED <<armed, active, todo, sigSet>>
      BY <2>6 DEF ExitDying, At, sigVars, timerVars
    <3>2. QED
      BY <3>1 DEF SleepStands
  <2>7. ASSUME NEW v \in Tasks, NEW sigs \in Masks, SignalTask(t, v, sigs)
        PROVE  SleepStands(t)'
    BY <2>7, <1>t, <1>k, SignalAdds DEF SignalTask, timerVars, SleepKept
  <2>8. QED
    BY <1>4, <2>1, <2>2, <2>3, <2>4, <2>5, <2>6, <2>7 DEF TaskStep
<1>5. CASE IdleStep
  BY <1>5, <1>k, <1>t
  DEF IdleStep, Reap, Cleanup, CleanupDone, NothingDying, StopTimer, WaitForInterrupt,
      Timer!Idle, Goto, sigVars, timerVars, Threads, SleepKept
<1>6. CASE Select \/ OtherInterrupt \/ TickEnd
  <2>1. pc'[t] = pc[t]
    BY <1>6, <1>t DEF Select, OtherInterrupt, TickEnd, WakeCPU, Threads
  <2>2. QED
    BY <1>6, <2>1, <1>k
    DEF Select, OtherInterrupt, TickEnd, Timer!Start, Timer!TickDone, sigVars, timerVars,
        SleepKept
<1>7. CASE Tick
  <2>1. pc'[t] = pc[t] /\ UNCHANGED <<sigSet, waitFor>>
    BY <1>7, <1>t DEF Tick, WakeCPU, sigVars, Threads
  <2>2. PICK due \in SUBSET armed : armed' = armed \ due /\ active' = due /\ todo' = due
    BY <1>7 DEF Tick, Timer!Tick
  <2>3. QED
    BY <2>1, <2>2 DEF SleepStands
<1>8. ASSUME NEW u \in Tasks, TimerFires(u) PROVE SleepStands(t)'
  <2>1. /\ pc'[t] = pc[t] /\ waitFor'[t] = waitFor[t] /\ UNCHANGED <<armed, active>>
        /\ u \in todo /\ todo' = todo \ {u}
        /\ sigSet'[t] = sigSet[t] \/ (t = u /\ sigSet'[t] = sigSet[t] \cup {KSLEEP})
    BY <1>8, <1>t, SignalAdds DEF TimerFires, Timer!Callback
  <2>2. QED
    BY <2>1, <1>t DEF SleepStands
<1>9. QED
  BY <1>1, <1>2, <1>3, <1>4, <1>5, <1>6, <1>7, <1>8 DEF Next, Handler

\* A sleep is never cut short by what an earlier sleep of the task left behind:
\* it ends after its own event was called back, wherever KSLEEP is posted by the
\* timer alone.
THEOREM SleepsLastTheirTime ==
  ASSUME \A mask \in Masks : KSLEEP \notin mask
  PROVE  Spec => SleepsFullTime
<1> DEFINE Stands == \A t \in Tasks : SleepStands(t)
<1>1. Init => Stands
  BY DEF Init, Timer!Init, SleepStands
<1>2. Agree /\ Stands /\ [Next]_vars => Stands'
  BY SleepStandsStep
<1>3. ASSUME Agree, Stands, [Next]_vars
      PROVE  [\A t \in Tasks :
                waitFor[t] = {KSLEEP} /\ pc[t] = "wait" /\ pc'[t] = "run" =>
                  t \notin armed \cup todo]_vars
  <2>1. SUFFICES ASSUME NEW t \in Tasks, waitFor[t] = {KSLEEP}, pc[t] = "wait",
                        pc'[t] = "run", Next
                 PROVE  KSLEEP \in sigSet[t]
    BY <1>3 DEF SleepStands
  <2>t. /\ pc \in [Threads \cup {Boot} -> TaskPCs \cup IdlePCs \cup BootPCs]
        /\ sigSet \in [Tasks -> SUBSET Signals]
        /\ IdleTask \notin Tasks /\ Boot \notin Tasks
    BY <1>3, TaskAssumption DEF Agree, TypeOK
  <2>2. ASSUME NEW u \in Tasks, TaskStep(u) PROVE u = t /\ WaitDone(t)
    BY <2>1, <2>2, <2>t
    DEF TaskStep, SleepDel, SleepAdd, BeginWait, WaitDone, WaitSleep, SetSigmask,
        SignalTask, Lookup, Release, ExitDel, ExitDying, Spin, At, Goto, Threads
  <2>3. CASE WaitDone(t)
    BY <2>1, <2>3 DEF WaitDone
  <2>4. CASE Booting \/ IdleStep \/ Handler \/ OtherInterrupt
    <3>1. ~Booting
      BY <2>1, <2>t DEF Booting, Create, StartTask, Ready, FirstSwitch, At, Goto, Threads
    <3>2. ~IdleStep
      BY <2>1, <2>t
      DEF IdleStep, Reap, Cleanup, CleanupDone, NothingDying, StopTimer, WaitForInterrupt,
          Goto, Threads
    <3>3. ~Handler /\ ~OtherInterrupt
      BY <2>1, <2>t
      DEF Handler, Select, Tick, TimerFires, TickEnd, OtherInterrupt, WakeCPU, Threads
    <3>4. QED
      BY <2>4, <3>1, <3>2, <3>3
  <2>5. QED
    BY <2>1, <2>2, <2>3, <2>4 DEF Next
<1>4. QED
  BY <1>1, <1>2, <1>3, AgreeAlways, PTL DEF Spec, SleepsFullTime
=============================================================================
