------------------------------ MODULE KernTimer ------------------------------
(***************************************************************************)
(* The kernel timer, src/src/kern/core/timer.c: a queue of events sorted   *)
(* by deadline, and a tick handler that takes the due ones off the queue   *)
(* under the timer lock, calls them back without it, and releases them     *)
(* under it again.                                                         *)
(*                                                                         *)
(* Each locked section is one step.  A thread may run between any two of   *)
(* them, which is what the locks of timer.c leave open (its comment at     *)
(* lines 185-219 argues for exactly that); on the Cortex-M4 port the       *)
(* handler excludes the threads, so its behaviours are among these.        *)
(*                                                                         *)
(* Tick values are TickMod-valued and wrap (uint32_t in the code).         *)
(***************************************************************************)
EXTENDS Integers, SequencesExt

CONSTANTS
  Events,      \* the timer events
  TickMod,     \* number of tick values: 2^32 in the code
  Interval,    \* kern_timer_msec, the length of a tick: 100 in main.c
  Delays,      \* the delays callers ask for, in milliseconds
  MaxLate,     \* bound: how far past its deadline an event may be when added
  NoAdd        \* the event has no add in progress

ASSUME TimerAssumption ==
  /\ TickMod \in Nat \ {0} /\ TickMod % 2 = 0
  /\ Interval \in 1 .. TickMod - 1
  /\ Delays \subseteq 0 .. TickMod - 1
  /\ MaxLate \in Nat

VARIABLES
  tick,        \* kern_timer_tick_msec
  list,        \* timer_list
  deadline,    \* event->tick; 0 while unqueued, when nothing reads it
  queued,      \* event->queued
  active,      \* event->active
  running,     \* kern_timer_running
  latched,     \* a SysTick exception was pending when counting was stopped
  fire,        \* the handler's private list
  cursor,      \* where its callback loop is in that list
  busy,        \* the handler is between its two locked sections
  adding,      \* the deadline an add has computed and not yet queued
  left         \* history: milliseconds until the event's requested time

vars == <<tick, list, deadline, queued, active, running, latched,
          fire, cursor, busy, adding, left>>

TickValues == 0 .. TickMod - 1
Half == TickMod \div 2

(* Faulty variants: the comparison is strict, or unsigned. *)
BeforeStrict(a, b) == (b - a) % TickMod \in 1 .. Half - 1
BeforeEqUnsigned(a, b) == a <= b
AfterEqUnsigned(a, b) == a >= b

\* kern_timer_before_eq and kern_timer_after_eq: the sign of the 32-bit
\* difference.
BeforeEq(a, b) == (b - a) % TickMod < Half
AfterEq(a, b) == (b - a) % TickMod \in {0} \cup Half .. TickMod - 1

\* The history variables count time that has not passed, or has long passed.
Lefts == -(MaxLate + Interval) .. TickMod - 1

-----------------------------------------------------------------------------

Init ==
  /\ tick = TickMod - Interval
  /\ list = <<>>
  /\ deadline = [e \in Events |-> 0]
  /\ queued = [e \in Events |-> FALSE]
  /\ active = [e \in Events |-> FALSE]
  /\ running = TRUE
  /\ latched = FALSE
  /\ fire = <<>>
  /\ cursor = 1
  /\ busy = FALSE
  /\ adding = [e \in Events |-> NoAdd]
  /\ left = [e \in Events |-> 0]

-----------------------------------------------------------------------------
(* kern_timer_event_add.  The tick is read before the lock is taken, so    *)
(* ticks may come between the two steps.                                   *)

Expiry(msec) == (msec + tick) % TickMod

AddRead(e, msec) ==
  /\ adding[e] = NoAdd
  /\ adding' = [adding EXCEPT ![e] = [abs |-> Expiry(msec), left |-> msec]]
  /\ UNCHANGED <<tick, list, deadline, queued, active, running, latched,
                 fire, cursor, busy, left>>

\* Where the event goes: before the first one that is not earlier.
InsertPos(abs) ==
  LET p == SelectInSeq(list, LAMBDA e : AfterEq(deadline[e], abs))
  IN IF p = 0 THEN Len(list) + 1 ELSE p

\* Faulty variant: an event that is queued or active may be added again.
MayAddAlways(e) == TRUE

MayAdd(e) == ~active[e] /\ ~queued[e]

\* kern_timer_start_locked.
StartLocked == running' = TRUE

AddLocked(e) ==
  /\ adding[e] # NoAdd
  /\ MayAdd(e)
  /\ list' = InsertAt(list, InsertPos(adding[e].abs), e)
  /\ deadline' = [deadline EXCEPT ![e] = adding[e].abs]
  /\ queued' = [queued EXCEPT ![e] = TRUE]
  /\ StartLocked
  /\ left' = [left EXCEPT ![e] = adding[e].left]
  /\ adding' = [adding EXCEPT ![e] = NoAdd]
  /\ UNCHANGED <<tick, active, latched, fire, cursor, busy>>

AddRefused(e) ==
  /\ adding[e] # NoAdd
  /\ ~MayAdd(e)
  /\ adding' = [adding EXCEPT ![e] = NoAdd]
  /\ UNCHANGED <<tick, list, deadline, queued, active, running, latched,
                 fire, cursor, busy, left>>

\* kern_timer_event_del.  An event is its owner's, which is not in the middle
\* of adding it.  Deleting an event that is not queued, or that the handler
\* holds, changes nothing.
Del(e) ==
  /\ adding[e] = NoAdd
  /\ queued[e] /\ ~active[e]
  /\ list' = RemoveFirst(list, e)
  /\ queued' = [queued EXCEPT ![e] = FALSE]
  /\ deadline' = [deadline EXCEPT ![e] = 0]
  /\ left' = [left EXCEPT ![e] = 0]
  /\ UNCHANGED <<tick, active, running, latched, fire, cursor, busy, adding>>

\* kern_timer_start, and kern_timer_taskcount with more than one task.
Start ==
  /\ StartLocked
  /\ UNCHANGED <<tick, list, deadline, queued, active, latched,
                 fire, cursor, busy, adding, left>>

(* Faulty variant: the queue is not looked at. *)
NothingQueuedAlways == TRUE

NothingQueued == list = <<>>

\* kern_timer_idle.  Stopping the counter does not withdraw an exception it
\* has already raised.
Idle ==
  /\ NothingQueued /\ running
  /\ running' = FALSE
  /\ latched' \in {latched, TRUE}
  /\ UNCHANGED <<tick, list, deadline, queued, active,
                 fire, cursor, busy, adding, left>>

-----------------------------------------------------------------------------
(* kern_timer_tick, in its three parts.                                    *)

\* How many events at the head of the queue are due at time now.
DueCount(now) ==
  Max({k \in 0 .. Len(list) :
         \A i \in 1 .. k : BeforeEq(deadline[list[i]], now)})

\* Bounds how long a thread that is adding an event can be off the CPU.
AddsKeepUp ==
  \A e \in Events : adding[e] # NoAdd => adding[e].left - Interval >= -MaxLate

PassTime ==
  /\ left' = [e \in Events |->
                IF queued[e] THEN left[e] - Interval ELSE left[e]]
  /\ adding' = [e \in Events |->
                  IF adding[e] = NoAdd THEN NoAdd
                  ELSE [adding[e] EXCEPT !.left = @ - Interval]]

TickTake ==
  /\ ~busy
  /\ running \/ latched
  /\ AddsKeepUp
  /\ LET now == (tick + Interval) % TickMod
         due == DueCount(now)
         taken == {list[i] : i \in 1 .. due}
     IN /\ tick' = now
        /\ fire' = SubSeq(list, 1, due)
        /\ list' = SubSeq(list, due + 1, Len(list))
        /\ queued' = [e \in Events |-> queued[e] /\ e \notin taken]
        /\ active' = [e \in Events |-> active[e] \/ e \in taken]
        /\ deadline' = [e \in Events |-> IF e \in taken THEN 0 ELSE deadline[e]]
  /\ PassTime
  /\ cursor' = 1
  /\ busy' = TRUE
  /\ latched' = FALSE
  /\ UNCHANGED running

(* Faulty variant: the handler does not wait for its callbacks. *)
AllCalledAlways == TRUE

AllCalled == cursor > Len(fire)

TickCall ==
  /\ busy /\ ~AllCalled
  /\ cursor' = cursor + 1
  /\ UNCHANGED <<tick, list, deadline, queued, active, running, latched,
                 fire, busy, adding, left>>

TickRelease ==
  /\ busy /\ AllCalled
  /\ queued' = [e \in Events |-> queued[e] /\ e \notin ToSet(fire)]
  /\ active' = [e \in Events |-> active[e] /\ e \notin ToSet(fire)]
  /\ left' = [e \in Events |-> IF e \in ToSet(fire) THEN 0 ELSE left[e]]
  /\ fire' = <<>>
  /\ cursor' = 1
  /\ busy' = FALSE
  /\ UNCHANGED <<tick, list, deadline, running, latched, adding>>

-----------------------------------------------------------------------------

Next ==
  \/ \E e \in Events :
       \/ \E msec \in Delays : AddRead(e, msec)
       \/ AddLocked(e)
       \/ AddRefused(e)
       \/ Del(e)
  \/ Start
  \/ Idle
  \/ TickTake
  \/ TickCall
  \/ TickRelease

\* SysTick keeps coming while it counts, its handler runs to its end, and a
\* thread that has begun to add an event gets to finish.
Fairness ==
  /\ WF_vars(TickTake)
  /\ WF_vars(TickCall)
  /\ WF_vars(TickRelease)
  /\ \A e \in Events : WF_vars(AddLocked(e) \/ AddRefused(e))

Spec == Init /\ [][Next]_vars /\ Fairness

-----------------------------------------------------------------------------
(* Properties.                                                             *)

Adds == {NoAdd} \cup [abs : TickValues, left : Lefts]

\* Every variable keeps its type, and the handler's list is empty between
\* two runs of it.
TypeOK ==
  /\ tick \in TickValues
  /\ list \in Seq(Events)
  /\ deadline \in [Events -> TickValues]
  /\ queued \in [Events -> BOOLEAN]
  /\ active \in [Events -> BOOLEAN]
  /\ running \in BOOLEAN
  /\ latched \in BOOLEAN
  /\ fire \in Seq(Events)
  /\ cursor \in 1 .. Len(fire) + 1
  /\ busy \in BOOLEAN
  /\ adding \in [Events -> Adds]
  /\ left \in [Events -> Lefts]
  /\ ~busy => fire = <<>>

\* The flags tell the truth about the lists: an event is on the queue exactly
\* when it is queued and on the handler's list exactly when it is active, is
\* never on both, and is on neither twice (timer.c threads both lists through
\* the one list_node of the event, so a second insertion would corrupt them).
NodeOnOneList ==
  /\ IsInjective(list) /\ IsInjective(fire)
  /\ \A e \in Events : /\ queued[e] <=> e \in ToSet(list)
                       /\ active[e] <=> e \in ToSet(fire)
                       /\ ~(queued[e] /\ active[e])

\* The queue stays in the order of the times asked for, across the wrap of
\* the tick: the handler stops at the first event that is not due.
Sorted ==
  \A i, j \in 1 .. Len(list) : i < j => left[list[i]] <= left[list[j]]

\* An event the handler holds has reached the time it was added for: a
\* callback never runs early, whatever the tick has wrapped past since.
NotEarly ==
  \A e \in Events : active[e] => left[e] <= 0

\* A tick leaves no event on the queue whose time has come.
TickTakesAllDue ==
  [][~busy /\ busy' => \A e \in Events : queued'[e] => left'[e] > 0]_vars

\* The timer is never stopped with an event on the queue.
ArmedMeansRunning == list # <<>> => running

\* Once taken, an event cannot be queued again, nor its callback skipped,
\* before the handler has released it: neither an add nor a delete of the
\* owner gets between the two locked sections.
HeldUntilReleased ==
  [][\A e \in Events :
       active[e] /\ ~active'[e] => ~busy' /\ cursor > Len(fire) /\ ~queued'[e]]_vars

-----------------------------------------------------------------------------
(* This module implements TimerEvents.                                     *)

Promise == INSTANCE TimerEvents WITH
  armed <- {e \in Events : queued[e]},
  active <- {e \in Events : active[e]},
  todo <- {fire[i] : i \in cursor .. Len(fire)}

\* Every behaviour of the queue is one the abstract timer allows: events are
\* called back exactly once per add, none is called back after a delete, and
\* none stays armed for ever.
ImplementsTimerEvents == Promise!Spec
=============================================================================
