----------------------------- MODULE TimerEvents -----------------------------
(***************************************************************************)
(* What src/src/kern/core/timer.c promises the rest of the kernel, without *)
(* tick values or a queue.  An event that is added is called back by a     *)
(* later run of the tick handler unless it is deleted first; an event the  *)
(* handler has taken can be neither added nor deleted until the handler is *)
(* through with it; and the hardware timer is stopped only while no event  *)
(* is armed.  KernTimer is shown to implement this module, and KernTask    *)
(* is built on it.                                                         *)
(***************************************************************************)

CONSTANT Events     \* the timer events; each is embedded in its owner

VARIABLES
  armed,      \* events that are queued
  active,     \* events the running handler has taken off the queue
  todo,       \* those of them whose callback has not run yet
  running,    \* kern_timer_running: SysTick is counting
  latched,    \* a SysTick exception was pending when counting was stopped
  busy        \* the tick handler is between its two locked sections

vars == <<armed, active, todo, running, latched, busy>>

TypeOK ==
  /\ armed \in SUBSET Events
  /\ active \in SUBSET Events
  /\ todo \in SUBSET active
  /\ running \in BOOLEAN
  /\ latched \in BOOLEAN
  /\ busy \in BOOLEAN

\* main() starts the hardware timer while it boots, before any event exists.
Init ==
  /\ armed = {}
  /\ active = {}
  /\ todo = {}
  /\ running = TRUE
  /\ latched = FALSE
  /\ busy = FALSE

-----------------------------------------------------------------------------
(* Calls of the kernel's threads.                                          *)

Addable(e) == e \notin armed \cup active

Add(e) ==
  /\ Addable(e)
  /\ armed' = armed \cup {e}
  /\ running' = TRUE
  /\ UNCHANGED <<active, todo, latched, busy>>

\* Deleting an event that is not armed succeeds too and changes nothing.
Del(e) ==
  /\ e \notin active
  /\ armed' = armed \ {e}
  /\ UNCHANGED <<active, todo, running, latched, busy>>

Start ==
  /\ running' = TRUE
  /\ UNCHANGED <<armed, active, todo, latched, busy>>

\* The idle loop's call: it may stop the timer, and then a tick that was
\* already pending still comes in.
Idle ==
  /\ IF armed = {} /\ running
       THEN /\ running' = FALSE
            /\ latched' \in {latched, TRUE}
       ELSE UNCHANGED <<running, latched>>
  /\ UNCHANGED <<armed, active, todo, busy>>

-----------------------------------------------------------------------------
(* The tick handler.  Which of the armed events have come due is left open. *)

Tick ==
  /\ ~busy
  /\ running \/ latched
  /\ \E due \in SUBSET armed :
       /\ armed' = armed \ due
       /\ active' = due
       /\ todo' = due
  /\ latched' = FALSE
  /\ busy' = TRUE
  /\ UNCHANGED running

Callback(e) ==
  /\ e \in todo
  /\ todo' = todo \ {e}
  /\ UNCHANGED <<armed, active, running, latched, busy>>

TickDone ==
  /\ busy
  /\ todo = {}
  /\ active' = {}
  /\ busy' = FALSE
  /\ UNCHANGED <<armed, todo, running, latched>>

-----------------------------------------------------------------------------

Next ==
  \/ \E e \in Events : Add(e) \/ Del(e) \/ Callback(e)
  \/ Start
  \/ Idle
  \/ Tick
  \/ TickDone

\* No event stays armed forever, and a handler that has started finishes.
Liveness ==
  /\ \A e \in Events : []<>(e \notin armed)
  /\ \A e \in Events : WF_vars(Callback(e))
  /\ WF_vars(TickDone)

Spec == Init /\ [][Next]_vars /\ Liveness
=============================================================================
