----------------------------- MODULE SystemCalls -----------------------------
(***************************************************************************)
(* What a user program relies on when it makes system calls: it runs as if *)
(* alone, a call takes it into the kernel and back to the instruction      *)
(* after the call, with its registers as they were and the result in r0.   *)
(* There is no CPU here and no stack; SvcSwitch implements this with one   *)
(* of each, with switches between any two instructions.                    *)
(***************************************************************************)
CONSTANTS
  Tasks,       \* the user tasks
  Sites        \* where they make system calls; also what they pass

VARIABLES
  mode,        \* "user", "kernel", or "served": about to return
  view         \* the registers a task's program sees

vars == <<mode, view>>

\* Any registers a program may have when it is about to make a call.
Calling(t, s) ==
  [pc |-> [at |-> "svc", site |-> s], r0 |-> [arg |-> s], r4 |-> t, lr |-> s]

Result(arg) == [result |-> arg.arg]

\* Programs begin with whatever is in their registers.
Init ==
  /\ mode = [t \in Tasks |-> "user"]
  /\ \A t \in Tasks : view[t].pc.at = "entry"

\* The program goes from where it is to its next call.
Run(t) ==
  /\ mode[t] = "user" /\ view[t].pc.at # "svc"
  /\ \E s \in Sites : view' = [view EXCEPT ![t] = Calling(t, s)]
  /\ UNCHANGED mode

Call(t) ==
  /\ mode[t] = "user" /\ view[t].pc.at = "svc"
  /\ mode' = [mode EXCEPT ![t] = "kernel"]
  /\ UNCHANGED view

Serve(t) ==
  /\ mode[t] = "kernel"
  /\ mode' = [mode EXCEPT ![t] = "served"]
  /\ view' = [view EXCEPT ![t].r0 = Result(@)]

Return(t) ==
  /\ mode[t] = "served"
  /\ mode' = [mode EXCEPT ![t] = "user"]
  /\ view' = [view EXCEPT ![t].pc.at = "after"]

Next == \E t \in Tasks : Run(t) \/ Call(t) \/ Serve(t) \/ Return(t)

Spec == Init /\ [][Next]_vars
=============================================================================
