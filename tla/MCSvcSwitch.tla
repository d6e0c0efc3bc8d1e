---------------------------- MODULE MCSvcSwitch ----------------------------
(* SvcSwitch on a small instance. *)
EXTENDS SvcSwitch

CONSTANTS u1, u2

\* Two tasks share the flash; their stacks are apart, one has a GOT, and the
\* heap of the other is empty.
MCAsked ==
  [t \in UserTasks |->
     IF t = u1
     THEN [i \in {0, 1, 3} |->
             CASE i = 0 -> [base |-> 0, size |-> 128, prot |-> "EXEC_RO"]
               [] i = 1 -> [base |-> 256, size |-> 64, prot |-> "NOEXEC_RW"]
               [] i = 3 -> [base |-> 320, size |-> 32, prot |-> "NOEXEC_RO"]]
     ELSE [i \in {0, 1, 2} |->
             CASE i = 0 -> [base |-> 0, size |-> 128, prot |-> "EXEC_RO"]
               [] i = 1 -> [base |-> 384, size |-> 64, prot |-> "NOEXEC_RW"]
               [] i = 2 -> [base |-> 0, size |-> 0, prot |-> "NOEXEC_RW"]]]
=============================================================================
