------------------------------ MODULE MCKernTask ------------------------------
(* KernTask on small instances. *)
EXTENDS KernTask

CONSTANTS S1    \* a signal the tasks agree on among themselves

AllSignals == {KSLEEP, S1}
BothMasks == {{KSLEEP}, {S1}}
OwnMask == {{S1}}
NoMasks == {}

\* Enabling everything, as kern_test_task_fn does, and masking S1 out.
SomeMaskings == {<<AllSignals, AllSignals>>, <<{KSLEEP}, {}>>}
NoMaskings == {}

Symmetry == Permutations(Tasks)
=============================================================================
