---------------------------- MODULE MCKernTaskMem ----------------------------
(* Small instances of KernTaskMem for TLC. *)
EXTENDS KernTaskMem

CONSTANT PoolEnd

MCRanges == <<[start |-> 5, end |-> PoolEnd, usable |-> TRUE],
              [start |-> PoolEnd, end |-> PoolEnd + 4, usable |-> FALSE]>>

MCHeaders == {[got |-> 1, bss |-> b, data |-> 2, heap |-> h, stack |-> 3] : b \in {1, 3}, h \in {1, 7}}

MCJobs == <<"userland", "userload">>

MCKStack == [size |-> 4, align |-> 2]

MCStruct == [size |-> 3, align |-> 2]

MCBuffer == [size |-> 3, align |-> 2]
=============================================================================
