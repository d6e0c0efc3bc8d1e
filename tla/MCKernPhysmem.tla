---------------------------- MODULE MCKernPhysmem ----------------------------
(* Small instances of KernPhysmemRam, and so of KernPhysmem, for TLC. *)
EXTENDS KernPhysmemRam

MCRanges == <<[start |-> 5, end |-> 19, usable |-> TRUE],
              [start |-> 19, end |-> 23, usable |-> FALSE],
              [start |-> 23, end |-> 32, usable |-> TRUE],
              [start |-> 32, end |-> 41, usable |-> TRUE]>>

MCRequests == {[size |-> 1, align |-> 0], [size |-> 2, align |-> 4], [size |-> 4, align |-> 2]}
=============================================================================
