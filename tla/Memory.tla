------------------------------- MODULE Memory -------------------------------
(***************************************************************************)
(* What the users of kern_physmem_alloc and kern_malloc rely on: the       *)
(* memory they are given lies in RAM that was handed to the allocator, is  *)
(* aligned as they asked, and is nobody else's until they free it.  Whether*)
(* a request succeeds is left open.                                        *)
(***************************************************************************)
EXTENDS Integers, Functions

VARIABLES
  pool,  \* the cells of the RAM ranges that have been added
  held   \* the allocations: address |-> [size, align]

memVars == <<pool, held>>

Cells(a, n) == a .. a + n - 1

\* An alignment of 0 asks for none.
Aligned(a, align) == align = 0 \/ a % align = 0

Init == pool = {} /\ held = << >>

AddRange == pool \subseteq pool' /\ UNCHANGED held

Alloc(a, r) ==
  /\ a \notin DOMAIN held
  /\ Cells(a, r.size) \subseteq pool
  /\ Aligned(a, r.align)
  /\ \A b \in DOMAIN held : Cells(a, r.size) \cap Cells(b, held[b].size) = {}
  /\ held' = [b \in DOMAIN held \cup {a} |-> IF b = a THEN r ELSE held[b]]
  /\ UNCHANGED pool

Free(a) == held' = Restrict(held, DOMAIN held \ {a}) /\ UNCHANGED pool

Next == \/ AddRange
        \/ \E a \in DOMAIN held' \ DOMAIN held : Alloc(a, held'[a])
        \/ \E a \in DOMAIN held : Free(a)

Spec == Init /\ [][Next]_memVars
=============================================================================
