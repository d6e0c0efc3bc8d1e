-------------------------------- MODULE List --------------------------------
(***************************************************************************)
(* The doubly linked list of src/src/kern/libraries/list: the writes that  *)
(* each operation makes.  A list is a record of the two pointers of its    *)
(* struct list_head and of those in the memory its nodes lie in: prev and  *)
(* next give these fields of the nodes that there are.                     *)
(***************************************************************************)
EXTENDS Integers, SequencesExt

NULL == 0

\* A field of the node at address n is written.
Put(field, n, value) ==
  [x \in DOMAIN field \cup {n} |-> IF x = n THEN value ELSE field[x]]

\* That of a node which may be missing.
PutUnlessNull(field, n, value) == IF n = NULL THEN field ELSE Put(field, n, value)

ListHeadInit == [head |-> NULL, tail |-> NULL, prev |-> << >>, next |-> << >>]

ListNodeInit(l, n) ==
  [head |-> l.head, tail |-> l.tail,
   prev |-> Put(l.prev, n, NULL), next |-> Put(l.next, n, NULL)]

ListAddHead(l, n) ==
  [head |-> n,
   tail |-> IF l.head = NULL THEN n ELSE l.tail,
   prev |-> PutUnlessNull(Put(l.prev, n, NULL), l.head, n),
   next |-> Put(l.next, n, l.head)]

ListAddTail(l, n) ==
  [head |-> IF l.tail = NULL THEN n ELSE l.head,
   tail |-> n,
   prev |-> Put(l.prev, n, l.tail),
   next |-> PutUnlessNull(Put(l.next, n, NULL), l.tail, n)]

\* Faulty variant: the node before the new one is not told of it.
ListAddBeforeUnlinked(l, before, n) ==
  [head |-> IF l.prev[before] = NULL THEN n ELSE l.head,
   tail |-> l.tail,
   prev |-> Put(Put(l.prev, n, l.prev[before]), before, n),
   next |-> Put(l.next, n, before)]

ListAddBefore(l, before, n) ==
  [head |-> IF l.prev[before] = NULL THEN n ELSE l.head,
   tail |-> l.tail,
   prev |-> Put(Put(l.prev, n, l.prev[before]), before, n),
   next |-> PutUnlessNull(Put(l.next, n, before), l.prev[before], n)]

ListDelete(l, n) ==
  [head |-> IF l.head = n THEN l.next[n] ELSE l.head,
   tail |-> IF l.tail = n THEN l.prev[n] ELSE l.tail,
   prev |-> Put(PutUnlessNull(l.prev, l.next[n], l.prev[n]), n, NULL),
   next |-> Put(PutUnlessNull(l.next, l.prev[n], l.next[n]), n, NULL)]

-----------------------------------------------------------------------------
\* The i-th of a sequence of nodes, NULL beyond its ends.
NodeAt(nodes, i) == IF i \in DOMAIN nodes THEN nodes[i] ELSE NULL

\* Walking the list from its head, or back from its tail, meets these nodes.
Spells(l, nodes) ==
  /\ l.head = NodeAt(nodes, 1)
  /\ l.tail = NodeAt(nodes, Len(nodes))
  /\ \A i \in DOMAIN nodes :
       /\ nodes[i] \in DOMAIN l.prev /\ l.prev[nodes[i]] = NodeAt(nodes, i - 1)
       /\ nodes[i] \in DOMAIN l.next /\ l.next[nodes[i]] = NodeAt(nodes, i + 1)
=============================================================================
