------------------------ MODULE KernPhysmemRamProofs ------------------------
(***************************************************************************)
(* That the free list and the headers are, in the memory that is handed    *)
(* out, what KernPhysmem says they are: for any ranges, sizes and          *)
(* alignments, and whatever the owners of the memory write in it.          *)
(*                                                                         *)
(* First what list.c does to a list that is written in memory; then what   *)
(* overwriting memory and writing a header leave of the others; then that  *)
(* each operation of physmem.c keeps ListInRam, because the blocks of      *)
(* KernPhysmem lie apart.                                                  *)
(***************************************************************************)
EXTENDS KernPhysmemRam, KernPhysmemProofs

-----------------------------------------------------------------------------
(* list.c.                                                                 *)

\* A field that is written has the value; every other keeps its own.
LEMMA PutFacts ==
  ASSUME NEW f, NEW n, NEW v, NEW x, x = n \/ x \in DOMAIN f
  PROVE  x \in DOMAIN Put(f, n, v) /\ Put(f, n, v)[x] = IF x = n THEN v ELSE f[x]
BY DEF Put

\* The same of a field of a node that may be missing.
LEMMA PutUnlessNullFacts ==
  ASSUME NEW f, NEW n, NEW v, NEW x \in DOMAIN f, x # NULL
  PROVE  /\ x \in DOMAIN PutUnlessNull(f, n, v)
         /\ PutUnlessNull(f, n, v)[x] = IF x = n THEN v ELSE f[x]
BY PutFacts DEF PutUnlessNull

\* Nodes are numbered from 1; before the first and after the last is NULL.
Nodes == Seq(Nat \ {NULL})

LEMMA NodeAtFacts ==
  ASSUME NEW q \in Nodes
  PROVE  /\ DOMAIN q = 1 .. Len(q) /\ Len(q) \in Nat
         /\ \A i \in 1 .. Len(q) : NodeAt(q, i) = q[i] /\ q[i] \in Nat /\ q[i] # NULL
         /\ NodeAt(q, 0) = NULL /\ NodeAt(q, Len(q) + 1) = NULL
<1>1. DOMAIN q = 1 .. Len(q) /\ Len(q) \in Nat
  BY DEF Nodes
<1>2. \A i \in 1 .. Len(q) : q[i] \in Nat \ {NULL}
  BY DEF Nodes
<1>3. QED
  BY <1>1, <1>2 DEF NodeAt

LEMMA NodesInsert ==
  ASSUME NEW q \in Nodes, NEW i \in 1 .. Len(q) + 1, NEW e \in Nat \ {NULL}
  PROVE  /\ InsertAt(q, i, e) \in Nodes /\ Len(InsertAt(q, i, e)) = Len(q) + 1
         /\ \A j \in 1 .. Len(q) + 1 :
              InsertAt(q, i, e)[j] = IF j < i THEN q[j] ELSE IF j = i THEN e ELSE q[j - 1]
<1> DEFINE S == Nat \ {NULL}
<1>1. q \in Seq(S) /\ e \in S
  BY DEF Nodes
<1> HIDE DEF S
<1>2. InsertAt(q, i, e) \in Seq(S)
  BY <1>1, InsertAtIsShift
<1>3. Len(InsertAt(q, i, e)) = Len(q) + 1
  BY <1>1, InsertAtIsShift
<1>4. \A j \in 1 .. Len(q) + 1 :
        InsertAt(q, i, e)[j] = IF j < i THEN q[j] ELSE IF j = i THEN e ELSE q[j - 1]
  BY <1>1, InsertAtIsShift
<1>5. QED
  BY <1>2, <1>3, <1>4 DEF Nodes, S

LEMMA NodesRemove ==
  ASSUME NEW q \in Nodes, NEW i \in 1 .. Len(q)
  PROVE  /\ RemoveAt(q, i) \in Nodes /\ Len(RemoveAt(q, i)) = Len(q) - 1
         /\ \A j \in 1 .. Len(q) - 1 : RemoveAt(q, i)[j] = IF j < i THEN q[j] ELSE q[j + 1]
         /\ IsInjective(q) => IsInjective(RemoveAt(q, i))
<1> DEFINE r == RemoveAt(q, i)
<1>1. /\ r \in Nodes /\ Len(r) = Len(q) - 1
      /\ \A j \in 1 .. Len(q) - 1 : r[j] = IF j < i THEN q[j] ELSE q[j + 1]
  BY RemoveAtIsShift DEF Nodes
<1> HIDE DEF r
<1>2. /\ DOMAIN q = 1 .. Len(q) /\ Len(q) \in Nat /\ DOMAIN r = 1 .. Len(q) - 1
  BY <1>1, NodeAtFacts
<1>3. IsInjective(q) => IsInjective(r)
  <2>1. SUFFICES ASSUME IsInjective(q), NEW j \in 1 .. Len(q) - 1, NEW k \in 1 .. Len(q) - 1, r[j] = r[k]
                 PROVE  j = k
    BY <1>2 DEF IsInjective
  <2> DEFINE Old(x) == IF x < i THEN x ELSE x + 1
  <2>2. /\ Old(j) \in DOMAIN q /\ r[j] = q[Old(j)]
        /\ Old(k) \in DOMAIN q /\ r[k] = q[Old(k)]
    BY <1>1, <1>2
  <2> HIDE DEF Old
  <2>3. Old(j) = Old(k)
    BY <2>1, <2>2 DEF IsInjective
  <2>4. QED
    BY <1>2, <2>3 DEF Old
<1>4. QED
  BY <1>1, <1>3 DEF r

\* What it means for a list to spell a sequence, index by index.
LEMMA SpellsFacts ==
  ASSUME NEW l, NEW q \in Nodes, NEW n, n = Len(q)
  PROVE  Spells(l, q) <=>
           /\ l.head = NodeAt(q, 1) /\ l.tail = NodeAt(q, n)
           /\ \A j \in 1 .. n :
                /\ q[j] \in DOMAIN l.prev /\ l.prev[q[j]] = NodeAt(q, j - 1)
                /\ q[j] \in DOMAIN l.next /\ l.next[q[j]] = NodeAt(q, j + 1)
BY NodeAtFacts DEF Spells

\* list_delete takes one node out of the list.
LEMMA ListDeleteFacts ==
  ASSUME NEW l, NEW q \in Nodes, IsInjective(q), Spells(l, q), NEW i \in 1 .. Len(q)
  PROVE  Spells(ListDelete(l, q[i]), RemoveAt(q, i))
<1> DEFINE n == Len(q)
           r == RemoveAt(q, i)
           d == ListDelete(l, q[i])
           before == NodeAt(q, i - 1)
           after == NodeAt(q, i + 1)
<1>1. /\ n \in Nat /\ i \in 1 .. n
      /\ \A j \in 1 .. n : NodeAt(q, j) = q[j] /\ q[j] # NULL
      /\ NodeAt(q, 0) = NULL /\ NodeAt(q, n + 1) = NULL
      /\ \A j, k \in 1 .. n : q[j] = q[k] => j = k
  BY NodeAtFacts DEF IsInjective
<1>2. /\ r \in Nodes /\ Len(r) = n - 1
      /\ \A j \in 1 .. n - 1 : r[j] = IF j < i THEN q[j] ELSE q[j + 1]
  BY RemoveAtIsShift DEF Nodes
<1>3. /\ l.head = NodeAt(q, 1) /\ l.tail = NodeAt(q, n)
      /\ \A j \in 1 .. n : /\ q[j] \in DOMAIN l.prev /\ l.prev[q[j]] = NodeAt(q, j - 1)
                           /\ q[j] \in DOMAIN l.next /\ l.next[q[j]] = NodeAt(q, j + 1)
  BY SpellsFacts
<1>4. /\ d.head = IF l.head = q[i] THEN after ELSE l.head
      /\ d.tail = IF l.tail = q[i] THEN before ELSE l.tail
      /\ d.prev = Put(PutUnlessNull(l.prev, after, before), q[i], NULL)
      /\ d.next = Put(PutUnlessNull(l.next, before, after), q[i], NULL)
  BY <1>3 DEF ListDelete
<1>5. /\ \A j \in 1 .. n - 1 : NodeAt(r, j) = r[j]
      /\ NodeAt(r, 0) = NULL /\ NodeAt(r, n) = NULL
  <2>1. n - 1 + 1 = n
    BY <1>1
  <2>2. QED
    BY <1>2, <2>1, NodeAtFacts
<1> HIDE DEF d, r, n
<1>6. ASSUME NEW j \in 0 .. n
      PROVE  NodeAt(r, j) = IF j < i THEN NodeAt(q, j) ELSE NodeAt(q, j + 1)
  <2>1. CASE j = 0 \/ j = n
    BY <1>1, <1>5, <2>1
  <2>2. CASE j \in 1 .. n - 1
    BY <1>1, <1>2, <1>5, <2>2
  <2>3. QED
    BY <1>1, <2>1, <2>2
<1>7. d.head = NodeAt(r, 1) /\ d.tail = NodeAt(r, n - 1)
  <2>1. (l.head = q[i] <=> i = 1) /\ (l.tail = q[i] <=> i = n)
    BY <1>1, <1>3
  <2>2. NodeAt(r, 1) = IF 1 < i THEN NodeAt(q, 1) ELSE NodeAt(q, 2)
    BY <1>1, <1>6
  <2>3. NodeAt(r, n - 1) = IF n - 1 < i THEN NodeAt(q, n - 1) ELSE NodeAt(q, n)
    BY <1>1, <1>6
  <2>4. QED
    BY <1>1, <1>3, <1>4, <2>1, <2>2, <2>3
<1>8. ASSUME NEW k \in 1 .. n, k # i
      PROVE  /\ q[k] \in DOMAIN d.prev
             /\ d.prev[q[k]] = IF k = i + 1 THEN NodeAt(q, i - 1) ELSE NodeAt(q, k - 1)
             /\ q[k] \in DOMAIN d.next
             /\ d.next[q[k]] = IF k = i - 1 THEN NodeAt(q, i + 1) ELSE NodeAt(q, k + 1)
  <2>1. q[k] # q[i] /\ q[k] # NULL /\ q[k] \in DOMAIN l.prev /\ q[k] \in DOMAIN l.next
    BY <1>1, <1>3, <1>8
  <2>2. q[k] = after <=> k = i + 1
    <3>1. CASE i = n
      BY <1>1, <2>1, <3>1
    <3>2. CASE i + 1 \in 1 .. n
      BY <1>1, <2>1, <3>2
    <3>3. QED
      BY <1>1, <3>1, <3>2
  <2>3. q[k] = before <=> k = i - 1
    <3>1. CASE i = 1
      BY <1>1, <2>1, <3>1
    <3>2. CASE i - 1 \in 1 .. n
      BY <1>1, <2>1, <3>2
    <3>3. QED
      BY <1>1, <3>1, <3>2
  <2> HIDE DEF before, after
  <2>4. /\ q[k] \in DOMAIN PutUnlessNull(l.prev, after, before)
        /\ PutUnlessNull(l.prev, after, before)[q[k]] =
             IF q[k] = after THEN before ELSE l.prev[q[k]]
    BY <2>1, PutUnlessNullFacts
  <2>5. /\ q[k] \in DOMAIN PutUnlessNull(l.next, before, after)
        /\ PutUnlessNull(l.next, before, after)[q[k]] =
             IF q[k] = before THEN after ELSE l.next[q[k]]
    BY <2>1, PutUnlessNullFacts
  <2>6. /\ q[k] \in DOMAIN d.prev
        /\ d.prev[q[k]] = IF q[k] = after THEN before ELSE l.prev[q[k]]
    BY <1>4, <2>1, <2>4, PutFacts
  <2>7. /\ q[k] \in DOMAIN d.next
        /\ d.next[q[k]] = IF q[k] = before THEN after ELSE l.next[q[k]]
    BY <1>4, <2>1, <2>5, PutFacts
  <2>8. QED
    BY <1>3, <2>2, <2>3, <2>6, <2>7 DEF before, after
<1>9. ASSUME NEW j \in 1 .. n - 1
      PROVE  /\ r[j] \in DOMAIN d.prev /\ d.prev[r[j]] = NodeAt(r, j - 1)
             /\ r[j] \in DOMAIN d.next /\ d.next[r[j]] = NodeAt(r, j + 1)
  <2>1. /\ NodeAt(r, j - 1) = IF j - 1 < i THEN NodeAt(q, j - 1) ELSE NodeAt(q, j)
        /\ NodeAt(r, j + 1) = IF j + 1 < i THEN NodeAt(q, j + 1) ELSE NodeAt(q, j + 2)
    <3>1. j - 1 \in 0 .. n /\ j + 1 \in 0 .. n /\ (j - 1) + 1 = j /\ (j + 1) + 1 = j + 2
      BY <1>1, <1>9
    <3>2. QED
      BY <1>6, <3>1
  <2>2. CASE j < i
    <3>1. j \in 1 .. n /\ j # i /\ r[j] = q[j] /\ j # i + 1 /\ j - 1 < i
      BY <1>1, <1>2, <1>9, <2>2
    <3>2. j + 1 < i \/ (j + 1 = i /\ j = i - 1 /\ j + 2 = i + 1)
      BY <1>1, <2>2
    <3>3. QED
      BY <1>8, <2>1, <3>1, <3>2
  <2>3. CASE ~(j < i)
    <3>1. /\ j + 1 \in 1 .. n /\ j + 1 # i /\ r[j] = q[j + 1] /\ j + 1 # i - 1 /\ ~(j + 1 < i)
          /\ (j + 1) + 1 = j + 2 /\ (j + 1) - 1 = j
      BY <1>1, <1>2, <1>9, <2>3
    <3>2. (j = i /\ j - 1 < i) \/ (j + 1 # i + 1 /\ ~(j - 1 < i))
      BY <1>1, <2>3
    <3>3. QED
      BY <1>8, <2>1, <3>1, <3>2
  <2>4. QED
    BY <2>2, <2>3
<1>10. QED
  BY <1>2, <1>7, <1>9, SpellsFacts DEF d, r

\* list_add_tail puts a node behind the others.
LEMMA ListAddTailFacts ==
  ASSUME NEW l, NEW q \in Nodes, IsInjective(q), Spells(l, q),
         NEW e \in Nat \ {NULL}, e \notin ToSet(q)
  PROVE  Spells(ListAddTail(l, e), Append(q, e))
<1> DEFINE n == Len(q)
           r == Append(q, e)
           d == ListAddTail(l, e)
<1>1. /\ n \in Nat
      /\ \A j \in 1 .. n : NodeAt(q, j) = q[j] /\ q[j] # NULL /\ q[j] # e
      /\ NodeAt(q, 0) = NULL /\ NodeAt(q, n + 1) = NULL
      /\ \A j, k \in 1 .. n : q[j] = q[k] => j = k
  BY NodeAtFacts DEF IsInjective, ToSet
<1>2. /\ r \in Nodes /\ Len(r) = n + 1
      /\ \A j \in 1 .. n : r[j] = q[j]
      /\ r[n + 1] = e
  BY DEF Nodes
<1> HIDE DEF r
<1>3. /\ l.head = NodeAt(q, 1) /\ l.tail = NodeAt(q, n)
      /\ \A j \in 1 .. n : /\ q[j] \in DOMAIN l.prev /\ l.prev[q[j]] = NodeAt(q, j - 1)
                           /\ q[j] \in DOMAIN l.next /\ l.next[q[j]] = NodeAt(q, j + 1)
  BY SpellsFacts
<1>4. /\ d.head = IF l.tail = NULL THEN e ELSE l.head
      /\ d.tail = e
      /\ d.prev = Put(l.prev, e, l.tail)
      /\ d.next = PutUnlessNull(Put(l.next, e, NULL), l.tail, e)
  BY DEF ListAddTail
<1>5. /\ \A j \in 1 .. n + 1 : NodeAt(r, j) = r[j]
      /\ NodeAt(r, 0) = NULL /\ NodeAt(r, n + 2) = NULL
  <2>1. n + 1 + 1 = n + 2
    BY <1>1
  <2>2. QED
    BY <1>2, <2>1, NodeAtFacts
<1> HIDE DEF d, n
<1>6. (\A j \in 0 .. n : NodeAt(r, j) = NodeAt(q, j)) /\ NodeAt(r, n + 1) = e
  BY <1>1, <1>2, <1>5
<1>7. d.head = NodeAt(r, 1) /\ d.tail = NodeAt(r, n + 1)
  BY <1>1, <1>3, <1>4, <1>6
<1>8. ASSUME NEW j \in 1 .. n
      PROVE  /\ r[j] \in DOMAIN d.prev /\ d.prev[r[j]] = NodeAt(r, j - 1)
             /\ r[j] \in DOMAIN d.next /\ d.next[r[j]] = NodeAt(r, j + 1)
  <2> DEFINE x == q[j]
             f == Put(l.next, e, NULL)
  <2>0. n \in 1 .. n /\ l.tail = q[n]
    BY <1>1, <1>3
  <2>1. /\ x # e /\ x # NULL /\ x \in DOMAIN l.prev /\ x \in DOMAIN l.next /\ r[j] = x
        /\ (x = l.tail <=> j = n)
    BY <1>1, <1>2, <1>3, <2>0
  <2> HIDE DEF x
  <2>2. x \in DOMAIN d.prev /\ d.prev[x] = l.prev[x]
    BY <1>4, <2>1, PutFacts
  <2>3. x \in DOMAIN f /\ f[x] = l.next[x]
    BY <2>1, PutFacts
  <2>4. x \in DOMAIN d.next /\ d.next[x] = IF j = n THEN e ELSE l.next[x]
    BY <1>4, <2>1, <2>3, PutUnlessNullFacts
  <2>5. l.prev[x] = NodeAt(q, j - 1) /\ l.next[x] = NodeAt(q, j + 1)
    BY <1>3 DEF x
  <2>6. NodeAt(r, j - 1) = NodeAt(q, j - 1)
    BY <1>1, <1>6
  <2>7. NodeAt(r, j + 1) = IF j = n THEN e ELSE NodeAt(q, j + 1)
    BY <1>1, <1>6
  <2>8. QED
    BY <2>1, <2>2, <2>4, <2>5, <2>6, <2>7
<1>9. /\ e \in DOMAIN d.prev /\ d.prev[e] = NodeAt(r, n)
      /\ e \in DOMAIN d.next /\ d.next[e] = NULL
  <2> DEFINE f == Put(l.next, e, NULL)
  <2>1. e \in DOMAIN f /\ f[e] = NULL
    BY PutFacts
  <2>2. e # l.tail
    BY <1>1, <1>3
  <2>3. NodeAt(r, n) = l.tail
    BY <1>1, <1>3, <1>6
  <2>4. e \in DOMAIN d.next /\ d.next[e] = NULL
    BY <1>4, <2>1, <2>2, PutUnlessNullFacts
  <2>5. QED
    BY <1>4, <2>3, <2>4, PutFacts
<1>10. ASSUME NEW j \in 1 .. n + 1
       PROVE  /\ r[j] \in DOMAIN d.prev /\ d.prev[r[j]] = NodeAt(r, j - 1)
              /\ r[j] \in DOMAIN d.next /\ d.next[r[j]] = NodeAt(r, j + 1)
  <2>1. CASE j \in 1 .. n
    BY <1>8, <2>1
  <2>2. CASE j = n + 1
    <3>1. j - 1 = n /\ j + 1 = n + 2
      BY <1>1, <2>2
    <3>2. QED
      BY <1>2, <1>5, <1>9, <2>2, <3>1
  <2>3. QED
    BY <1>1, <2>1, <2>2
<1>11. QED
  BY <1>2, <1>7, <1>10, SpellsFacts DEF d, r

\* list_add_before puts a node before the one at position i.
LEMMA ListAddBeforeFacts ==
  ASSUME NEW l, NEW q \in Nodes, IsInjective(q), Spells(l, q), NEW i \in 1 .. Len(q),
         NEW e \in Nat \ {NULL}, e \notin ToSet(q)
  PROVE  Spells(ListAddBefore(l, q[i], e), InsertAt(q, i, e))
<1> DEFINE n == Len(q)
           r == InsertAt(q, i, e)
           d == ListAddBefore(l, q[i], e)
           before == NodeAt(q, i - 1)
<1>1. /\ n \in Nat /\ i \in 1 .. n /\ i \in 1 .. n + 1
      /\ \A j \in 1 .. n : NodeAt(q, j) = q[j] /\ q[j] # NULL /\ q[j] # e
      /\ NodeAt(q, 0) = NULL /\ NodeAt(q, n + 1) = NULL
      /\ \A j, k \in 1 .. n : q[j] = q[k] => j = k
  BY NodeAtFacts DEF IsInjective, ToSet
<1>2. /\ r \in Nodes /\ Len(r) = n + 1
      /\ \A j \in 1 .. n + 1 : r[j] = IF j < i THEN q[j] ELSE IF j = i THEN e ELSE q[j - 1]
  <2>1. i \in 1 .. Len(q) + 1
    BY <1>1
  <2>2. QED
    BY <2>1, NodesInsert
<1>3. /\ l.head = NodeAt(q, 1) /\ l.tail = NodeAt(q, n)
      /\ \A j \in 1 .. n : /\ q[j] \in DOMAIN l.prev /\ l.prev[q[j]] = NodeAt(q, j - 1)
                           /\ q[j] \in DOMAIN l.next /\ l.next[q[j]] = NodeAt(q, j + 1)
  BY SpellsFacts
<1>4. /\ d.head = IF before = NULL THEN e ELSE l.head
      /\ d.tail = l.tail
      /\ d.prev = Put(Put(l.prev, e, before), q[i], e)
      /\ d.next = PutUnlessNull(Put(l.next, e, q[i]), before, e)
  BY <1>1, <1>3 DEF ListAddBefore
<1>5. /\ \A j \in 1 .. n + 1 : NodeAt(r, j) = r[j]
      /\ NodeAt(r, 0) = NULL /\ NodeAt(r, n + 2) = NULL
  <2>1. n + 1 + 1 = n + 2
    BY <1>1
  <2>2. QED
    BY <1>2, <2>1, NodeAtFacts
<1> HIDE DEF d, r, n
<1>6. ASSUME NEW j \in 0 .. n + 2
      PROVE  NodeAt(r, j) = IF j < i THEN NodeAt(q, j) ELSE IF j = i THEN e ELSE NodeAt(q, j - 1)
  <2>1. CASE j = 0
    BY <1>1, <1>5, <2>1
  <2>2. CASE j = n + 2
    <3>1. j - 1 = n + 1 /\ ~(j < i) /\ j # i
      BY <1>1, <2>2
    <3>2. QED
      BY <1>1, <1>5, <2>2, <3>1
  <2>3. CASE j \in 1 .. n + 1
    <3>1. NodeAt(r, j) = IF j < i THEN q[j] ELSE IF j = i THEN e ELSE q[j - 1]
      BY <1>2, <1>5, <2>3
    <3>2. j < i => j \in 1 .. n
      BY <1>1, <2>3
    <3>3. ~(j < i) /\ j # i => j - 1 \in 1 .. n
      BY <1>1, <2>3
    <3>4. QED
      BY <1>1, <3>1, <3>2, <3>3
  <2>4. QED
    BY <1>1, <2>1, <2>2, <2>3
<1>7. (before = NULL <=> i = 1) /\ before # e
  <2>1. CASE i = 1
    BY <1>1, <2>1
  <2>2. CASE i - 1 \in 1 .. n
    BY <1>1, <2>2
  <2>3. QED
    BY <1>1, <2>1, <2>2
<1>8. d.head = NodeAt(r, 1) /\ d.tail = NodeAt(r, n + 1)
  <2>1. NodeAt(r, 1) = IF 1 < i THEN NodeAt(q, 1) ELSE e
    BY <1>1, <1>6
  <2>2. NodeAt(r, n + 1) = NodeAt(q, n)
    <3>1. n + 1 \in 0 .. n + 2 /\ ~(n + 1 < i) /\ n + 1 # i /\ (n + 1) - 1 = n
      BY <1>1
    <3>2. QED
      BY <1>6, <3>1
  <2>3. QED
    BY <1>1, <1>3, <1>4, <1>7, <2>1, <2>2
<1>9. ASSUME NEW k \in 1 .. n
      PROVE  /\ q[k] \in DOMAIN d.prev
             /\ d.prev[q[k]] = IF k = i THEN e ELSE NodeAt(q, k - 1)
             /\ q[k] \in DOMAIN d.next
             /\ d.next[q[k]] = IF k = i - 1 THEN e ELSE NodeAt(q, k + 1)
  <2> DEFINE f == Put(l.prev, e, before)
             g == Put(l.next, e, q[i])
  <2>1. /\ q[k] # e /\ q[k] # NULL /\ q[k] \in DOMAIN l.prev /\ q[k] \in DOMAIN l.next
        /\ (q[k] = q[i] <=> k = i)
    BY <1>1, <1>3
  <2>2. q[k] = before <=> k = i - 1
    <3>1. CASE i = 1
      BY <1>1, <2>1, <3>1
    <3>2. CASE i - 1 \in 1 .. n
      BY <1>1, <2>1, <3>2
    <3>3. QED
      BY <1>1, <3>1, <3>2
  <2> HIDE DEF before
  <2>3. q[k] \in DOMAIN f /\ f[q[k]] = l.prev[q[k]]
    BY <2>1, PutFacts
  <2>4. q[k] \in DOMAIN g /\ g[q[k]] = l.next[q[k]]
    BY <2>1, PutFacts
  <2> HIDE DEF f, g
  <2>5. q[k] \in DOMAIN d.prev /\ d.prev[q[k]] = IF q[k] = q[i] THEN e ELSE l.prev[q[k]]
    BY <1>4, <2>1, <2>3, PutFacts DEF f
  <2>6. q[k] \in DOMAIN d.next /\ d.next[q[k]] = IF q[k] = before THEN e ELSE l.next[q[k]]
    BY <1>4, <2>1, <2>4, PutUnlessNullFacts DEF g
  <2>7. QED
    BY <1>3, <2>1, <2>2, <2>5, <2>6
<1>10. /\ e \in DOMAIN d.prev /\ d.prev[e] = before
       /\ e \in DOMAIN d.next /\ d.next[e] = q[i]
  <2> DEFINE f == Put(l.prev, e, before)
             g == Put(l.next, e, q[i])
  <2>1. e \in DOMAIN f /\ f[e] = before /\ e \in DOMAIN g /\ g[e] = q[i]
    BY PutFacts
  <2>2. e # q[i] /\ e # NULL
    BY <1>1
  <2> HIDE DEF before, f, g
  <2>3. e \in DOMAIN d.prev /\ d.prev[e] = before
    BY <1>4, <2>1, <2>2, PutFacts DEF f
  <2>4. e \in DOMAIN d.next /\ d.next[e] = q[i]
    BY <1>4, <1>7, <2>1, <2>2, PutUnlessNullFacts DEF g
  <2>5. QED
    BY <2>3, <2>4
<1>11. ASSUME NEW j \in 1 .. n + 1
       PROVE  /\ r[j] \in DOMAIN d.prev /\ d.prev[r[j]] = NodeAt(r, j - 1)
              /\ r[j] \in DOMAIN d.next /\ d.next[r[j]] = NodeAt(r, j + 1)
  <2>1. /\ NodeAt(r, j - 1) = IF j - 1 < i THEN NodeAt(q, j - 1)
                              ELSE IF j - 1 = i THEN e ELSE NodeAt(q, j - 2)
        /\ NodeAt(r, j + 1) = IF j + 1 < i THEN NodeAt(q, j + 1)
                              ELSE IF j + 1 = i THEN e ELSE NodeAt(q, j)
    <3>1. /\ j - 1 \in 0 .. n + 2 /\ j + 1 \in 0 .. n + 2
          /\ (j - 1) - 1 = j - 2 /\ (j + 1) - 1 = j
      BY <1>1, <1>11
    <3>2. QED
      BY <1>6, <3>1
  <2>2. CASE j < i
    <3>1. j \in 1 .. n /\ j # i /\ r[j] = q[j] /\ j - 1 < i /\ (j = i - 1 <=> j + 1 = i)
          /\ (j + 1 < i \/ j + 1 = i)
      BY <1>1, <1>2, <1>11, <2>2
    <3>2. QED
      BY <1>9, <2>1, <3>1
  <2>3. CASE j = i
    <3>1. r[j] = e /\ j - 1 < i /\ ~(j + 1 < i) /\ j + 1 # i /\ NodeAt(q, j) = q[i]
      BY <1>1, <1>2, <1>11, <2>3
    <3>2. QED
      BY <1>10, <2>1, <2>3, <3>1
  <2>4. CASE j > i
    <3>1. /\ j - 1 \in 1 .. n /\ r[j] = q[j - 1] /\ j - 1 # i - 1
          /\ ~(j - 1 < i) /\ ~(j + 1 < i) /\ j + 1 # i
          /\ (j - 1) + 1 = j /\ (j - 1) - 1 = j - 2
      BY <1>1, <1>2, <1>11, <2>4
    <3>2. QED
      BY <1>9, <2>1, <3>1
  <2>5. QED
    BY <1>1, <2>2, <2>3, <2>4
<1>12. QED
  BY <1>2, <1>8, <1>11, SpellsFacts DEF d, r

\* list_add_head puts a node before all of them.
LEMMA ListAddHeadFacts ==
  ASSUME NEW l, NEW q \in Nodes, IsInjective(q), Spells(l, q),
         NEW e \in Nat \ {NULL}, e \notin ToSet(q)
  PROVE  Spells(ListAddHead(l, e), InsertAt(q, 1, e))
<1> DEFINE n == Len(q)
           r == InsertAt(q, 1, e)
           d == ListAddHead(l, e)
<1>1. /\ n \in Nat /\ 1 \in 1 .. n + 1
      /\ \A j \in 1 .. n : NodeAt(q, j) = q[j] /\ q[j] # NULL /\ q[j] # e
      /\ NodeAt(q, 0) = NULL /\ NodeAt(q, n + 1) = NULL
      /\ \A j, k \in 1 .. n : q[j] = q[k] => j = k
  BY NodeAtFacts DEF IsInjective, ToSet
<1>2. /\ r \in Nodes /\ Len(r) = n + 1 /\ r[1] = e
      /\ \A j \in 1 .. n : r[j + 1] = q[j]
  <2>1. /\ r \in Nodes /\ Len(r) = n + 1
        /\ \A j \in 1 .. n + 1 : r[j] = IF j < 1 THEN q[j] ELSE IF j = 1 THEN e ELSE q[j - 1]
    <3>1. 1 \in 1 .. Len(q) + 1
      BY <1>1
    <3>2. QED
      BY <3>1, NodesInsert
  <2> HIDE DEF r, n
  <2>2. \A j \in 1 .. n : j + 1 \in 1 .. n + 1 /\ ~(j + 1 < 1) /\ j + 1 # 1 /\ (j + 1) - 1 = j
    BY <1>1
  <2>3. QED
    BY <1>1, <2>1, <2>2
<1>3. /\ l.head = NodeAt(q, 1) /\ l.tail = NodeAt(q, n)
      /\ \A j \in 1 .. n : /\ q[j] \in DOMAIN l.prev /\ l.prev[q[j]] = NodeAt(q, j - 1)
                           /\ q[j] \in DOMAIN l.next /\ l.next[q[j]] = NodeAt(q, j + 1)
  BY SpellsFacts
<1>4. /\ d.head = e
      /\ d.tail = IF l.head = NULL THEN e ELSE l.tail
      /\ d.prev = PutUnlessNull(Put(l.prev, e, NULL), l.head, e)
      /\ d.next = Put(l.next, e, l.head)
  BY DEF ListAddHead
<1>5. /\ \A j \in 1 .. n + 1 : NodeAt(r, j) = r[j]
      /\ NodeAt(r, 0) = NULL /\ NodeAt(r, n + 2) = NULL
  <2>1. n + 1 + 1 = n + 2
    BY <1>1
  <2>2. QED
    BY <1>2, <2>1, NodeAtFacts
<1> HIDE DEF d, r, n
<1>6. /\ NodeAt(r, 1) = e
      /\ \A j \in 1 .. n + 1 : NodeAt(r, j + 1) = NodeAt(q, j)
  <2>1. \A j \in 1 .. n : NodeAt(r, j + 1) = NodeAt(q, j)
    BY <1>1, <1>2, <1>5
  <2>2. NodeAt(r, (n + 1) + 1) = NodeAt(q, n + 1)
    <3>1. (n + 1) + 1 = n + 2
      BY <1>1
    <3>2. QED
      BY <1>1, <1>5, <3>1
  <2>3. QED
    BY <1>1, <1>2, <1>5, <2>1, <2>2
<1>7. (l.head = NULL <=> n = 0) /\ l.head # e
  <2>1. CASE n = 0
    BY <1>1, <1>3, <2>1
  <2>2. CASE 1 \in 1 .. n
    BY <1>1, <1>3, <2>2
  <2>3. QED
    BY <1>1, <2>1, <2>2
<1>8. d.head = NodeAt(r, 1) /\ d.tail = NodeAt(r, n + 1)
  <2>1. CASE n = 0
    BY <1>4, <1>6, <1>7, <2>1
  <2>2. CASE n \in 1 .. n + 1
    BY <1>3, <1>4, <1>6, <1>7, <2>2
  <2>3. QED
    BY <1>1, <2>1, <2>2
<1>9. ASSUME NEW k \in 1 .. n
      PROVE  /\ q[k] \in DOMAIN d.prev /\ d.prev[q[k]] = NodeAt(r, k)
             /\ q[k] \in DOMAIN d.next /\ d.next[q[k]] = NodeAt(r, k + 2)
  <2> DEFINE f == Put(l.prev, e, NULL)
  <2>1. /\ q[k] # e /\ q[k] # NULL /\ q[k] \in DOMAIN l.prev /\ q[k] \in DOMAIN l.next
        /\ (q[k] = l.head <=> k = 1)
    <3>1. 1 \in 1 .. n /\ l.head = q[1]
      BY <1>1, <1>3
    <3>2. QED
      BY <1>1, <1>3, <3>1
  <2>2. q[k] \in DOMAIN f /\ f[q[k]] = l.prev[q[k]]
    BY <2>1, PutFacts
  <2> HIDE DEF f
  <2>3. q[k] \in DOMAIN d.prev /\ d.prev[q[k]] = IF k = 1 THEN e ELSE l.prev[q[k]]
    BY <1>4, <2>1, <2>2, PutUnlessNullFacts DEF f
  <2>4. q[k] \in DOMAIN d.next /\ d.next[q[k]] = l.next[q[k]]
    BY <1>4, <2>1, PutFacts
  <2>5. k # 1 => NodeAt(r, k) = NodeAt(q, k - 1)
    <3>1. k # 1 => k - 1 \in 1 .. n + 1 /\ (k - 1) + 1 = k
      BY <1>1
    <3>2. QED
      BY <1>6, <3>1
  <2>6. NodeAt(r, k + 2) = NodeAt(q, k + 1)
    <3>1. k + 1 \in 1 .. n + 1 /\ (k + 1) + 1 = k + 2
      BY <1>1
    <3>2. QED
      BY <1>6, <3>1
  <2>7. QED
    BY <1>3, <1>6, <2>3, <2>4, <2>5, <2>6
<1>10. /\ e \in DOMAIN d.prev /\ d.prev[e] = NULL
       /\ e \in DOMAIN d.next /\ d.next[e] = l.head
  <2> DEFINE f == Put(l.prev, e, NULL)
  <2>1. e \in DOMAIN f /\ f[e] = NULL
    BY PutFacts
  <2> HIDE DEF f
  <2>2. e \in DOMAIN d.prev /\ d.prev[e] = NULL
    BY <1>4, <1>7, <2>1, PutUnlessNullFacts DEF f
  <2>3. QED
    BY <1>4, <2>2, PutFacts
<1>11. ASSUME NEW j \in 1 .. n + 1
       PROVE  /\ r[j] \in DOMAIN d.prev /\ d.prev[r[j]] = NodeAt(r, j - 1)
              /\ r[j] \in DOMAIN d.next /\ d.next[r[j]] = NodeAt(r, j + 1)
  <2>1. CASE j = 1
    <3>1. j - 1 = 0 /\ NodeAt(r, 1 + 1) = NodeAt(q, 1)
      BY <1>1, <1>6, <2>1
    <3>2. QED
      BY <1>2, <1>3, <1>5, <1>10, <2>1, <3>1
  <2>2. CASE j # 1
    <3>1. j - 1 \in 1 .. n /\ (j - 1) + 1 = j /\ (j - 1) + 2 = j + 1
      BY <1>1, <2>2
    <3>2. r[j] = q[j - 1]
      BY <1>2, <3>1
    <3>3. QED
      BY <1>9, <3>1, <3>2
  <2>3. QED
    BY <2>1, <2>2
<1>12. QED
  BY <1>2, <1>8, <1>11, SpellsFacts DEF d, r

-----------------------------------------------------------------------------
(* What is overwritten, and what is left.                                  *)

\* A claim is an address and the block that the header there should give.  This
\* is what reading a memory meets: the nodes of the list and the headers claimed.
Reads(m, q, C) ==
  /\ Spells(m.list, q)
  /\ \A c \in C : HasHeader(m, c[1], c[2])

\* Every node of the list is claimed.
Claimed(q, C) == \A i \in DOMAIN q : \E c \in C : c[1] = q[i]

\* A block has no cell of a claimed header.
Clear(C, b) == \A c \in C : Apart(Header(c[1]), b)

\* A field of a header that is spared keeps its value.
LEMMA SparedFacts ==
  ASSUME NEW f, NEW b, NEW x \in DOMAIN f, Apart(Header(x), b)
  PROVE  x \in DOMAIN Spared(f, b) /\ Spared(f, b)[x] = f[x]
BY DEF Spared, Restrict

\* Overwriting a block that is clear of the claims changes nothing that is read.
LEMMA OverwriteReads ==
  ASSUME NEW m, NEW q, NEW C, Reads(m, q, C), Claimed(q, C), NEW b, Clear(C, b)
  PROVE  Reads(Overwrite(m, b), q, C)
<1> DEFINE o == Overwrite(m, b)
<1>1. /\ o.list.head = m.list.head /\ o.list.tail = m.list.tail
      /\ o.list.prev = Spared(m.list.prev, b) /\ o.list.next = Spared(m.list.next, b)
      /\ o.block = Spared(m.block, b)
  BY DEF Overwrite
<1> HIDE DEF o
<1>2. ASSUME NEW i \in DOMAIN q
      PROVE  /\ q[i] \in DOMAIN o.list.prev /\ o.list.prev[q[i]] = m.list.prev[q[i]]
             /\ q[i] \in DOMAIN o.list.next /\ o.list.next[q[i]] = m.list.next[q[i]]
  <2>1. Apart(Header(q[i]), b)
    BY DEF Claimed, Clear
  <2>2. q[i] \in DOMAIN m.list.prev /\ q[i] \in DOMAIN m.list.next
    BY DEF Reads, Spells
  <2>3. QED
    BY <1>1, <2>1, <2>2, SparedFacts
<1>3. Spells(o.list, q)
  BY <1>1, <1>2 DEF Reads, Spells
<1>4. ASSUME NEW c \in C PROVE HasHeader(o, c[1], c[2])
  <2>1. Apart(Header(c[1]), b) /\ c[1] \in DOMAIN m.block /\ m.block[c[1]] = c[2]
    BY DEF Clear, Reads, HasHeader
  <2>2. QED
    BY <1>1, <2>1, SparedFacts DEF HasHeader
<1>5. QED
  BY <1>3, <1>4 DEF Reads, o

\* Headers that lie apart have different addresses.
LEMMA HeadersDiffer ==
  ASSUME NEW a \in Nat, NEW x \in Nat, Apart(Header(a), Header(x))
  PROVE  a # x
BY PhysmemAssumption DEF Apart, Header

\* A header that is written clear of the claims is a further one.
LEMMA WriteReads ==
  ASSUME NEW m, NEW q, NEW C, Reads(m, q, C), Claimed(q, C),
         NEW a \in Nat, NEW b, Clear(C, Header(a)), \A c \in C : c[1] \in Nat
  PROVE  Reads(WriteHeader(m, a, b), q, C \cup {<<a, b>>})
<1> DEFINE o == Overwrite(m, Header(a))
           w == WriteHeader(m, a, b)
<1>1. Reads(o, q, C)
  BY OverwriteReads
<1>2. /\ w.list.head = o.list.head /\ w.list.tail = o.list.tail
      /\ w.list.prev = Put(o.list.prev, a, NULL) /\ w.list.next = Put(o.list.next, a, NULL)
      /\ w.block = Put(o.block, a, b)
  BY DEF WriteHeader, ListNodeInit
<1>3. \A c \in C : c[1] # a
  BY HeadersDiffer DEF Clear
<1> HIDE DEF o, w
<1>4. ASSUME NEW i \in DOMAIN q
      PROVE  /\ q[i] \in DOMAIN w.list.prev /\ w.list.prev[q[i]] = o.list.prev[q[i]]
             /\ q[i] \in DOMAIN w.list.next /\ w.list.next[q[i]] = o.list.next[q[i]]
  <2>1. q[i] # a
    BY <1>3 DEF Claimed
  <2>2. q[i] \in DOMAIN o.list.prev /\ q[i] \in DOMAIN o.list.next
    BY <1>1 DEF Reads, Spells
  <2>3. QED
    BY <1>2, <2>1, <2>2, PutFacts
<1>5. Spells(w.list, q)
  BY <1>1, <1>2, <1>4 DEF Reads, Spells
<1>6. ASSUME NEW c \in C PROVE HasHeader(w, c[1], c[2])
  <2>1. c[1] # a /\ c[1] \in DOMAIN o.block /\ o.block[c[1]] = c[2]
    BY <1>1, <1>3 DEF Reads, HasHeader
  <2>2. QED
    BY <1>2, <2>1, PutFacts DEF HasHeader
<1>7. HasHeader(w, a, b)
  BY <1>2, PutFacts DEF HasHeader
<1>8. QED
  BY <1>5, <1>6, <1>7 DEF Reads, w

\* A block that is added to the free list is its last node.
LEMMA AddReads ==
  ASSUME NEW m, NEW q \in Nodes, IsInjective(q), NEW C, Reads(m, q, C), Claimed(q, C),
         NEW b, b.start \in Nat \ {NULL}, Clear(C, Header(b.start)), \A c \in C : c[1] \in Nat
  PROVE  Reads(AddToFreeList(m, b), Append(q, b.start), C \cup {<<b.start, b>>})
<1> DEFINE a == b.start
           w == WriteHeader(m, a, b)
           d == AddToFreeList(m, b)
<1>1. Reads(w, q, C \cup {<<a, b>>})
  BY WriteReads
<1>2. d.list = ListAddTail(w.list, a) /\ d.block = w.block
  BY DEF AddToFreeList, InitMemoryRegionNode
<1>3. a \notin ToSet(q)
  BY HeadersDiffer DEF Clear, Claimed, ToSet
<1> HIDE DEF w, d
<1>4. Spells(d.list, Append(q, a))
  BY <1>1, <1>2, <1>3, ListAddTailFacts DEF Reads
<1>5. QED
  BY <1>1, <1>2, <1>4 DEF Reads, HasHeader, d

-----------------------------------------------------------------------------
(* The headers of the blocks.                                              *)

\* The headers that physmem.c may read: one in each block.
FreeClaims == {<<freelist[i].start, freelist[i]>> : i \in DOMAIN freelist}
LiveClaims == {<<p - HeaderSize, BlockOf(p)>> : p \in DOMAIN live}
Claims == FreeClaims \cup LiveClaims

Inside(c, b) == b.start <= c.start /\ c.start + c.size <= b.start + b.size

LEMMA ListInRamReads == ListInRam <=> Reads(ram, FreeStarts, Claims)
<1>1. Claims = {<<freelist[i].start, freelist[i]>> : i \in DOMAIN freelist}
               \cup {<<p - HeaderSize, BlockOf(p)>> : p \in DOMAIN live}
  BY DEF Claims, FreeClaims, LiveClaims, FreeClaims, LiveClaims
<1>2. ASSUME ListInRam PROVE Reads(ram, FreeStarts, Claims)
  BY <1>1, <1>2 DEF ListInRam, Reads
<1>3. ASSUME Reads(ram, FreeStarts, Claims) PROVE ListInRam
  <2>1. ASSUME NEW i \in DOMAIN freelist PROVE HasHeader(ram, freelist[i].start, freelist[i])
    <3>1. <<freelist[i].start, freelist[i]>> \in Claims
      BY <1>1
    <3>2. QED
      BY <1>3, <3>1 DEF Reads
  <2>2. ASSUME NEW p \in DOMAIN live PROVE HasHeader(ram, p - HeaderSize, BlockOf(p))
    <3>1. <<p - HeaderSize, BlockOf(p)>> \in Claims
      BY <1>1
    <3>2. QED
      BY <1>3, <3>1 DEF Reads
  <2>3. QED
    BY <1>3, <2>1, <2>2 DEF ListInRam, Reads
<1>4. QED
  BY <1>2, <1>3

\* What lies in blocks that are apart is apart.
LEMMA InsideApart ==
  ASSUME NEW b \in Block, NEW c \in Block, Apart(b, c),
         NEW h \in Block, Inside(h, b), NEW g \in Block, Inside(g, c)
  PROVE  Apart(h, g)
BY DEF Block, Apart, Inside

LEMMA HeaderIsBlock == \A a \in Nat : Header(a) \in Block
BY PhysmemAssumption DEF Header, Block

LEMMA HeaderInside ==
  ASSUME NEW b \in Block, b.size >= HeaderSize
  PROVE  Inside(Header(b.start), b) /\ Header(b.start) \in Block
<1>1. b.start \in Nat /\ b.size \in Nat /\ HeaderSize \in Nat
  BY PhysmemAssumption DEF Block
<1>2. QED
  BY <1>1, HeaderIsBlock DEF Inside, Header

\* No block begins at address 0, which physmem.c takes for none.
LEMMA NoBlockAtNull ==
  ASSUME NEW start \in Nat, NEW size \in Nat \ {0}, Cells(start, size) \subseteq Pool, added \in Nat,
         added <= Len(BootRanges)
  PROVE  start # NULL
<1> DEFINE R == [start : Nat \ {0}, end : Nat, usable : BOOLEAN]
<1>1. start \in Pool
  BY DEF Cells
<1>2. PICK k \in Usable : start \in BootRanges[k].start .. BootRanges[k].end - 1
  BY <1>1 DEF Pool
<1>3. k \in 1 .. Len(BootRanges) /\ BootRanges \in Seq(R)
  BY PhysmemAssumption DEF Usable
<1> HIDE DEF R
<1>4. BootRanges[k] \in R
  BY <1>3
<1>5. QED
  BY <1>2, <1>4 DEF NULL, R

\* Where the headers are: each in its own block, those of the free blocks where
\* these begin.
Laid ==
  /\ freelist \in Seq(Block)
  /\ \A i \in DOMAIN freelist : freelist[i].start \in Nat \ {NULL}
  /\ \A c \in Claims : c[1] \in Nat /\ c[2] \in Block /\ Inside(Header(c[1]), c[2])

LEMMA IsLaid == IInv => Laid
<1> SUFFICES ASSUME IInv PROVE Laid
  OBVIOUS
<1>1. /\ TypeOK /\ FreeHoldHeaders /\ PayloadsPlaced /\ BlocksInPool
      /\ HeaderSize \in Nat \ {0} /\ added \in Nat /\ added <= Len(BootRanges)
  BY PhysmemAssumption DEF IInv, Separate, TypeOK
<1>2. ASSUME NEW i \in DOMAIN freelist
      PROVE  /\ freelist[i] \in Block /\ freelist[i].start \in Nat \ {NULL}
             /\ Inside(Header(freelist[i].start), freelist[i])
  <2>1. /\ freelist[i] \in Block /\ freelist[i].start \in Nat /\ freelist[i].size \in Nat
        /\ freelist[i].size >= HeaderSize
    BY <1>1, BlockFacts DEF FreeHoldHeaders
  <2>2. freelist[i].start # NULL
    <3>1. freelist[i].size \in Nat \ {0}
      BY <1>1, <2>1
    <3>2. Cells(freelist[i].start, freelist[i].size) \subseteq Pool
      BY <1>1 DEF BlocksInPool
    <3>3. QED
      BY <1>1, <2>1, <3>1, <3>2, NoBlockAtNull
  <2>3. QED
    BY <1>1, <2>1, <2>2 DEF Inside, Header
<1>3. ASSUME NEW p \in DOMAIN live
      PROVE  /\ p - HeaderSize \in Nat /\ BlockOf(p) \in Block
             /\ Inside(Header(p - HeaderSize), BlockOf(p))
  <2>1. /\ p \in Nat /\ live[p].start \in Nat /\ live[p].size \in Nat
        /\ live[p].req.size \in Nat \ {0}
        /\ live[p].start + HeaderSize <= p
        /\ p + live[p].req.size <= live[p].start + live[p].size
    BY <1>1, BlockFacts DEF PayloadsPlaced
  <2>2. QED
    BY <1>1, <2>1 DEF Inside, Header, BlockOf, Block
<1>4. QED
  BY <1>1, <1>2, <1>3 DEF Laid, Claims, FreeClaims, LiveClaims, TypeOK

\* The nodes of the free list, from its blocks.
Starts(f) == [i \in DOMAIN f |-> f[i].start]

LEMMA StartsFacts ==
  ASSUME NEW f \in Seq(Block), \A i \in DOMAIN f : f[i].start \in Nat \ {NULL}
  PROVE  Starts(f) \in Nodes /\ Len(Starts(f)) = Len(f)
<1>1. DOMAIN f = 1 .. Len(f) /\ Len(f) \in Nat
  OBVIOUS
<1>2. Starts(f) \in [1 .. Len(f) -> Nat \ {NULL}]
  BY <1>1 DEF Starts
<1>3. QED
  BY <1>1, <1>2 DEF Nodes

LEMMA StartsAre ==
  ASSUME NEW f \in Seq(Block), NEW q \in Nodes, Len(q) = Len(f),
         \A i \in 1 .. Len(f) : q[i] = f[i].start
  PROVE  q = Starts(f)
<1>1. DOMAIN f = 1 .. Len(f) /\ q \in Seq(Nat \ {NULL}) /\ DOMAIN q = 1 .. Len(q)
  BY DEF Nodes
<1>2. q = [i \in 1 .. Len(q) |-> q[i]]
  BY <1>1
<1>3. QED
  BY <1>1, <1>2 DEF Starts

\* The free list has no node twice.
LEMMA FreeStartsFacts ==
  ASSUME IInv
  PROVE  /\ FreeStarts \in Nodes /\ Len(FreeStarts) = Len(freelist) /\ IsInjective(FreeStarts)
         /\ FreeStarts = Starts(freelist)
         /\ Claimed(FreeStarts, Claims)
<1>1. Laid /\ BlocksApart
  BY IsLaid DEF IInv, Separate
<1>2. FreeStarts = Starts(freelist) /\ DOMAIN FreeStarts = DOMAIN freelist
  BY DEF FreeStarts, Starts
<1>3. FreeStarts \in Nodes /\ Len(FreeStarts) = Len(freelist)
  BY <1>1, <1>2, StartsFacts DEF Laid
<1>4. \A i \in DOMAIN freelist :
        /\ FreeStarts[i] = freelist[i].start
        /\ <<freelist[i].start, freelist[i]>> \in Claims
  BY DEF FreeStarts, Claims, FreeClaims
<1>5. ASSUME NEW i \in DOMAIN freelist, NEW j \in DOMAIN freelist, i # j
      PROVE  FreeStarts[i] # FreeStarts[j]
  <2>1. /\ freelist[i] \in Block /\ freelist[i].start \in Nat
        /\ Inside(Header(freelist[i].start), freelist[i])
        /\ freelist[j] \in Block /\ freelist[j].start \in Nat
        /\ Inside(Header(freelist[j].start), freelist[j])
    BY <1>1, <1>4 DEF Laid
  <2>2. Apart(freelist[i], freelist[j])
    BY <1>1, <1>5 DEF BlocksApart
  <2>3. Apart(Header(freelist[i].start), Header(freelist[j].start))
    BY <2>1, <2>2, HeaderIsBlock, InsideApart
  <2>4. QED
    BY <1>4, <2>1, <2>3, HeadersDiffer
<1>6. IsInjective(FreeStarts)
  BY <1>2, <1>5 DEF IsInjective
<1>7. Claimed(FreeStarts, Claims)
  BY <1>2, <1>4 DEF Claimed
<1>8. QED
  BY <1>2, <1>3, <1>6, <1>7

-----------------------------------------------------------------------------
(* The operations.                                                         *)

\* A memory reads no worse where less is claimed.
LEMMA ReadsLess ==
  ASSUME NEW m, NEW q, NEW C, NEW D, Reads(m, q, C), D \subseteq C
  PROVE  Reads(m, q, D)
BY DEF Reads

\* What is inside a block apart from those of the claims is clear of them.
LEMMA ClearInside ==
  ASSUME NEW C, \A c \in C : c[1] \in Nat /\ c[2] \in Block /\ Inside(Header(c[1]), c[2]),
         NEW b \in Block, \A c \in C : Apart(c[2], b),
         NEW g \in Block, Inside(g, b)
  PROVE  Clear(C, g)
BY HeaderIsBlock, InsideApart DEF Clear

\* kern_physmem_init.
LEMMA RamInitReads == RamInit => ListInRam
<1> SUFFICES ASSUME RamInit PROVE ListInRam
  OBVIOUS
<1>1. /\ ram.list.head = NULL /\ ram.list.tail = NULL
      /\ freelist = << >> /\ live = << >>
  BY DEF RamInit, Init, ListHeadInit
<1>2. DOMAIN FreeStarts = {} /\ DOMAIN freelist = {} /\ DOMAIN live = {}
  BY <1>1 DEF FreeStarts
<1>3. QED
  BY <1>1, <1>2 DEF ListInRam, Spells, NodeAt

\* kern_physmem_add_range.
LEMMA AddRangeReads ==
  ASSUME IInv, IInv', RamAddRange, ListInRam
  PROVE  ListInRam'
<1> DEFINE b == RangeBlock(BootRanges[added + 1])
           n == Len(freelist)
           q == FreeStarts
<1>1. /\ Reads(ram, q, Claims) /\ live' = live
      /\ q \in Nodes /\ Len(q) = n /\ IsInjective(q)
      /\ q = Starts(freelist) /\ Claimed(q, Claims)
  BY ListInRamReads, FreeStartsFacts DEF RamAddRange, AddRange
<1>2. CASE freelist' = freelist /\ ram' = ram
  BY <1>1, <1>2 DEF ListInRam, FreeStarts, BlockOf
<1>3. CASE freelist' = Append(freelist, b) /\ ram' = AddToFreeList(ram, b)
  <2>1. Laid /\ Laid' /\ FreeStarts' = Starts(freelist')
    <3>1. Laid /\ Laid'
      BY IsLaid, PTL
    <3>2. QED
      BY <3>1 DEF FreeStarts, Starts
  <2>2. /\ \A i \in DOMAIN freelist : Apart(b, freelist[i])
        /\ \A p \in DOMAIN live : Apart(b, live[p])
        /\ b \in Block /\ b.start \in Nat /\ b.size \in Nat /\ b.size >= HeaderSize
    <3>1. added + 1 \in added + 1 .. Len(BootRanges) /\ added + 1 \in 1 .. Len(BootRanges)
      BY PhysmemAssumption DEF IInv, Separate, TypeOK, RamAddRange, AddRange
    <3>2. QED
      BY <3>1, RangeFacts DEF IInv, Separate, RangesAhead
  <2> HIDE DEF b, q
  <2>3. /\ n \in Nat /\ Len(freelist') = n + 1 /\ freelist' \in Seq(Block)
        /\ \A i \in 1 .. n : freelist'[i] = freelist[i]
        /\ freelist'[n + 1] = b /\ DOMAIN freelist' = 1 .. n + 1 /\ DOMAIN freelist = 1 .. n
    BY <1>3, <2>1, <2>2 DEF Laid
  <2>4. b.start # NULL
    <3>1. freelist'[n + 1].start \in Nat \ {NULL}
      BY <2>1, <2>3 DEF Laid
    <3>2. QED
      BY <2>3, <3>1
  <2>5. Claims' \subseteq Claims \cup {<<b.start, b>>}
    BY <1>1, <2>3 DEF Claims, FreeClaims, LiveClaims, BlockOf
  <2>6. Clear(Claims, Header(b.start))
    <3>1. \A c \in Claims : Apart(c[2], b)
      BY <2>2 DEF Claims, FreeClaims, LiveClaims, BlockOf, Apart
    <3>2. Inside(Header(b.start), b) /\ Header(b.start) \in Block
      BY <2>2, HeaderInside
    <3>3. QED
      BY <2>1, <2>2, <3>1, <3>2, ClearInside DEF Laid
  <2>7. Reads(ram', Append(q, b.start), Claims \cup {<<b.start, b>>})
    BY <1>1, <1>3, <2>1, <2>2, <2>4, <2>6, AddReads DEF Laid
  <2>8. Append(q, b.start) = FreeStarts'
    <3>1. /\ Append(q, b.start) \in Nodes /\ Len(Append(q, b.start)) = n + 1
          /\ \A i \in 1 .. n : Append(q, b.start)[i] = q[i]
          /\ Append(q, b.start)[n + 1] = b.start
      BY <1>1, <2>2, <2>3, <2>4 DEF Nodes
    <3>2. \A i \in 1 .. n : q[i] = freelist[i].start
      BY <1>1, <2>3 DEF Starts
    <3>3. \A i \in 1 .. n + 1 : Append(q, b.start)[i] = freelist'[i].start
      BY <2>3, <3>1, <3>2
    <3>4. QED
      BY <2>1, <2>3, <3>1, <3>3, StartsAre
  <2>9. (ListInRam <=> Reads(ram, FreeStarts, Claims))'
    BY ListInRamReads, PTL
  <2>10. QED
    BY <2>5, <2>7, <2>8, <2>9, ReadsLess
<1>4. QED
  BY <1>2, <1>3 DEF RamAddRange, AddRange

\* In kern_physmem_alloc, when the block is off the list and what is left over
\* is back on it.
LEMMA SplitReads ==
  ASSUME IInv, IInv', ListInRam, NEW r \in Requests, NEW i \in DOMAIN freelist, AllocFrom(i, r)
  PROVE  Reads(RamAfterSplit(freelist[i], r), FreeStarts', FreeClaims' \cup LiveClaims)
<1> DEFINE b == freelist[i]
           n == Len(freelist)
           q == FreeStarts
           q1 == RemoveAt(q, i)
           off == [list |-> ListDelete(ram.list, b.start), block |-> ram.block]
           s == RamAfterSplit(b, r)
           Others == {<<freelist[j].start, freelist[j]>> : j \in DOMAIN freelist \ {i}} \cup LiveClaims
<1>1. /\ Laid /\ Laid' /\ TypeOK /\ BlocksApart
      /\ Reads(ram, q, Claims) /\ q \in Nodes /\ Len(q) = n /\ IsInjective(q)
      /\ q = Starts(freelist)
  <2>1. Laid /\ Laid'
    BY IsLaid, PTL
  <2>2. QED
    BY <2>1, ListInRamReads, FreeStartsFacts DEF IInv, Separate
<1>2. /\ n \in Nat /\ DOMAIN freelist = 1 .. n /\ i \in 1 .. n /\ b \in Block
      /\ \A j \in 1 .. n : q[j] = freelist[j].start
  BY <1>1 DEF Laid, Starts
<1>3. /\ freelist' \in Seq(Block) /\ Len(freelist') = IF Splits(b, r) THEN n ELSE n - 1
      /\ \A j \in 1 .. n - 1 : freelist'[j] = IF j < i THEN freelist[j] ELSE freelist[j + 1]
      /\ Splits(b, r) => freelist'[n] = Rest(b, r)
  BY <1>1, FreelistAfterAlloc
<1>4. /\ q1 \in Nodes /\ Len(q1) = n - 1 /\ IsInjective(q1)
      /\ \A j \in 1 .. n - 1 : q1[j] = IF j < i THEN q[j] ELSE q[j + 1]
  BY <1>1, <1>2, NodesRemove
<1> HIDE DEF n, q1, q
<1>5. Others \subseteq Claims /\ LiveClaims \subseteq Others
  BY DEF Claims, FreeClaims
<1>6. ASSUME NEW j \in 1 .. n, j # i PROVE <<freelist[j].start, freelist[j]>> \in Others
  BY <1>2, <1>6
<1>7. \A c \in Others : c[1] \in Nat /\ c[2] \in Block /\ Inside(Header(c[1]), c[2]) /\ Apart(c[2], b)
  <2>1. \A c \in Others : Apart(c[2], b)
    BY <1>1, <1>2 DEF LiveClaims, BlocksApart, BlockOf, Apart
  <2>2. QED
    BY <1>1, <1>5, <2>1 DEF Laid
<1> HIDE DEF Others
<1>8. Reads(off, q1, Others)
  <2>1. Spells(ListDelete(ram.list, q[i]), q1)
    BY <1>1, <1>2, ListDeleteFacts DEF Reads, q1
  <2>2. QED
    BY <1>1, <1>2, <1>5, <2>1 DEF Reads, HasHeader
<1>9. \A j \in 1 .. n - 1 :
        /\ q1[j] = freelist'[j].start
        /\ <<freelist'[j].start, freelist'[j]>> \in Others
  <2>1. ASSUME NEW j \in 1 .. n - 1
        PROVE  /\ q1[j] = freelist'[j].start
               /\ <<freelist'[j].start, freelist'[j]>> \in Others
    <3>1. CASE j < i
      <4>1. j \in 1 .. n /\ j # i
        BY <1>2, <3>1
      <4>2. QED
        BY <1>2, <1>3, <1>4, <1>6, <3>1, <4>1
    <3>2. CASE ~(j < i)
      <4>1. j + 1 \in 1 .. n /\ j + 1 # i
        BY <1>2, <3>2
      <4>2. QED
        BY <1>2, <1>3, <1>4, <1>6, <3>2, <4>1
    <3>3. QED
      BY <3>1, <3>2
  <2>2. QED
    BY <2>1
<1>10. Claimed(q1, Others)
  <2>1. DOMAIN q1 = 1 .. n - 1
    BY <1>4 DEF Nodes
  <2>2. ASSUME NEW j \in DOMAIN q1 PROVE \E c \in Others : c[1] = q1[j]
    <3>1. /\ <<freelist'[j].start, freelist'[j]>> \in Others
          /\ <<freelist'[j].start, freelist'[j]>>[1] = q1[j]
      BY <1>9, <2>1
    <3>2. QED
      BY <3>1
  <2>3. QED
    BY <2>2 DEF Claimed
<1>11. FreeStarts' = Starts(freelist') /\ DOMAIN freelist' = 1 .. Len(freelist')
  BY <1>3 DEF FreeStarts, Starts
<1>12. CASE ~Splits(b, r)
  <2>1. s = off
    BY <1>12 DEF RamAfterSplit
  <2>2. q1 = FreeStarts'
    BY <1>3, <1>4, <1>9, <1>11, <1>12, StartsAre
  <2>3. FreeClaims' \cup LiveClaims \subseteq Others
    BY <1>3, <1>5, <1>9, <1>11, <1>12 DEF FreeClaims
  <2> HIDE DEF s, off
  <2>4. QED
    BY <1>8, <2>1, <2>2, <2>3, ReadsLess DEF s
<1>13. CASE Splits(b, r)
  <2> DEFINE d == Rest(b, r)
  <2>1. s = AddToFreeList(off, d)
    BY <1>13 DEF RamAfterSplit
  <2>2. /\ d \in Block /\ d.start \in Nat \ {NULL}
        /\ Inside(Header(d.start), d) /\ Inside(d, b)
    <3>1. n \in DOMAIN freelist' /\ freelist'[n] = d
      BY <1>2, <1>3, <1>11, <1>13
    <3>2. d \in Block /\ d.start \in Nat \ {NULL}
      BY <1>1, <3>1 DEF Laid
    <3>3. d.size >= HeaderSize
      BY <3>1 DEF IInv, Separate, FreeHoldHeaders
    <3>4. Inside(d, b)
      BY <1>2, AllocArithmetic DEF Rest, Inside
    <3>5. QED
      BY <3>2, <3>3, <3>4, HeaderInside
  <2> HIDE DEF s, off, d, b
  <2>3. Clear(Others, Header(d.start))
    <3>1. Inside(Header(d.start), b) /\ Header(d.start) \in Block
      <4>1. b.start \in Nat /\ b.size \in Nat /\ d.start \in Nat /\ d.size \in Nat
        BY <1>2, <2>2 DEF Block
      <4>2. Header(d.start) \in Block /\ Header(d.start).start \in Nat /\ Header(d.start).size \in Nat
        BY <2>2, HeaderIsBlock DEF Block
      <4>3. QED
        BY <2>2, <4>1, <4>2 DEF Inside
    <3>2. QED
      BY <1>2, <1>7, <3>1, ClearInside
  <2>4. Reads(s, Append(q1, d.start), Others \cup {<<d.start, d>>})
    BY <1>4, <1>7, <1>8, <1>10, <2>1, <2>2, <2>3, AddReads
  <2>5. Append(q1, d.start) = FreeStarts'
    <3>1. /\ Append(q1, d.start) \in Nodes /\ Len(Append(q1, d.start)) = n
          /\ \A j \in 1 .. n - 1 : Append(q1, d.start)[j] = q1[j]
          /\ Append(q1, d.start)[n] = d.start
      BY <1>2, <1>4, <2>2 DEF Nodes
    <3>2. \A j \in 1 .. n : Append(q1, d.start)[j] = freelist'[j].start
      <4>1. freelist'[n] = d
        BY <1>3, <1>13 DEF d
      <4>2. \A j \in 1 .. n : j = n \/ j \in 1 .. n - 1
        BY <1>2
      <4>3. QED
        BY <1>9, <3>1, <4>1, <4>2
    <3>3. QED
      BY <1>3, <1>11, <1>13, <3>1, <3>2, StartsAre
  <2>6. FreeClaims' \cup LiveClaims \subseteq Others \cup {<<d.start, d>>}
    <3>1. ASSUME NEW j \in DOMAIN freelist'
          PROVE  <<freelist'[j].start, freelist'[j]>> \in Others \cup {<<d.start, d>>}
      <4>1. j \in 1 .. n - 1 \/ (j = n /\ freelist'[j] = d)
        BY <1>2, <1>3, <1>11, <1>13 DEF d
      <4>2. QED
        BY <1>9, <4>1
    <3>2. QED
      BY <1>5, <3>1 DEF FreeClaims
  <2>7. QED
    BY <2>4, <2>5, <2>6, ReadsLess DEF s, b
<1>14. QED
  BY <1>12, <1>13

\* kern_physmem_alloc: the memory that is zeroed, and the header that is put
\* before the payload, are in a block that has no other header.
LEMMA AllocReads ==
  ASSUME IInv, IInv', ListInRam, NEW r \in Requests, NEW zero \in BOOLEAN,
         NEW i \in DOMAIN freelist, RamAlloc(i, r, zero)
  PROVE  ListInRam'
<1> DEFINE b == freelist[i]
           pay == PayloadStart(b, r)
           a == pay - HeaderSize
           t == Taken(b, r)
           C == FreeClaims' \cup LiveClaims
           q == FreeStarts'
           split == RamAfterSplit(b, r)
           clean == IF zero THEN Overwrite(split, t) ELSE split
<1>1. AllocFrom(i, r) /\ ram' = WriteHeader(clean, a, t)
  BY DEF RamAlloc, RamAfterAlloc
<1>2. Laid' /\ BlocksApart' /\ (ListInRam <=> Reads(ram, FreeStarts, Claims))'
  <2>1. Laid' /\ (ListInRam <=> Reads(ram, FreeStarts, Claims))'
    BY IsLaid, ListInRamReads, PTL
  <2>2. QED
    BY <2>1 DEF IInv, Separate
<1>3. /\ pay \notin DOMAIN live /\ DOMAIN live' = DOMAIN live \cup {pay}
      /\ \A p \in DOMAIN live : live'[p] = live[p]
      /\ live'[pay].start = t.start /\ live'[pay].size = t.size
      /\ [start |-> live'[pay].start, size |-> live'[pay].size] = t
  <2>1. TypeOK /\ PayloadsPlaced /\ BlocksApart
    BY DEF IInv, Separate
  <2>2. /\ pay \notin DOMAIN live /\ DOMAIN live' = DOMAIN live \cup {pay}
        /\ \A p \in DOMAIN live : live'[p] = live[p]
        /\ live'[pay] = [start |-> b.start,
                         size |-> IF Splits(b, r) THEN Needed(b, r) ELSE b.size,
                         req |-> r]
    BY <1>1, <2>1, LiveAfterAlloc
  <2> HIDE DEF pay
  <2>3. QED
    BY <2>2 DEF Taken
<1>4. Reads(split, q, C)
  BY <1>1, SplitReads
<1> HIDE DEF b, split, t, pay
<1>5. \A p \in DOMAIN live : <<p - HeaderSize, BlockOf(p)>> \in LiveClaims'
  BY <1>3 DEF LiveClaims, BlockOf
<1>6. C \subseteq Claims' /\ <<a, t>> \in Claims' /\ Claims' \subseteq C \cup {<<a, t>>}
  BY <1>3, <1>5 DEF Claims, LiveClaims, BlockOf
<1>7. \A c \in C : c[1] \in Nat /\ c[2] \in Block /\ Inside(Header(c[1]), c[2]) /\ Apart(c[2], t)
  <2>1. \A c \in FreeClaims' : Apart(c[2], t)
    BY <1>2, <1>3 DEF FreeClaims, BlocksApart, Apart
  <2>2. \A c \in LiveClaims : Apart(c[2], t)
    <3>1. ASSUME NEW p \in DOMAIN live PROVE Apart(BlockOf(p), t)
      <4>1. Apart(live'[p], live'[pay])
        BY <1>2, <1>3 DEF BlocksApart
      <4>2. QED
        BY <1>3, <4>1 DEF BlockOf, Apart
    <3>2. QED
      BY <3>1 DEF LiveClaims
  <2>3. QED
    BY <1>2, <1>6, <2>1, <2>2 DEF Laid
<1>8. a \in Nat /\ t \in Block /\ Inside(Header(a), t) /\ Inside(t, t)
  <2>1. a \in Nat /\ t \in Block /\ Inside(Header(a), t)
    BY <1>2, <1>6 DEF Laid
  <2>2. QED
    BY <2>1 DEF Inside, Block
<1> HIDE DEF a
<1>9. Claimed(q, C)
  <2>1. \A j \in DOMAIN freelist' :
          /\ FreeStarts'[j] = freelist'[j].start
          /\ <<freelist'[j].start, freelist'[j]>> \in FreeClaims'
    BY DEF FreeStarts, FreeClaims
  <2>2. DOMAIN q = DOMAIN freelist'
    BY DEF FreeStarts
  <2>3. ASSUME NEW j \in DOMAIN q PROVE \E c \in C : c[1] = q[j]
    <3>1. /\ <<freelist'[j].start, freelist'[j]>> \in C
          /\ <<freelist'[j].start, freelist'[j]>>[1] = q[j]
      BY <2>1, <2>2
    <3>2. QED
      BY <3>1
  <2> HIDE DEF q, C
  <2>4. QED
    BY <2>3 DEF Claimed
<1> HIDE DEF q, C
<1>10. Clear(C, t) /\ Clear(C, Header(a))
  BY <1>7, <1>8, HeaderIsBlock, ClearInside
<1>11. Reads(clean, q, C)
  BY <1>4, <1>9, <1>10, OverwriteReads
<1> HIDE DEF clean
<1>12. Reads(ram', q, C \cup {<<a, t>>})
  BY <1>1, <1>7, <1>8, <1>9, <1>10, <1>11, WriteReads
<1>13. Reads(ram', q, Claims')
  BY <1>6, <1>12, ReadsLess
<1>14. QED
  BY <1>2, <1>13 DEF q

\* There is one place where kern_physmem_free puts a block.
LEMMA FreeSpotUnique ==
  ASSUME Laid, NEW b \in Block,
         NEW k \in 1 .. Len(freelist) + 1, NEW l \in 1 .. Len(freelist) + 1,
         FreeSpot(b, k), FreeSpot(b, l)
  PROVE  k = l
<1>1. /\ DOMAIN freelist = 1 .. Len(freelist) /\ Len(freelist) \in Nat /\ b.start \in Nat
      /\ \A i \in 1 .. Len(freelist) : freelist[i].start \in Nat
  BY DEF Laid, Block
<1>2. QED
  BY <1>1 DEF FreeSpot

\* kern_physmem_free: the block is the one its header tells of, and its place is
\* the one found by walking the list.
LEMMA FreeReads ==
  ASSUME IInv, IInv', ListInRam, NEW p \in DOMAIN live, RamFree(p)
  PROVE  ListInRam'
<1> DEFINE b == BlockOf(p)
           e == b.start
           n == Len(freelist)
           q == FreeStarts
           m == InitMemoryRegionNode(ram, b)
           D == FreeClaims \cup {<<o - HeaderSize, BlockOf(o)>> : o \in DOMAIN live \ {p}}
           E == D \cup {<<e, b>>}
<1>1. /\ Laid /\ Laid' /\ TypeOK /\ BlocksApart /\ Free(p)
      /\ (ListInRam <=> Reads(ram, FreeStarts, Claims))'
      /\ Reads(ram, q, Claims) /\ q \in Nodes /\ Len(q) = n /\ IsInjective(q)
      /\ q = Starts(freelist) /\ n \in Nat /\ DOMAIN freelist = 1 .. n
  <2>1. Laid /\ Laid' /\ (ListInRam <=> Reads(ram, FreeStarts, Claims))'
    BY IsLaid, ListInRamReads, PTL
  <2>2. TypeOK /\ BlocksApart /\ Free(p)
    BY DEF IInv, Separate, RamFree
  <2>3. n \in Nat /\ DOMAIN freelist = 1 .. n
    BY <2>1 DEF Laid
  <2>4. QED
    BY <2>1, <2>2, <2>3, ListInRamReads, FreeStartsFacts
<1>2. ram.block[p - HeaderSize] = b
  BY DEF ListInRam, HasHeader
<1>3. PICK pos \in 1 .. n + 1 :
        /\ FreeSpot(b, pos)
        /\ ram' = [list |-> IF pos \in DOMAIN freelist /\ freelist[pos].start > e
                              THEN ListAddBefore(m.list, freelist[pos].start, e)
                              ELSE ListAddHead(m.list, e),
                   block |-> m.block]
  BY <1>2 DEF RamFree, RamAfterFree
<1>4. b \in Block /\ freelist' = InsertAt(freelist, pos, b)
  <2>1. PICK k \in 1 .. n + 1 : FreeSpot(b, k) /\ freelist' = InsertAt(freelist, k, b)
    BY <1>1 DEF Free
  <2>2. b \in Block
    BY <1>1, FreelistAfterFree
  <2>3. k = pos
    BY <1>1, <1>3, <2>1, <2>2, FreeSpotUnique
  <2>4. QED
    BY <2>1, <2>2, <2>3
<1>5. /\ DOMAIN live' = DOMAIN live \ {p}
      /\ \A o \in DOMAIN live' : live'[o] = live[o]
  BY <1>1 DEF Free, Restrict
<1>6. /\ DOMAIN freelist' = 1 .. n + 1 /\ Len(freelist') = n + 1 /\ freelist' \in Seq(Block)
      /\ \A j \in 1 .. n + 1 :
           freelist'[j] = IF j < pos THEN freelist[j] ELSE IF j = pos THEN b ELSE freelist[j - 1]
  <2> DEFINE f == freelist
             c == b
  <2>1. f \in Seq(Block) /\ pos \in 1 .. Len(f) + 1 /\ c \in Block
    BY <1>1, <1>4 DEF Laid
  <2> HIDE DEF f, c
  <2>2. InsertAt(f, pos, c) \in Seq(Block)
    BY <2>1, InsertAtIsShift
  <2>3. Len(InsertAt(f, pos, c)) = Len(f) + 1
    BY <2>1, InsertAtIsShift
  <2>4. \A j \in 1 .. Len(f) + 1 :
          InsertAt(f, pos, c)[j] = IF j < pos THEN f[j] ELSE IF j = pos THEN c ELSE f[j - 1]
    BY <2>1, InsertAtIsShift
  <2>5. QED
    BY <1>4, <2>2, <2>3, <2>4 DEF f, c
<1> HIDE DEF b, n
<1>7. /\ e \in Nat \ {NULL} /\ Inside(Header(e), b) /\ Header(e) \in Block
  <2>1. pos \in DOMAIN freelist' /\ freelist'[pos] = b
    BY <1>6
  <2>2. e \in Nat \ {NULL}
    BY <1>1, <2>1 DEF Laid
  <2>3. b.size >= HeaderSize
    BY <2>1 DEF IInv, Separate, FreeHoldHeaders
  <2>4. QED
    BY <1>4, <2>2, <2>3, HeaderInside
<1>8. \A c \in D : c[1] \in Nat /\ c[2] \in Block /\ Inside(Header(c[1]), c[2]) /\ Apart(c[2], b)
  <2>1. \A c \in FreeClaims : Apart(c[2], b)
    BY <1>1 DEF FreeClaims, BlocksApart, Apart, BlockOf, b
  <2>2. \A o \in DOMAIN live \ {p} : Apart(BlockOf(o), b)
    BY <1>1 DEF BlocksApart, Apart, BlockOf, b
  <2>3. D \subseteq Claims
    BY DEF Claims, LiveClaims
  <2>4. QED
    BY <1>1, <2>1, <2>2, <2>3 DEF Laid
<1>9. Claims' \subseteq E
  <2>1. ASSUME NEW j \in DOMAIN freelist' PROVE <<freelist'[j].start, freelist'[j]>> \in E
    <3>1. \/ j = pos /\ freelist'[j] = b
          \/ \E k \in 1 .. n : freelist'[j] = freelist[k]
      BY <1>1, <1>6
    <3>2. \A k \in 1 .. n : <<freelist[k].start, freelist[k]>> \in D
      BY <1>1 DEF FreeClaims
    <3>3. QED
      BY <3>1, <3>2
  <2>2. ASSUME NEW o \in DOMAIN live' PROVE <<o - HeaderSize, BlockOf(o)'>> \in E
    BY <1>5 DEF BlockOf
  <2>3. QED
    BY <2>1, <2>2 DEF Claims, FreeClaims, LiveClaims
<1>10. Claimed(q, D) /\ \A j \in 1 .. n : q[j] = freelist[j].start
  <2>1. \A j \in 1 .. n : q[j] = freelist[j].start /\ <<freelist[j].start, freelist[j]>> \in D
    BY <1>1 DEF Starts, FreeClaims
  <2>2. DOMAIN q = 1 .. n
    BY <1>1 DEF Starts
  <2>3. QED
    BY <2>1, <2>2 DEF Claimed
<1>11. D \subseteq Claims
  BY DEF Claims, LiveClaims
<1> HIDE DEF D, q, m, e
<1>12. Clear(D, Header(e))
  BY <1>4, <1>7, <1>8, ClearInside
<1>13. Reads(m, q, E)
  <2>1. Reads(ram, q, D)
    BY <1>1, <1>11, ReadsLess
  <2>2. m = WriteHeader(ram, e, b)
    BY DEF m, e, InitMemoryRegionNode
  <2>3. QED
    BY <1>7, <1>8, <1>10, <1>12, <2>1, <2>2, WriteReads
<1>14. e \notin ToSet(q)
  BY <1>7, <1>8, <1>10, <1>12, HeadersDiffer DEF Clear, Claimed, ToSet
<1>15. Spells(ram'.list, InsertAt(q, pos, e)) /\ ram'.block = m.block
  <2>1. CASE pos \in DOMAIN freelist /\ freelist[pos].start > b.start
    <3>1. ram'.list = ListAddBefore(m.list, q[pos], e) /\ ram'.block = m.block /\ pos \in 1 .. Len(q)
      BY <1>1, <1>3, <1>10, <2>1 DEF e
    <3>2. QED
      BY <1>1, <1>7, <1>13, <1>14, <3>1, ListAddBeforeFacts DEF Reads
  <2>2. CASE ~(pos \in DOMAIN freelist /\ freelist[pos].start > b.start)
    <3>1. pos = 1 /\ ram'.list = ListAddHead(m.list, e) /\ ram'.block = m.block
      BY <1>3, <2>2 DEF FreeSpot, e
    <3>2. QED
      BY <1>1, <1>7, <1>13, <1>14, <3>1, ListAddHeadFacts DEF Reads
  <2>3. QED
    BY <2>1, <2>2
<1>16. InsertAt(q, pos, e) = FreeStarts'
  <2>1. FreeStarts' = Starts(freelist')
    BY DEF FreeStarts, Starts
  <2>2. /\ InsertAt(q, pos, e) \in Nodes /\ Len(InsertAt(q, pos, e)) = n + 1
        /\ \A j \in 1 .. n + 1 :
             InsertAt(q, pos, e)[j] = IF j < pos THEN q[j] ELSE IF j = pos THEN e ELSE q[j - 1]
    BY <1>1, <1>7, NodesInsert
  <2>3. ASSUME NEW j \in 1 .. n + 1 PROVE InsertAt(q, pos, e)[j] = freelist'[j].start
    <3>1. CASE j < pos
      <4>1. j \in 1 .. n
        BY <1>1, <3>1
      <4>2. QED
        BY <1>6, <1>10, <2>2, <3>1, <4>1
    <3>2. CASE j = pos
      BY <1>6, <2>2, <3>2 DEF e
    <3>3. CASE j > pos
      <4>1. j - 1 \in 1 .. n /\ ~(j < pos) /\ j # pos
        BY <1>1, <3>3
      <4>2. QED
        BY <1>6, <1>10, <2>2, <4>1
    <3>4. QED
      BY <3>1, <3>2, <3>3
  <2>4. QED
    BY <1>6, <2>1, <2>2, <2>3, StartsAre
<1>17. Reads(ram', FreeStarts', E)
  BY <1>13, <1>15, <1>16 DEF Reads, HasHeader
<1>18. QED
  BY <1>1, <1>9, <1>17, ReadsLess

\* The owner of a block may write what it was given.
LEMMA OwnerReads ==
  ASSUME IInv, ListInRam, NEW p \in DOMAIN live, OwnerWrites(p)
  PROVE  ListInRam'
<1> DEFINE g == [start |-> p, size |-> live[p].req.size]
<1>1. Reads(ram, FreeStarts, Claims) /\ Claimed(FreeStarts, Claims)
  BY ListInRamReads, FreeStartsFacts
<1>2. Clear(Claims, g)
  <2>1. \A c \in Claims : c[1] \in HeaderStarts
    BY DEF Claims, FreeClaims, LiveClaims, HeaderStarts
  <2>2. \A h \in HeaderStarts : Apart(g, Header(h))
    BY HeadersAreIntact DEF HeadersIntact, Header
  <2>3. QED
    BY <2>1, <2>2 DEF Clear, Apart
<1> HIDE DEF g
<1>3. Reads(Overwrite(ram, g), FreeStarts, Claims)
  BY <1>1, <1>2, OverwriteReads
<1>4. ram' = Overwrite(ram, g) /\ UNCHANGED vars
  BY DEF OwnerWrites, g
<1>5. (ListInRam <=> Reads(ram, FreeStarts, Claims))'
  BY ListInRamReads, PTL
<1>6. FreeStarts' = FreeStarts /\ Claims' = Claims
  BY <1>4 DEF vars, FreeStarts, Claims, FreeClaims, LiveClaims, BlockOf
<1>7. QED
  BY <1>3, <1>4, <1>5, <1>6

-----------------------------------------------------------------------------
\* What is written in memory changes nothing about the blocks.
LEMMA RamStepIsStep == [RamNext]_ramVars => [Next]_vars
BY DEF RamNext, RamAddRange, RamAlloc, RamFree, OwnerWrites, Next, ramVars

THEOREM RamImplementsPhysmem == RamSpec => Spec
<1>1. RamInit => Init
  BY DEF RamInit
<1>2. QED
  BY <1>1, RamStepIsStep, PTL DEF RamSpec, Spec

LEMMA RamStepReads ==
  ASSUME IInv, IInv', ListInRam, [RamNext]_ramVars
  PROVE  ListInRam'
<1>1. CASE RamAddRange
  BY <1>1, AddRangeReads
<1>2. ASSUME NEW r \in Requests, NEW zero \in BOOLEAN, NEW i \in DOMAIN freelist,
             RamAlloc(i, r, zero)
      PROVE  ListInRam'
  BY <1>2, AllocReads
<1>3. ASSUME NEW p \in DOMAIN live, RamFree(p) PROVE ListInRam'
  BY <1>3, FreeReads
<1>4. ASSUME NEW p \in DOMAIN live, OwnerWrites(p) PROVE ListInRam'
  BY <1>4, OwnerReads
<1>5. CASE UNCHANGED ramVars
  BY <1>5 DEF ramVars, vars, ListInRam, FreeStarts, BlockOf
<1>6. QED
  BY <1>1, <1>2, <1>3, <1>4, <1>5 DEF RamNext

\* The pointers of the free list and the headers, kept in memory that is split,
\* zeroed, handed out and written by its owners, always say what KernPhysmem's
\* freelist and live say, for any ranges, sizes and alignments.
THEOREM PhysmemListInRam == RamSpec => []ListInRam
<1>1. RamSpec => []IInv
  BY RamImplementsPhysmem, Invariant, PTL
<1>2. IInv /\ IInv' /\ ListInRam /\ [RamNext]_ramVars => ListInRam'
  BY RamStepReads
<1>3. QED
  BY <1>1, <1>2, RamInitReads, PTL DEF RamSpec

=============================================================================
