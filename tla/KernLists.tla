------------------------------ MODULE KernLists ------------------------------
(***************************************************************************)
(* Facts about the lists of the kernel, which are sequences: what          *)
(* list_delete, list_add_tail and list_add_before do to them; and about    *)
(* the place where a search stops, a least or a greatest number.           *)
(***************************************************************************)
EXTENDS Integers, SequencesExt, SequenceTheorems, WellFoundedInduction, TLAPS

\* Deleting the element at place i moves those behind it forward by one.
LEMMA RemoveAtIsShift ==
  ASSUME NEW S, NEW q \in Seq(S), NEW i \in 1 .. Len(q)
  PROVE  /\ RemoveAt(q, i) \in Seq(S)
         /\ Len(RemoveAt(q, i)) = Len(q) - 1
         /\ \A j \in 1 .. Len(q) - 1 :
              RemoveAt(q, i)[j] = IF j < i THEN q[j] ELSE q[j + 1]
<1> DEFINE r == RemoveAt(q, i)
           a == SubSeq(q, 1, i - 1)
           b == SubSeq(q, i + 1, Len(q))
<1>1. r = a \o b
  BY DEF RemoveAt
<1>2. /\ a \in Seq(S) /\ Len(a) = i - 1
      /\ \A j \in 1 .. i - 1 : a[j] = q[j]
  OBVIOUS
<1>3. /\ b \in Seq(S) /\ Len(b) = Len(q) - i
      /\ \A j \in 1 .. Len(q) - i : b[j] = q[i + j]
  OBVIOUS
<1> HIDE DEF r, a, b
<1>4. /\ r \in Seq(S) /\ Len(r) = Len(a) + Len(b)
      /\ \A k \in 1 .. Len(a) + Len(b) :
           r[k] = IF k <= Len(a) THEN a[k] ELSE b[k - Len(a)]
  BY <1>1, <1>2, <1>3, ConcatProperties
<1>5. Len(a) + Len(b) = Len(q) - 1
  BY <1>2, <1>3
<1>6. ASSUME NEW j \in 1 .. Len(q) - 1
      PROVE  r[j] = IF j < i THEN q[j] ELSE q[j + 1]
  <2>1. CASE j < i
    BY <1>2, <1>4, <1>5, <2>1
  <2>2. CASE ~(j < i)
    <3>1. j - (i - 1) \in 1 .. Len(q) - i /\ i + (j - (i - 1)) = j + 1
      BY <2>2
    <3>2. r[j] = b[j - (i - 1)]
      BY <1>2, <1>4, <1>5, <2>2
    <3>3. QED
      BY <1>3, <2>2, <3>1, <3>2
  <2>3. QED
    BY <2>1, <2>2
<1>7. QED
  BY <1>4, <1>5, <1>6 DEF r

\* Inserting an element at place i moves those from there on back by one.
LEMMA InsertAtIsShift ==
  ASSUME NEW S, NEW q \in Seq(S), NEW e \in S, NEW i \in 1 .. Len(q) + 1
  PROVE  /\ InsertAt(q, i, e) \in Seq(S)
         /\ Len(InsertAt(q, i, e)) = Len(q) + 1
         /\ \A j \in 1 .. Len(q) + 1 :
              InsertAt(q, i, e)[j] = IF j < i THEN q[j] ELSE IF j = i THEN e ELSE q[j - 1]
<1> DEFINE r == InsertAt(q, i, e)
           a == SubSeq(q, 1, i - 1)
           b == SubSeq(q, i, Len(q))
           c == a \o <<e>>
<1>1. r = c \o b
  BY DEF InsertAt
<1>2. /\ a \in Seq(S) /\ Len(a) = i - 1
      /\ \A j \in 1 .. i - 1 : a[j] = q[j]
  OBVIOUS
<1>3. /\ b \in Seq(S) /\ Len(b) = Len(q) - i + 1
      /\ \A j \in 1 .. Len(q) - i + 1 : b[j] = q[i + j - 1]
  OBVIOUS
<1> HIDE DEF r, a, b
<1>4. <<e>> \in Seq(S) /\ Len(<<e>>) = 1 /\ <<e>>[1] = e
  OBVIOUS
<1>5. /\ c \in Seq(S) /\ Len(c) = i
      /\ \A j \in 1 .. i - 1 : c[j] = q[j]
      /\ c[i] = e
  BY <1>2, <1>4, ConcatProperties
<1> HIDE DEF c
<1>6. /\ r \in Seq(S) /\ Len(r) = Len(c) + Len(b)
      /\ \A k \in 1 .. Len(c) + Len(b) :
           r[k] = IF k <= Len(c) THEN c[k] ELSE b[k - Len(c)]
  BY <1>1, <1>3, <1>5, ConcatProperties
<1>7. Len(c) + Len(b) = Len(q) + 1
  BY <1>3, <1>5
<1>8. ASSUME NEW j \in 1 .. Len(q) + 1
      PROVE  r[j] = IF j < i THEN q[j] ELSE IF j = i THEN e ELSE q[j - 1]
  <2>1. CASE j <= i
    BY <1>5, <1>6, <1>7, <2>1
  <2>2. CASE j > i
    <3>1. j - i \in 1 .. Len(q) - i + 1 /\ i + (j - i) - 1 = j - 1
      BY <2>2
    <3>2. r[j] = b[j - i]
      BY <1>5, <1>6, <1>7, <2>2
    <3>3. QED
      BY <1>3, <2>2, <3>1, <3>2
  <2>3. QED
    BY <2>1, <2>2
<1>9. QED
  BY <1>6, <1>7, <1>8 DEF r

\* Deleting the i-th element of a queue without duplicates.
LEMMA RemoveFirstIsShift ==
  ASSUME NEW S, NEW q \in Seq(S), NEW i \in 1 .. Len(q), IsInjective(q)
  PROVE  /\ RemoveFirst(q, q[i]) \in Seq(S)
         /\ Len(RemoveFirst(q, q[i])) = Len(q) - 1
         /\ \A j \in 1 .. Len(q) - 1 :
              RemoveFirst(q, q[i])[j] = IF j < i THEN q[j] ELSE q[j + 1]
<1>1. \A j \in 1 .. Len(q) : q[j] = q[i] => j = i
  BY DEF IsInjective
<1>2. RemoveFirst(q, q[i]) = RemoveAt(q, i)
  BY <1>1 DEF RemoveFirst, SelectInSeq, Min
<1>3. QED
  BY <1>2, RemoveAtIsShift

\* list_delete of an element that is on the queue: the rest stays, once each.
LEMMA RemoveFirstProps ==
  ASSUME NEW S, NEW q \in Seq(S), IsInjective(q), NEW e \in ToSet(q)
  PROVE  /\ RemoveFirst(q, e) \in Seq(S)
         /\ Len(RemoveFirst(q, e)) = Len(q) - 1
         /\ IsInjective(RemoveFirst(q, e))
         /\ ToSet(RemoveFirst(q, e)) = ToSet(q) \ {e}
<1>1. PICK i \in 1 .. Len(q) : q[i] = e
  BY DEF ToSet
<1> DEFINE r == RemoveFirst(q, e)
<1>2. /\ r \in Seq(S)
      /\ Len(r) = Len(q) - 1
      /\ \A j \in 1 .. Len(r) : r[j] = IF j < i THEN q[j] ELSE q[j + 1]
  BY <1>1, RemoveFirstIsShift
<1> HIDE DEF r
<1>3. ASSUME NEW j \in 1 .. Len(r)
      PROVE  \E k \in 1 .. Len(q) : k # i /\ r[j] = q[k] /\ k = IF j < i THEN j ELSE j + 1
  BY <1>2
<1>4. IsInjective(r)
  <2>1. SUFFICES ASSUME NEW j \in 1 .. Len(r), NEW k \in 1 .. Len(r), r[j] = r[k]
                 PROVE  j = k
    BY <1>2 DEF IsInjective
  <2>2. QED
    BY <1>3, <2>1 DEF IsInjective
<1>5. ToSet(r) \subseteq ToSet(q) \ {e}
  <2>1. SUFFICES ASSUME NEW j \in 1 .. Len(r)
                 PROVE  r[j] \in ToSet(q) /\ r[j] # e
    BY <1>2 DEF ToSet
  <2>2. QED
    BY <1>1, <1>3 DEF ToSet, IsInjective
<1>6. ASSUME NEW x \in ToSet(q) \ {e} PROVE x \in ToSet(r)
  <2>1. PICK k \in 1 .. Len(q) : q[k] = x /\ k # i
    BY <1>1, <1>6 DEF ToSet
  <2>2. CASE k < i
    BY <1>2, <2>1, <2>2 DEF ToSet
  <2>3. CASE k > i
    <3>1. k - 1 \in 1 .. Len(r) /\ r[k - 1] = q[k]
      BY <1>2, <2>1, <2>3
    <3>2. QED
      BY <1>2, <2>1, <3>1 DEF ToSet
  <2>4. QED
    BY <2>1, <2>2, <2>3
<1>7. QED
  BY <1>2, <1>4, <1>5, <1>6 DEF r

\* list_add_tail of an element that is not on the queue.
LEMMA AppendProps ==
  ASSUME NEW S, NEW q \in Seq(S), NEW e \in S, IsInjective(q), e \notin ToSet(q)
  PROVE  /\ Append(q, e) \in Seq(S)
         /\ Len(Append(q, e)) = Len(q) + 1
         /\ IsInjective(Append(q, e))
         /\ ToSet(Append(q, e)) = ToSet(q) \cup {e}
<1> DEFINE r == Append(q, e)
<1>1. /\ r \in Seq(S)
      /\ Len(r) = Len(q) + 1
      /\ \A j \in 1 .. Len(q) : r[j] = q[j]
      /\ r[Len(q) + 1] = e
  OBVIOUS
<1> HIDE DEF r
<1>2. IsInjective(r)
  BY <1>1 DEF IsInjective, ToSet
<1>3. ToSet(r) = ToSet(q) \cup {e}
  BY <1>1 DEF ToSet
<1>4. QED
  BY <1>1, <1>2, <1>3 DEF r

\* Deleting an element and adding it at the tail, as kern_task_select does: the
\* queue keeps its members.
LEMMA RotateProps ==
  ASSUME NEW S, NEW q \in Seq(S), IsInjective(q), NEW e \in ToSet(q)
  PROVE  /\ Append(RemoveFirst(q, e), e) \in Seq(S)
         /\ Len(Append(RemoveFirst(q, e), e)) = Len(q)
         /\ IsInjective(Append(RemoveFirst(q, e), e))
         /\ ToSet(Append(RemoveFirst(q, e), e)) = ToSet(q)
<1> DEFINE r == RemoveFirst(q, e)
<1>1. /\ r \in Seq(S) /\ Len(r) = Len(q) - 1 /\ IsInjective(r)
      /\ ToSet(r) = ToSet(q) \ {e}
  BY RemoveFirstProps
<1>2. e \in S
  BY DEF ToSet
<1> HIDE DEF r
<1>3. /\ Append(r, e) \in Seq(S) /\ Len(Append(r, e)) = Len(r) + 1
      /\ IsInjective(Append(r, e)) /\ ToSet(Append(r, e)) = ToSet(r) \cup {e}
  BY <1>1, <1>2, AppendProps
<1>4. Len(q) \in Nat
  OBVIOUS
<1>5. QED
  BY <1>1, <1>3, <1>4 DEF r

\* The head of a queue that is not empty is on it.
LEMMA HeadProps ==
  ASSUME NEW S, NEW q \in Seq(S), q # <<>>
  PROVE  Head(q) \in ToSet(q) /\ Head(q) \in S
BY DEF ToSet

\* A queue is empty exactly if its length, or the set of its members, is.
LEMMA EmptyProps ==
  ASSUME NEW S, NEW q \in Seq(S)
  PROVE  /\ Len(q) \in Nat /\ ToSet(q) \subseteq S
         /\ q = <<>> <=> ToSet(q) = {}
         /\ q = <<>> <=> Len(q) = 0
<1>1. Len(q) \in Nat /\ ToSet(q) \subseteq S
  BY DEF ToSet
<1>2. q = <<>> <=> Len(q) = 0
  OBVIOUS
<1>3. Len(q) = 0 <=> ToSet(q) = {}
  BY DEF ToSet
<1>4. QED
  BY <1>1, <1>2, <1>3

\* The empty queue has no duplicates and no members.
LEMMA EmptyInjective == IsInjective(<<>>) /\ ToSet(<<>>) = {} /\ Len(<<>>) = 0
BY DEF IsInjective, ToSet

\* list_add_before and list_add_tail of an element that is not on the queue.
LEMMA InsertAtProps ==
  ASSUME NEW S, NEW q \in Seq(S), NEW e \in S, NEW i \in 1 .. Len(q) + 1,
         IsInjective(q), e \notin ToSet(q)
  PROVE  /\ InsertAt(q, i, e) \in Seq(S)
         /\ IsInjective(InsertAt(q, i, e))
         /\ ToSet(InsertAt(q, i, e)) = ToSet(q) \cup {e}
<1> DEFINE r == InsertAt(q, i, e)
<1>1. /\ r \in Seq(S) /\ Len(r) = Len(q) + 1
      /\ \A j \in 1 .. Len(q) + 1 :
           r[j] = IF j < i THEN q[j] ELSE IF j = i THEN e ELSE q[j - 1]
  BY InsertAtIsShift
<1> HIDE DEF r
<1>2. /\ \A j \in 1 .. Len(q) : q[j] \in ToSet(q) /\ q[j] # e
      /\ \A x \in ToSet(q) : \E j \in 1 .. Len(q) : q[j] = x
  BY DEF ToSet
<1>3. ASSUME NEW j \in 1 .. Len(q) + 1
      PROVE  \/ j = i /\ r[j] = e
             \/ \E k \in 1 .. Len(q) : r[j] = q[k] /\ k = IF j < i THEN j ELSE j - 1
  BY <1>1
<1>4. IsInjective(r)
  <2>1. SUFFICES ASSUME NEW j \in 1 .. Len(q) + 1, NEW k \in 1 .. Len(q) + 1, r[j] = r[k]
                 PROVE  j = k
    BY <1>1 DEF IsInjective
  <2>2. \A m, n \in 1 .. Len(q) : q[m] = q[n] => m = n
    BY DEF IsInjective
  <2>3. i \in Int /\ j \in Int /\ k \in Int
    OBVIOUS
  <2>4. CASE j = i
    BY <1>1, <1>2, <1>3, <2>1, <2>4
  <2>5. CASE k = i
    BY <1>1, <1>2, <1>3, <2>1, <2>5
  <2>6. CASE j # i /\ k # i
    <3>1. PICK m \in 1 .. Len(q) : r[j] = q[m] /\ m = IF j < i THEN j ELSE j - 1
      BY <1>3, <2>6
    <3>2. PICK n \in 1 .. Len(q) : r[k] = q[n] /\ n = IF k < i THEN k ELSE k - 1
      BY <1>3, <2>6
    <3>3. m = n
      BY <2>1, <2>2, <3>1, <3>2
    <3>4. QED
      BY <2>3, <2>6, <3>1, <3>2, <3>3
  <2>7. QED
    BY <2>4, <2>5, <2>6
<1>5. \A j \in 1 .. Len(q) + 1 : r[j] \in ToSet(q) \cup {e}
  BY <1>2, <1>3
<1>6. \A x \in ToSet(q) \cup {e} : \E j \in 1 .. Len(q) + 1 : r[j] = x
  <2>1. r[i] = e
    BY <1>1
  <2>2. ASSUME NEW k \in 1 .. Len(q) PROVE \E j \in 1 .. Len(q) + 1 : r[j] = q[k]
    <3>1. CASE k < i
      BY <1>1, <3>1
    <3>2. CASE k >= i
      <4>1. k + 1 \in 1 .. Len(q) + 1 /\ r[k + 1] = q[k]
        BY <1>1, <3>2
      <4>2. QED
        BY <4>1
    <3>3. QED
      BY <3>1, <3>2
  <2>3. QED
    BY <1>2, <2>1, <2>2
<1>7. ToSet(r) = ToSet(q) \cup {e}
  <2>1. DOMAIN r = 1 .. Len(q) + 1
    BY <1>1
  <2>2. ToSet(r) = {r[j] : j \in 1 .. Len(q) + 1}
    BY <2>1 DEF ToSet
  <2>3. QED
    BY <1>5, <1>6, <2>2
<1>8. QED
  BY <1>1, <1>4, <1>7 DEF r

\* A queue cut in two.
LEMMA CutProps ==
  ASSUME NEW S, NEW q \in Seq(S), IsInjective(q), NEW n \in 0 .. Len(q)
  PROVE  LET a == SubSeq(q, 1, n)
             b == SubSeq(q, n + 1, Len(q))
         IN  /\ a \in Seq(S) /\ Len(a) = n /\ \A i \in 1 .. n : a[i] = q[i]
             /\ b \in Seq(S) /\ Len(b) = Len(q) - n
             /\ \A i \in 1 .. Len(q) - n : b[i] = q[n + i]
             /\ IsInjective(a) /\ IsInjective(b)
             /\ ToSet(a) = {q[i] : i \in 1 .. n}
             /\ ToSet(b) = ToSet(q) \ ToSet(a)
<1> DEFINE a == SubSeq(q, 1, n)
           b == SubSeq(q, n + 1, Len(q))
<1>1. a \in Seq(S) /\ Len(a) = n /\ \A i \in 1 .. n : a[i] = q[i]
  OBVIOUS
<1>2. b \in Seq(S) /\ Len(b) = Len(q) - n /\ \A i \in 1 .. Len(q) - n : b[i] = q[n + i]
  OBVIOUS
<1> HIDE DEF a, b
<1>3. \A i, j \in 1 .. Len(q) : q[i] = q[j] => i = j
  BY DEF IsInjective
<1>4. Len(q) \in Nat
  OBVIOUS
<1>5. IsInjective(a)
  BY <1>1, <1>3, <1>4 DEF IsInjective
<1>6. IsInjective(b)
  <2>1. SUFFICES ASSUME NEW i \in 1 .. Len(q) - n, NEW j \in 1 .. Len(q) - n, b[i] = b[j]
                 PROVE  i = j
    BY <1>2 DEF IsInjective
  <2>2. n + i \in 1 .. Len(q) /\ n + j \in 1 .. Len(q) /\ q[n + i] = q[n + j]
    BY <1>2, <1>4, <2>1
  <2>3. n + i = n + j
    BY <1>3, <2>2
  <2>4. QED
    BY <1>4, <2>3
<1>7. ToSet(a) = {q[i] : i \in 1 .. n}
  BY <1>1 DEF ToSet
<1>8. \A x \in ToSet(b) : x \in ToSet(q) \ ToSet(a)
  <2>1. SUFFICES ASSUME NEW i \in 1 .. Len(q) - n PROVE b[i] \in ToSet(q) \ ToSet(a)
    BY <1>2 DEF ToSet
  <2>2. n + i \in 1 .. Len(q) /\ b[i] = q[n + i] /\ \A j \in 1 .. n : j # n + i /\ j \in 1 .. Len(q)
    BY <1>2, <1>4
  <2>3. q[n + i] \in ToSet(q)
    BY <2>2 DEF ToSet
  <2>4. \A j \in 1 .. n : q[j] # q[n + i]
    BY <1>3, <2>2
  <2>5. QED
    BY <1>7, <2>2, <2>3, <2>4
<1>9. \A x \in ToSet(q) \ ToSet(a) : x \in ToSet(b)
  <2>1. SUFFICES ASSUME NEW i \in 1 .. Len(q), q[i] \notin ToSet(a) PROVE q[i] \in ToSet(b)
    BY DEF ToSet
  <2>2. i > n
    BY <1>4, <1>7, <2>1
  <2>3. i - n \in 1 .. Len(q) - n /\ b[i - n] = q[i]
    BY <1>2, <1>4, <2>2
  <2>4. QED
    BY <1>2, <2>3 DEF ToSet
<1>10. QED
  BY <1>1, <1>2, <1>5, <1>6, <1>7, <1>8, <1>9 DEF a, b

-----------------------------------------------------------------------------
(* Least and greatest elements.                                            *)

\* A set of naturals that is not empty has a least element.
LEMMA LeastElement ==
  ASSUME NEW S, S \subseteq Nat, S # {}
  PROVE  Min(S) \in S /\ \A y \in S : Min(S) <= y
<1> DEFINE R == {p \in Nat \X Nat : p[1] < p[2]}
<1>1. IsWellFoundedOn(R, Nat)
  BY NatLessThanWellFounded DEF OpToRel
<1> HIDE DEF R
<1>2. PICK x \in S : \A y \in S : ~(<<y, x>> \in R)
  BY <1>1, WFMin
<1>3. \A y \in S : x <= y
  <2>1. SUFFICES ASSUME NEW y \in S PROVE x <= y
    OBVIOUS
  <2>2. x \in Nat /\ y \in Nat
    OBVIOUS
  <2>3. y < x => <<y, x>> \in R
    BY <2>2 DEF R
  <2>4. QED
    BY <1>2, <2>2, <2>3
<1>4. QED
  BY <1>3 DEF Min

\* One that is bounded has a greatest element.
LEMMA GreatestElement ==
  ASSUME NEW n \in Nat, NEW S, S \subseteq 0 .. n, S # {}
  PROVE  Max(S) \in S /\ \A y \in S : y <= Max(S)
<1> DEFINE R == {n - y : y \in S}
<1>1. R \subseteq Nat /\ R # {}
  <2>1. \A y \in S : y \in 0 .. n /\ n - y \in Nat
    OBVIOUS
  <2>2. QED
    BY <2>1
<1>2. Min(R) \in R /\ \A z \in R : Min(R) <= z
  BY <1>1, LeastElement
<1>3. PICK x \in S : Min(R) = n - x
  BY <1>2
<1>4. \A y \in S : x >= y
  <2>1. SUFFICES ASSUME NEW y \in S PROVE x >= y
    OBVIOUS
  <2>2. n - x <= n - y
    BY <1>2, <1>3
  <2>3. x \in Int /\ y \in Int
    OBVIOUS
  <2>4. QED
    BY <2>2, <2>3
<1>5. QED
  BY <1>4 DEF Max
=============================================================================
