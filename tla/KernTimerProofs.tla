--------------------------- MODULE KernTimerProofs ---------------------------
(***************************************************************************)
(* That the safety properties of KernTimer hold for every set of events,   *)
(* every number of tick values and every set of delays, and that each of   *)
(* its steps is one of TimerEvents.                                        *)
(*                                                                         *)
(* The proofs are in two layers.  The first, Shape, is about the lists and *)
(* the flags and needs nothing of the times.  The second, Clock, relates   *)
(* deadlines, which wrap, to the time that is left, which does not; it     *)
(* needs that delays are short enough for the signed comparison.           *)
(***************************************************************************)
EXTENDS KernTimer, KernLists, TLAPS

-----------------------------------------------------------------------------
(* Arithmetic modulo the number of tick values.                            *)

\* The remainder is the number below m that differs by a multiple of m.
LEMMA ModUnique ==
  ASSUME NEW m \in Nat \ {0}, NEW a \in Int, NEW k \in Int, NEW r \in 0 .. m - 1,
         a = k * m + r
  PROVE  a % m = r
<1>1. a % m \in 0 .. m - 1 /\ a = m * (a \div m) + (a % m) /\ a \div m \in Int
  OBVIOUS
<1> DEFINE j == a \div m
           s == a % m
           d == k - j
<1>2. d \in Int /\ d * m = s - r
  <2>1. k * m + r = m * j + s
    BY <1>1
  <2>2. d * m = k * m - m * j
    BY <1>1
  <2>3. QED
    BY <1>1, <2>1, <2>2
<1> HIDE DEF j, d
<1>3. s - r \in -(m - 1) .. m - 1
  BY <1>1
<1>4. ~(d >= 1)
  <2>1. d >= 1 => d * m >= m
    BY <1>2
  <2>2. QED
    BY <1>2, <1>3, <2>1
<1>5. ~(d <= -1)
  <2>1. d <= -1 => d * m <= -m
    BY <1>2
  <2>2. QED
    BY <1>2, <1>3, <2>1
<1>6. d = 0
  BY <1>2, <1>4, <1>5
<1>7. QED
  BY <1>1, <1>2, <1>6

\* Numbers that differ by a multiple of m have the same remainder.
LEMMA ModCongruent ==
  ASSUME NEW m \in Nat \ {0}, NEW a \in Int, NEW b \in Int, NEW k \in Int,
         a = k * m + b
  PROVE  a % m = b % m
<1> DEFINE j == b \div m
           r == b % m
<1>1. r \in 0 .. m - 1 /\ j \in Int /\ b = m * j + r
  OBVIOUS
<1> HIDE DEF j
<1>2. a = (k + j) * m + r /\ k + j \in Int
  <2>1. (k + j) * m = k * m + m * j
    BY <1>1
  <2>2. k * m \in Int /\ m * j \in Int /\ r \in Int
    BY <1>1
  <2>3. QED
    BY <1>1, <2>1, <2>2
<1>3. QED
  BY <1>1, <1>2, ModUnique

\* A number is its remainder and a multiple.
LEMMA ModSplit ==
  ASSUME NEW m \in Nat \ {0}, NEW a \in Int, NEW r, r = a % m
  PROVE  r \in Int /\ \E k \in Int : a = k * m + r
<1> DEFINE j == a \div m
<1>1. r \in Int /\ j \in Int /\ a = m * j + r
  OBVIOUS
<1> HIDE DEF j
<1>2. a = j * m + r
  BY <1>1
<1>3. QED
  BY <1>1, <1>2

\* A deadline is the same time whichever tick it is counted from.
LEMMA CountedFromLater ==
  ASSUME NEW m \in Nat \ {0}, NEW t \in Int, NEW i \in Int, NEW x \in Int
  PROVE  (t + x) % m = (((t + i) % m) + (x - i)) % m
<1> DEFINE u == t + i
           s == u % m
<1>1. u \in Int
  OBVIOUS
<1>2. s \in Int /\ \E k \in Int : u = k * m + s
  <2> HIDE DEF u, s
  <2>1. s = u % m
    BY DEF s
  <2>2. QED
    BY <1>1, <2>1, ModSplit
<1> HIDE DEF s
<1>3. PICK k \in Int : u = k * m + s
  BY <1>2
<1> DEFINE c == k * m
           v == s + (x - i)
<1>4. c \in Int /\ v \in Int
  BY <1>2
<1>5. t + x = c + v
  <2>1. t + i = c + s
    BY <1>3
  <2> HIDE DEF c
  <2>2. QED
    BY <1>2, <1>4, <2>1
<1>6. t + x \in Int
  OBVIOUS
<1> HIDE DEF v
<1>7. (t + x) % m = v % m
  BY <1>4, <1>5, <1>6, ModCongruent
<1>8. QED
  BY <1>7 DEF v, s

\* The difference of two deadlines is that of the times, modulo m.
LEMMA ModDifference ==
  ASSUME NEW m \in Nat \ {0}, NEW u \in Int, NEW v \in Int
  PROVE  ((v % m) - (u % m)) % m = (v - u) % m
<1> DEFINE a == u % m
           b == v % m
<1>1. a \in Int /\ \E k \in Int : u = k * m + a
  BY ModSplit
<1>2. b \in Int /\ \E k \in Int : v = k * m + b
  BY ModSplit
<1> HIDE DEF a, b
<1>3. PICK k \in Int : u = k * m + a
  BY <1>1
<1>4. PICK l \in Int : v = l * m + b
  BY <1>2
<1> DEFINE c == k * m
           d == l * m
           n == k - l
           x == b - a
           y == v - u
<1>5. n * m = c - d /\ c \in Int /\ d \in Int /\ n \in Int /\ x \in Int /\ y \in Int
  BY <1>1, <1>2
<1>6. u = c + a /\ v = d + b
  BY <1>3, <1>4
<1> HIDE DEF c, d
<1>7. x = (c - d) + y
  BY <1>1, <1>2, <1>5, <1>6
<1> HIDE DEF n, x, y
<1>8. x = n * m + y
  BY <1>5, <1>7
<1>9. x % m = y % m
  BY <1>5, <1>8, ModCongruent
<1>10. QED
  BY <1>9 DEF x, y, a, b

\* kern_timer_before_eq and kern_timer_after_eq of two deadlines that are less than
\* half of the tick values apart.
LEMMA Compare ==
  ASSUME NEW t \in Int, NEW x \in Int, NEW y \in Int, x - y < Half, y - x < Half
  PROVE  /\ BeforeEq((t + x) % TickMod, (t + y) % TickMod) <=> x <= y
         /\ AfterEq((t + x) % TickMod, (t + y) % TickMod) <=> x >= y
<1> DEFINE m == TickMod
           a == (t + x) % m
           b == (t + y) % m
<1>1. m \in Nat \ {0} /\ Half \in Int /\ m = Half + Half
  BY TimerAssumption DEF Half
<1>2. (b - a) % m = (y - x) % m
  <2>1. t + x \in Int /\ t + y \in Int /\ (t + y) - (t + x) = y - x
    OBVIOUS
  <2>2. (b - a) % m = ((t + y) - (t + x)) % m
    BY <1>1, <2>1, ModDifference
  <2>3. QED
    BY <2>1, <2>2
<1> HIDE DEF a, b, m
<1>3. CASE x <= y
  <2>1. y - x \in 0 .. m - 1 /\ y - x = 0 * m + (y - x)
    BY <1>1, <1>3
  <2>2. (b - a) % m = y - x
    BY <1>1, <1>2, <2>1, ModUnique
  <2>3. QED
    BY <1>1, <1>3, <2>2 DEF BeforeEq, AfterEq, a, b, m
<1>4. CASE x > y
  <2>1. y - x + m \in 0 .. m - 1 /\ y - x = (-1) * m + (y - x + m)
    BY <1>1, <1>4
  <2>2. (b - a) % m = y - x + m
    BY <1>1, <1>2, <2>1, ModUnique
  <2>3. y - x + m \in Half .. m - 1 /\ ~(y - x + m < Half)
    BY <1>1, <1>4
  <2>4. QED
    BY <1>1, <1>4, <2>2, <2>3 DEF BeforeEq, AfterEq, a, b, m
<1>5. QED
  BY <1>3, <1>4

-----------------------------------------------------------------------------
(* The queue and the flags.                                                *)

\* TypeOK, but for the range of the times that are left.
Timers ==
  /\ tick \in TickValues
  /\ list \in Seq(Events)
  /\ deadline \in [Events -> TickValues]
  /\ queued \in [Events -> BOOLEAN]
  /\ active \in [Events -> BOOLEAN]
  /\ running \in BOOLEAN
  /\ latched \in BOOLEAN
  /\ fire \in Seq(Events)
  /\ cursor \in 1 .. Len(fire) + 1
  /\ busy \in BOOLEAN
  /\ adding \in [Events -> {NoAdd} \cup [abs : TickValues, left : Int]]
  /\ left \in [Events -> Int]
  /\ ~busy => fire = <<>>

Shape == Timers /\ NodeOnOneList /\ ArmedMeansRunning

\* The loop of kern_timer_event_add stops at the first event that is not earlier,
\* or behind the last.
LEMMA InsertPosFacts ==
  ASSUME list \in Seq(Events), NEW abs
  PROVE  /\ InsertPos(abs) \in 1 .. Len(list) + 1
         /\ \A j \in 1 .. Len(list) : j < InsertPos(abs) => ~AfterEq(deadline[list[j]], abs)
         /\ InsertPos(abs) <= Len(list) => AfterEq(deadline[list[InsertPos(abs)]], abs)
<1> DEFINE I == {i \in 1 .. Len(list) : AfterEq(deadline[list[i]], abs)}
<1>1. Len(list) \in Nat /\ I \subseteq Nat
  OBVIOUS
<1>2. InsertPos(abs) = IF I # {} THEN (IF Min(I) = 0 THEN Len(list) + 1 ELSE Min(I))
                       ELSE Len(list) + 1
  BY DEF InsertPos, SelectInSeq
<1>3. CASE I = {}
  BY <1>1, <1>2, <1>3
<1>4. CASE I # {}
  <2>1. Min(I) \in I /\ \A j \in I : Min(I) <= j
    BY <1>1, <1>4, LeastElement
  <2> DEFINE p == InsertPos(abs)
  <2>2. p = Min(I)
    BY <1>2, <1>4, <2>1
  <2> HIDE DEF p
  <2>3. p \in 1 .. Len(list) /\ AfterEq(deadline[list[p]], abs)
    BY <2>1, <2>2
  <2>4. ASSUME NEW j \in 1 .. Len(list), j < p PROVE ~AfterEq(deadline[list[j]], abs)
    BY <1>1, <2>1, <2>2, <2>3, <2>4
  <2>5. QED
    BY <1>1, <2>3, <2>4 DEF p
<1>5. QED
  BY <1>3, <1>4

\* The loop of kern_timer_tick takes events up to the first that is not due.
LEMMA DueCountFacts ==
  ASSUME list \in Seq(Events), NEW now
  PROVE  /\ DueCount(now) \in 0 .. Len(list)
         /\ \A i \in 1 .. DueCount(now) : BeforeEq(deadline[list[i]], now)
         /\ DueCount(now) < Len(list) => ~BeforeEq(deadline[list[DueCount(now) + 1]], now)
<1> DEFINE K == {k \in 0 .. Len(list) : \A i \in 1 .. k : BeforeEq(deadline[list[i]], now)}
           d == DueCount(now)
<1>1. Len(list) \in Nat /\ K \subseteq 0 .. Len(list) /\ 0 \in K
  OBVIOUS
<1>2. d = Max(K)
  BY DEF DueCount
<1>3. d \in K /\ \A k \in K : k <= d
  BY <1>1, <1>2, GreatestElement
<1> HIDE DEF d
<1>4. ASSUME d < Len(list), BeforeEq(deadline[list[d + 1]], now) PROVE FALSE
  <2>1. d + 1 \in 0 .. Len(list)
    BY <1>1, <1>3, <1>4
  <2>2. \A i \in 1 .. d + 1 : i \in 1 .. d \/ i = d + 1
    BY <1>3
  <2>3. d + 1 \in K
    BY <1>3, <1>4, <2>1, <2>2
  <2>4. d \in Int /\ d + 1 <= d
    BY <1>3, <2>3
  <2>5. QED
    BY <2>4
<1>5. QED
  BY <1>3, <1>4 DEF d

\* A sum of ticks is a tick value.
LEMMA TickWraps ==
  ASSUME NEW x \in Int PROVE x % TickMod \in TickValues
<1>1. TickMod \in Nat \ {0}
  BY TimerAssumption
<1>2. QED
  BY <1>1 DEF TickValues

\* The first locked section of kern_timer_tick: what is on which list after it.
LEMMA TakeFacts ==
  ASSUME Shape, TickTake
  PROVE  LET due == DueCount(tick')
         IN  /\ due \in 0 .. Len(list)
             /\ tick' = (tick + Interval) % TickMod /\ tick' \in TickValues
             /\ fire' \in Seq(Events) /\ Len(fire') = due
             /\ \A i \in 1 .. due : fire'[i] = list[i]
             /\ list' \in Seq(Events) /\ Len(list') = Len(list) - due
             /\ \A i \in 1 .. Len(list) - due : list'[i] = list[due + i]
             /\ IsInjective(fire') /\ IsInjective(list')
             /\ ToSet(fire') \subseteq ToSet(list)
             /\ ToSet(list') = ToSet(list) \ ToSet(fire')
             /\ \A e \in Events : e \in ToSet(fire') <=> \E i \in 1 .. due : list[i] = e
             /\ \A e \in Events : /\ queued'[e] <=> e \in ToSet(list')
                                  /\ active'[e] <=> e \in ToSet(fire')
<1> DEFINE now == tick'
           due == DueCount(now)
           taken == {list[i] : i \in 1 .. due}
<1>1. now = (tick + Interval) % TickMod /\ now \in TickValues
  <2>1. tick + Interval \in Int
    BY TimerAssumption DEF Shape, Timers, TickValues
  <2>2. QED
    BY <2>1, TickWraps DEF TickTake
<1>2. list \in Seq(Events) /\ IsInjective(list) /\ fire = <<>>
  BY DEF Shape, Timers, NodeOnOneList, TickTake
<1>3. due \in 0 .. Len(list)
  BY <1>2, DueCountFacts
<1>4. /\ fire' = SubSeq(list, 1, due)
      /\ list' = SubSeq(list, due + 1, Len(list))
      /\ queued' = [e \in Events |-> queued[e] /\ e \notin taken]
      /\ active' = [e \in Events |-> active[e] \/ e \in taken]
  BY <1>1 DEF TickTake
<1> HIDE DEF due, now
<1>5. /\ fire' \in Seq(Events) /\ Len(fire') = due /\ \A i \in 1 .. due : fire'[i] = list[i]
      /\ list' \in Seq(Events) /\ Len(list') = Len(list) - due
      /\ \A i \in 1 .. Len(list) - due : list'[i] = list[due + i]
      /\ IsInjective(fire') /\ IsInjective(list')
      /\ ToSet(fire') = taken
      /\ ToSet(list') = ToSet(list) \ ToSet(fire')
  <2> DEFINE a == SubSeq(list, 1, due)
             b == SubSeq(list, due + 1, Len(list))
  <2>1. /\ a \in Seq(Events) /\ Len(a) = due /\ \A i \in 1 .. due : a[i] = list[i]
        /\ b \in Seq(Events) /\ Len(b) = Len(list) - due
        /\ \A i \in 1 .. Len(list) - due : b[i] = list[due + i]
        /\ IsInjective(a) /\ IsInjective(b)
        /\ ToSet(a) = taken
        /\ ToSet(b) = ToSet(list) \ ToSet(a)
    BY <1>2, <1>3, CutProps
  <2>2. fire' = a /\ list' = b
    BY <1>4
  <2> HIDE DEF a, b, taken
  <2>3. QED
    BY <2>1, <2>2
<1>6. taken \subseteq ToSet(list)
  <2>1. \A i \in 1 .. due : i \in 1 .. Len(list)
    BY <1>3
  <2>2. QED
    BY <1>2, <2>1 DEF ToSet
<1>7. \A e \in Events : queued[e] <=> e \in ToSet(list)
  BY DEF Shape, NodeOnOneList
<1>8. \A e \in Events : ~active[e]
  BY <1>2, EmptyInjective DEF Shape, NodeOnOneList
<1>9. \A e \in Events : /\ queued'[e] <=> e \in ToSet(list')
                        /\ active'[e] <=> e \in ToSet(fire')
  BY <1>4, <1>5, <1>7, <1>8
<1>10. QED
  BY <1>1, <1>3, <1>5, <1>6, <1>9 DEF due, now

\* The second one: the handler's list is empty, and what was on it is free.
LEMMA ReleaseFacts ==
  ASSUME Shape, TickRelease
  PROVE  /\ \A e \in Events : ~active'[e]
         /\ queued' = queued
         /\ fire' = <<>> /\ cursor' = 1 /\ ~busy'
<1>1. \A e \in Events : active[e] <=> e \in ToSet(fire)
  BY DEF Shape, NodeOnOneList
<1>2. \A e \in Events : ~(queued[e] /\ active[e])
  BY DEF Shape, NodeOnOneList
<1>3. queued \in [Events -> BOOLEAN]
  BY DEF Shape, Timers
<1>4. \A e \in Events : ~active'[e]
  BY <1>1 DEF TickRelease
<1>5. queued' = [e \in Events |-> queued[e] /\ e \notin ToSet(fire)]
  BY DEF TickRelease
<1>6. \A e \in Events : (queued[e] /\ e \notin ToSet(fire)) = queued[e]
  BY <1>1, <1>2, <1>3
<1>7. queued' = queued
  BY <1>3, <1>5, <1>6
<1>8. QED
  BY <1>4, <1>7 DEF TickRelease

\* An add that is accepted: the event is on the queue, once.
LEMMA AddFacts ==
  ASSUME Shape, NEW e \in Events, AddLocked(e)
  PROVE  LET p == InsertPos(adding[e].abs)
         IN  /\ adding[e] \in [abs : TickValues, left : Int]
             /\ p \in 1 .. Len(list) + 1
             /\ list' \in Seq(Events) /\ Len(list') = Len(list) + 1
             /\ \A j \in 1 .. Len(list) + 1 :
                  list'[j] = IF j < p THEN list[j] ELSE IF j = p THEN e ELSE list[j - 1]
             /\ IsInjective(list') /\ ToSet(list') = ToSet(list) \cup {e}
             /\ e \notin ToSet(list)
             /\ ~queued[e] /\ ~active[e]
<1>1. list \in Seq(Events) /\ IsInjective(list)
  BY DEF Shape, Timers, NodeOnOneList
<1>2. adding[e] \in [abs : TickValues, left : Int]
  BY DEF AddLocked, Shape, Timers
<1>3. ~queued[e] /\ ~active[e] /\ e \notin ToSet(list)
  BY DEF AddLocked, MayAdd, Shape, NodeOnOneList
<1> DEFINE p == InsertPos(adding[e].abs)
<1>4. p \in 1 .. Len(list) + 1
  BY <1>1, InsertPosFacts
<1>5. list' = InsertAt(list, p, e)
  BY DEF AddLocked
<1> HIDE DEF p
<1>6. QED
  BY <1>1, <1>2, <1>3, <1>4, <1>5, InsertAtProps, InsertAtIsShift DEF p

\* A delete of an event that is queued takes it off the queue.
LEMMA DelFacts ==
  ASSUME Shape, NEW e \in Events, Del(e)
  PROVE  /\ list' \in Seq(Events) /\ IsInjective(list')
         /\ ToSet(list') = ToSet(list) \ {e}
         /\ e \in ToSet(list)
<1>1. list \in Seq(Events) /\ IsInjective(list)
  BY DEF Shape, Timers, NodeOnOneList
<1>2. e \in ToSet(list)
  BY DEF Del, Shape, NodeOnOneList
<1>3. list' = RemoveFirst(list, e)
  BY DEF Del
<1>4. QED
  BY <1>1, <1>2, <1>3, RemoveFirstProps

LEMMA ShapeInit == Init => Shape
<1> SUFFICES ASSUME Init PROVE Shape
  OBVIOUS
<1>1. tick \in TickValues /\ 0 \in TickValues
  BY TimerAssumption DEF Init, TickValues
<1>2. <<>> \in Seq(Events) /\ 1 \in 1 .. Len(<<>>) + 1
  OBVIOUS
<1>3. cursor \in 1 .. Len(fire) + 1 /\ list \in Seq(Events) /\ fire \in Seq(Events)
  BY <1>2 DEF Init
<1>4. Timers
  <2>1. deadline \in [Events -> TickValues] /\ left \in [Events -> Int]
    BY <1>1 DEF Init
  <2>2. queued \in [Events -> BOOLEAN] /\ active \in [Events -> BOOLEAN]
    BY DEF Init
  <2>3. adding \in [Events -> {NoAdd} \cup [abs : TickValues, left : Int]]
    BY DEF Init
  <2>4. running \in BOOLEAN /\ latched \in BOOLEAN /\ busy \in BOOLEAN /\ fire = <<>>
    BY DEF Init
  <2>5. QED
    BY <1>1, <1>3, <2>1, <2>2, <2>3, <2>4 DEF Timers
<1>5. QED
  BY <1>4, EmptyInjective DEF Init, Shape, NodeOnOneList, ArmedMeansRunning

\* What has been computed for an add is a deadline and a time.
LEMMA ReadFacts ==
  ASSUME Timers, NEW e \in Events, NEW msec \in Delays, AddRead(e, msec)
  PROVE  adding' \in [Events -> {NoAdd} \cup [abs : TickValues, left : Int]]
<1>1. msec \in Int /\ tick \in Int
  BY TimerAssumption DEF Timers, TickValues
<1>2. Expiry(msec) \in TickValues
  BY <1>1, TickWraps DEF Expiry
<1>3. QED
  BY <1>1, <1>2 DEF AddRead, Timers

\* As time passes, the times that are left stay numbers.
LEMMA PassTimeFacts ==
  ASSUME Timers, PassTime
  PROVE  /\ left' \in [Events -> Int]
         /\ \A e \in Events : left'[e] = IF queued[e] THEN left[e] - Interval ELSE left[e]
         /\ adding' \in [Events -> {NoAdd} \cup [abs : TickValues, left : Int]]
         /\ \A e \in Events : adding[e] = NoAdd => adding'[e] = NoAdd
         /\ \A e \in Events : adding[e] # NoAdd =>
              adding'[e] = [adding[e] EXCEPT !.left = adding[e].left - Interval]
<1>1. Interval \in Int
  BY TimerAssumption
<1>2. left' \in [Events -> Int]
  BY <1>1 DEF PassTime, Timers
<1>3. \A e \in Events : adding[e] # NoAdd => adding[e] \in [abs : TickValues, left : Int]
  BY DEF Timers
<1>4. \A r \in [abs : TickValues, left : Int] :
        [r EXCEPT !.left = r.left - Interval] \in [abs : TickValues, left : Int]
  BY <1>1
<1>5. adding' \in [Events -> {NoAdd} \cup [abs : TickValues, left : Int]]
  BY <1>3, <1>4 DEF PassTime
<1>6. QED
  BY <1>2, <1>5 DEF PassTime

\* Shape is inductive.
LEMMA ShapeStep == Shape /\ [Next]_vars => Shape'
<1> SUFFICES ASSUME Shape, [Next]_vars PROVE Shape'
  OBVIOUS
<1> USE DEF Shape
<1>1. ASSUME NEW e \in Events, NEW msec \in Delays, AddRead(e, msec) PROVE Shape'
  <2>1. Timers'
    BY <1>1, ReadFacts DEF AddRead, Timers
  <2>2. QED
    BY <1>1, <2>1 DEF AddRead, NodeOnOneList, ArmedMeansRunning
<1>2. ASSUME NEW e \in Events, AddLocked(e) PROVE Shape'
  <2>1. /\ adding[e] \in [abs : TickValues, left : Int]
        /\ list' \in Seq(Events) /\ IsInjective(list') /\ ToSet(list') = ToSet(list) \cup {e}
        /\ ~queued[e] /\ ~active[e]
    BY <1>2, AddFacts
  <2>2. adding[e].abs \in TickValues /\ adding[e].left \in Int
    BY <2>1
  <2>3. Timers'
    BY <1>2, <2>1, <2>2 DEF AddLocked, StartLocked, Timers
  <2>4. NodeOnOneList'
    BY <1>2, <2>1 DEF AddLocked, NodeOnOneList, Timers
  <2>5. QED
    BY <1>2, <2>3, <2>4 DEF AddLocked, StartLocked, ArmedMeansRunning
<1>3. ASSUME NEW e \in Events, AddRefused(e) PROVE Shape'
  <2>1. Timers'
    BY <1>3 DEF AddRefused, Timers
  <2>2. QED
    BY <1>3, <2>1 DEF AddRefused, NodeOnOneList, ArmedMeansRunning
<1>4. ASSUME NEW e \in Events, Del(e) PROVE Shape'
  <2>1. /\ list' \in Seq(Events) /\ IsInjective(list')
        /\ ToSet(list') = ToSet(list) \ {e} /\ e \in ToSet(list)
    BY <1>4, DelFacts
  <2>2. 0 \in TickValues
    BY TimerAssumption DEF TickValues
  <2>3. Timers'
    BY <1>4, <2>1, <2>2 DEF Del, Timers
  <2>4. NodeOnOneList'
    BY <1>4, <2>1 DEF Del, NodeOnOneList, Timers
  <2>5. list # <<>>
    BY <2>1, EmptyInjective
  <2>6. QED
    BY <1>4, <2>3, <2>4, <2>5 DEF Del, ArmedMeansRunning
<1>5. CASE Start
  BY <1>5 DEF Start, StartLocked, Timers, NodeOnOneList, ArmedMeansRunning
<1>6. CASE Idle
  BY <1>6 DEF Idle, NothingQueued, Timers, NodeOnOneList, ArmedMeansRunning
<1>7. CASE TickTake
  <2> DEFINE due == DueCount(tick')
  <2>1. /\ tick' \in TickValues
        /\ fire' \in Seq(Events) /\ list' \in Seq(Events)
        /\ IsInjective(fire') /\ IsInjective(list')
        /\ ToSet(fire') \subseteq ToSet(list)
        /\ ToSet(list') = ToSet(list) \ ToSet(fire')
        /\ \A e \in Events : /\ queued'[e] <=> e \in ToSet(list')
                             /\ active'[e] <=> e \in ToSet(fire')
    BY <1>7, TakeFacts
  <2>2. 0 \in TickValues
    BY TimerAssumption DEF TickValues
  <2>3. deadline' \in [Events -> TickValues]
    BY <1>7, <2>2 DEF TickTake, Timers
  <2>4. queued' \in [Events -> BOOLEAN] /\ active' \in [Events -> BOOLEAN]
    BY <1>7 DEF TickTake, Timers
  <2>5. left' \in [Events -> Int] /\ adding' \in [Events -> {NoAdd} \cup [abs : TickValues, left : Int]]
    BY <1>7, PassTimeFacts DEF TickTake
  <2>6. cursor' \in 1 .. Len(fire') + 1
    BY <1>7, <2>1 DEF TickTake
  <2>7. Timers'
    BY <1>7, <2>1, <2>3, <2>4, <2>5, <2>6 DEF TickTake, Timers
  <2>8. NodeOnOneList'
    BY <2>1 DEF NodeOnOneList
  <2>9. list = <<>> => list' = <<>>
    BY <2>1, EmptyInjective, EmptyProps
  <2>10. QED
    BY <1>7, <2>7, <2>8, <2>9 DEF TickTake, ArmedMeansRunning
<1>8. CASE TickCall
  <2>1. cursor' \in 1 .. Len(fire) + 1
    BY <1>8 DEF TickCall, AllCalled, Timers
  <2>2. QED
    BY <1>8, <2>1 DEF TickCall, Timers, NodeOnOneList, ArmedMeansRunning
<1>9. CASE TickRelease
  <2>1. /\ \A e \in Events : ~active'[e]
        /\ queued' = queued /\ fire' = <<>> /\ cursor' = 1 /\ ~busy'
    BY <1>9, ReleaseFacts
  <2>2. left' \in [Events -> Int]
    BY <1>9 DEF TickRelease, Timers
  <2>3. active' \in [Events -> BOOLEAN]
    BY <1>9 DEF TickRelease, Timers
  <2>4. <<>> \in Seq(Events) /\ 1 \in 1 .. Len(<<>>) + 1
    OBVIOUS
  <2>5. Timers'
    BY <1>9, <2>1, <2>2, <2>3, <2>4 DEF TickRelease, Timers
  <2>6. NodeOnOneList'
    BY <1>9, <2>1, EmptyInjective DEF TickRelease, NodeOnOneList
  <2>7. QED
    BY <1>9, <2>5, <2>6 DEF TickRelease, ArmedMeansRunning
<1>10. CASE UNCHANGED vars
  BY <1>10 DEF vars, Timers, NodeOnOneList, ArmedMeansRunning
<1>11. QED
  BY <1>1, <1>2, <1>3, <1>4, <1>5, <1>6, <1>7, <1>8, <1>9, <1>10 DEF Next

\* Throughout, for any delays at all: flags, lists and the running timer fit together.
THEOREM ShapeAlways == Spec => []Shape
<1>1. QED
  BY ShapeInit, ShapeStep, PTL DEF Spec

-----------------------------------------------------------------------------
(* Deadlines and the time that is left.                                    *)

\* Delays are so short, and events are added so soon, that no two deadlines on the
\* queue and no deadline and the tick are half of the tick values apart.
ShortDelays ==
  /\ MaxLate + Interval < Half
  /\ \A msec \in Delays : msec + MaxLate < Half

\* The time an event that is queued, or about to be, may have left.
OnTime(x) == x \in Int /\ -MaxLate <= x /\ x + MaxLate < Half

\* A deadline is the tick at which the time that is left will have passed.
Deadlines ==
  \A e \in Events :
    /\ queued[e] => OnTime(left[e]) /\ deadline[e] = (tick + left[e]) % TickMod
    /\ adding[e] # NoAdd => /\ OnTime(adding[e].left)
                            /\ adding[e].abs = (tick + adding[e].left) % TickMod

\* What the handler holds has no time left; there is none for what nobody holds.
Spent ==
  \A e \in Events :
    /\ active[e] => left[e] \in -(MaxLate + Interval) .. 0
    /\ ~active[e] /\ ~queued[e] => left[e] = 0

Clock == Deadlines /\ Spent /\ Sorted

\* Two events on the queue compare by the time they have left.
LEMMA CompareOnTime ==
  ASSUME NEW t \in Int, NEW x, NEW y, OnTime(x), OnTime(y)
  PROVE  AfterEq((t + x) % TickMod, (t + y) % TickMod) <=> x >= y
<1>1. x \in Int /\ y \in Int /\ Half \in Int /\ MaxLate \in Int /\ MaxLate >= 0
  BY TimerAssumption DEF OnTime, Half
<1>2. x - y < Half /\ y - x < Half
  BY <1>1 DEF OnTime
<1>3. QED
  BY <1>1, <1>2, Compare

\* A tick finds exactly those events due that have no more than its length left.
LEMMA CompareToNow ==
  ASSUME ShortDelays, NEW t \in Int, NEW x, OnTime(x)
  PROVE  LET now == (t + Interval) % TickMod
         IN  /\ (t + x) % TickMod = (now + (x - Interval)) % TickMod
             /\ BeforeEq((t + x) % TickMod, now) <=> x <= Interval
<1> DEFINE now == (t + Interval) % TickMod
<1>1. /\ x \in Int /\ Half \in Int /\ MaxLate \in Int /\ MaxLate >= 0
      /\ Interval \in Int /\ Interval >= 1 /\ TickMod \in Nat \ {0}
  BY TimerAssumption DEF OnTime, Half
<1>2. (t + x) % TickMod = (now + (x - Interval)) % TickMod
  BY <1>1, CountedFromLater
<1>3. x - Interval < Half /\ Interval - x < Half
  BY <1>1 DEF OnTime, ShortDelays
<1>4. BeforeEq((t + x) % TickMod, (t + Interval) % TickMod) <=> x <= Interval
  BY <1>1, <1>3, Compare
<1>5. QED
  BY <1>2, <1>4

\* The events a tick takes are those with no more than its length left.
LEMMA TakesWhatIsDue ==
  ASSUME ShortDelays, Shape, Clock, TickTake
  PROVE  \A e \in Events : /\ active'[e] => queued[e] /\ left[e] <= Interval
                           /\ queued'[e] => queued[e] /\ left[e] > Interval
<1> DEFINE now == tick'
           due == DueCount(now)
<1>1. /\ due \in 0 .. Len(list)
      /\ now = (tick + Interval) % TickMod
      /\ Len(list') = Len(list) - due /\ list' \in Seq(Events)
      /\ \A i \in 1 .. Len(list) - due : list'[i] = list[due + i]
      /\ \A e \in Events : e \in ToSet(fire') <=> \E i \in 1 .. due : list[i] = e
      /\ \A e \in Events : /\ queued'[e] <=> e \in ToSet(list')
                           /\ active'[e] <=> e \in ToSet(fire')
  BY TakeFacts
<1>2. list \in Seq(Events) /\ Len(list) \in Nat /\ tick \in Int
      /\ \A i \in 1 .. Len(list) : list[i] \in Events /\ queued[list[i]]
  <2>1. list \in Seq(Events) /\ tick \in Int
    BY DEF Shape, Timers, TickValues
  <2>2. \A i \in 1 .. Len(list) : list[i] \in Events /\ list[i] \in ToSet(list)
    BY <2>1 DEF ToSet
  <2>3. QED
    BY <2>1, <2>2 DEF Shape, NodeOnOneList
<1>3. ASSUME NEW i \in 1 .. Len(list)
      PROVE  /\ left[list[i]] \in Int /\ Interval \in Int
             /\ BeforeEq(deadline[list[i]], now) <=> left[list[i]] <= Interval
  <2>1. OnTime(left[list[i]]) /\ deadline[list[i]] = (tick + left[list[i]]) % TickMod
    BY <1>2 DEF Clock, Deadlines
  <2>2. BeforeEq((tick + left[list[i]]) % TickMod, (tick + Interval) % TickMod)
          <=> left[list[i]] <= Interval
    BY <1>2, <2>1, CompareToNow
  <2>3. QED
    BY <1>1, <2>1, <2>2, TimerAssumption DEF OnTime
<1>4. /\ \A i \in 1 .. due : BeforeEq(deadline[list[i]], now)
      /\ due < Len(list) => ~BeforeEq(deadline[list[due + 1]], now)
  BY <1>2, DueCountFacts
<1> HIDE DEF now, due
<1>5. ASSUME NEW e \in Events, active'[e] PROVE queued[e] /\ left[e] <= Interval
  <2>1. PICK i \in 1 .. due : list[i] = e
    BY <1>1, <1>5
  <2>2. i \in 1 .. Len(list)
    BY <1>1, <1>2
  <2>3. QED
    BY <1>2, <1>3, <1>4, <2>1, <2>2
<1>6. ASSUME NEW e \in Events, queued'[e] PROVE queued[e] /\ left[e] > Interval
  <2>1. PICK i \in 1 .. Len(list) - due : list[due + i] = e
    BY <1>1, <1>6 DEF ToSet
  <2>2. due < Len(list) /\ due + 1 \in 1 .. Len(list) /\ due + i \in 1 .. Len(list)
    BY <1>1, <1>2
  <2>3. left[list[due + 1]] > Interval
    BY <1>3, <1>4, <2>2
  <2>4. left[list[due + 1]] <= left[list[due + i]]
    <3>1. CASE i = 1
      BY <1>3, <2>2, <3>1
    <3>2. CASE i # 1
      <4>1. due + 1 < due + i
        BY <1>1, <3>2
      <4>2. QED
        BY <2>2, <4>1 DEF Clock, Sorted
    <3>3. QED
      BY <3>1, <3>2
  <2>5. QED
    BY <1>2, <1>3, <2>1, <2>2, <2>3, <2>4
<1>7. QED
  BY <1>5, <1>6

\* An event goes where it keeps the queue sorted.
LEMMA InsertKeepsSorted ==
  ASSUME Shape, Clock, NEW e \in Events, AddLocked(e)
  PROVE  Sorted'
<1> DEFINE x == adding[e].left
           p == InsertPos(adding[e].abs)
           n == Len(list)
<1>1. /\ p \in 1 .. n + 1
      /\ list' \in Seq(Events) /\ Len(list') = n + 1
      /\ \A j \in 1 .. n + 1 :
           list'[j] = IF j < p THEN list[j] ELSE IF j = p THEN e ELSE list[j - 1]
      /\ e \notin ToSet(list)
  BY AddFacts
<1>2. list \in Seq(Events) /\ n \in Nat /\ tick \in Int
      /\ \A i \in 1 .. n : list[i] \in Events /\ queued[list[i]] /\ list[i] # e
  <2>1. list \in Seq(Events) /\ n \in Nat /\ tick \in Int
    BY DEF Shape, Timers, TickValues
  <2>2. \A i \in 1 .. n : list[i] \in Events /\ list[i] \in ToSet(list)
    BY <2>1 DEF ToSet
  <2>3. QED
    BY <1>1, <2>1, <2>2 DEF Shape, NodeOnOneList
<1>3. OnTime(x) /\ adding[e].abs = (tick + x) % TickMod /\ x \in Int
  BY DEF AddLocked, Clock, Deadlines, OnTime
<1>4. ASSUME NEW i \in 1 .. n
      PROVE  /\ left[list[i]] \in Int
             /\ AfterEq(deadline[list[i]], adding[e].abs) <=> left[list[i]] >= x
  <2>1. OnTime(left[list[i]]) /\ deadline[list[i]] = (tick + left[list[i]]) % TickMod
    BY <1>2 DEF Clock, Deadlines
  <2>2. QED
    BY <1>2, <1>3, <2>1, CompareOnTime DEF OnTime
<1>5. /\ \A j \in 1 .. n : j < p => ~AfterEq(deadline[list[j]], adding[e].abs)
      /\ p <= n => AfterEq(deadline[list[p]], adding[e].abs)
  BY <1>2, InsertPosFacts
<1>6. \A i, j \in 1 .. n : i < j => left[list[i]] <= left[list[j]]
  BY DEF Clock, Sorted
<1>7. left' = [left EXCEPT ![e] = x] /\ left \in [Events -> Int]
  BY DEF AddLocked, Shape, Timers
<1> HIDE DEF x, p, n
<1>8. ASSUME NEW j \in 1 .. n + 1
      PROVE  /\ j < p => j \in 1 .. n /\ left'[list'[j]] = left[list[j]] /\ left[list[j]] < x
             /\ j = p => left'[list'[j]] = x
             /\ j > p => /\ j - 1 \in 1 .. n /\ left'[list'[j]] = left[list[j - 1]]
                         /\ left[list[j - 1]] >= x
  <2>1. CASE j < p
    <3>1. j \in 1 .. n /\ list'[j] = list[j]
      BY <1>1, <1>2, <2>1
    <3>2. left'[list'[j]] = left[list[j]]
      BY <1>2, <1>7, <3>1
    <3>3. left[list[j]] < x
      BY <1>3, <1>4, <1>5, <2>1, <3>1
    <3>4. QED
      BY <1>1, <2>1, <3>1, <3>2, <3>3
  <2>2. CASE j = p
    BY <1>1, <1>7, <2>2
  <2>3. CASE j > p
    <3>1. j - 1 \in 1 .. n /\ list'[j] = list[j - 1] /\ p \in 1 .. n /\ p <= j - 1
      BY <1>1, <1>2, <2>3
    <3>2. left'[list'[j]] = left[list[j - 1]]
      BY <1>2, <1>7, <3>1
    <3>3. left[list[p]] >= x
      BY <1>4, <1>5, <3>1
    <3>4. left[list[p]] <= left[list[j - 1]]
      <4>1. CASE p = j - 1
        BY <1>4, <3>1, <4>1
      <4>2. CASE p < j - 1
        BY <1>6, <3>1, <4>2
      <4>3. QED
        BY <3>1, <4>1, <4>2
    <3>5. left[list[j - 1]] >= x
      BY <1>3, <1>4, <3>1, <3>3, <3>4
    <3>6. QED
      BY <1>1, <2>3, <3>1, <3>2, <3>5
  <2>4. QED
    BY <1>1, <2>1, <2>2, <2>3
<1>9. ASSUME NEW i \in 1 .. n + 1, NEW j \in 1 .. n + 1, i < j
      PROVE  left'[list'[i]] <= left'[list'[j]]
  <2>1. i \in Int /\ j \in Int /\ p \in Int
    BY <1>1
  <2>2. CASE j < p
    BY <1>6, <1>8, <1>9, <2>1, <2>2
  <2>3. CASE j = p
    BY <1>3, <1>4, <1>8, <1>9, <2>1, <2>3
  <2>4. CASE j > p /\ i <= p
    BY <1>3, <1>4, <1>8, <1>9, <2>1, <2>4
  <2>5. CASE j > p /\ i > p
    <3>1. i - 1 \in 1 .. n /\ j - 1 \in 1 .. n /\ i - 1 < j - 1
      BY <1>8, <1>9, <2>1, <2>5
    <3>2. QED
      BY <1>6, <1>8, <2>5, <3>1
  <2>6. QED
    BY <2>1, <2>2, <2>3, <2>4, <2>5
<1>10. QED
  BY <1>1, <1>9 DEF Sorted

\* The queue stays sorted when events leave it and the others' times move together.
LEMMA ShorterStaysSorted ==
  ASSUME Shape, Sorted, NEW n \in 0 .. Len(list),
         list' \in Seq(Events), Len(list') = Len(list) - n,
         \A i \in 1 .. Len(list) - n : list'[i] = list[n + i],
         \A i \in 1 .. Len(list') : left'[list'[i]] = left[list'[i]] - Interval
  PROVE  Sorted'
<1>1. Len(list) \in Nat /\ Interval \in Int /\ left \in [Events -> Int]
      /\ \A i \in 1 .. Len(list) : list[i] \in Events
  BY TimerAssumption DEF Shape, Timers
<1>2. SUFFICES ASSUME NEW i \in 1 .. Len(list'), NEW j \in 1 .. Len(list'), i < j
               PROVE  left'[list'[i]] <= left'[list'[j]]
  BY DEF Sorted
<1>3. n + i \in 1 .. Len(list) /\ n + j \in 1 .. Len(list) /\ n + i < n + j
  BY <1>1, <1>2
<1>4. left[list[n + i]] <= left[list[n + j]]
  BY <1>3 DEF Sorted
<1>5. left[list[n + i]] \in Int /\ left[list[n + j]] \in Int
  BY <1>1, <1>3
<1>6. list'[i] = list[n + i] /\ list'[j] = list[n + j]
  BY <1>1, <1>2
<1>7. /\ left'[list'[i]] = left[list[n + i]] - Interval
      /\ left'[list'[j]] = left[list[n + j]] - Interval
  BY <1>2, <1>6
<1>8. QED
  BY <1>1, <1>4, <1>5, <1>7

\* A delete leaves the others in their order.
LEMMA DeleteKeepsSorted ==
  ASSUME Shape, Sorted, NEW e \in Events, Del(e)
  PROVE  Sorted'
<1>1. list \in Seq(Events) /\ IsInjective(list) /\ Len(list) \in Nat
  BY DEF Shape, Timers, NodeOnOneList
<1>2. PICK k \in 1 .. Len(list) : list[k] = e
  BY DelFacts DEF ToSet
<1>3. list' = RemoveFirst(list, list[k])
  BY <1>2 DEF Del
<1>4. /\ list' \in Seq(Events) /\ Len(list') = Len(list) - 1
      /\ \A j \in 1 .. Len(list) - 1 : list'[j] = IF j < k THEN list[j] ELSE list[j + 1]
  BY <1>1, <1>3, RemoveFirstIsShift
<1>5. \A i, j \in 1 .. Len(list) : list[i] = list[j] => i = j
  BY <1>1 DEF IsInjective
<1>6. left' = [left EXCEPT ![e] = 0] /\ left \in [Events -> Int]
  BY DEF Del, Shape, Timers
<1>7. ASSUME NEW j \in 1 .. Len(list) - 1
      PROVE  LET m == IF j < k THEN j ELSE j + 1
             IN  m \in 1 .. Len(list) /\ left'[list'[j]] = left[list[m]]
  <2> DEFINE m == IF j < k THEN j ELSE j + 1
  <2>1. m \in 1 .. Len(list) /\ m # k /\ list'[j] = list[m]
    BY <1>1, <1>4
  <2>2. list[m] # e /\ list[m] \in Events
    BY <1>1, <1>2, <1>5, <2>1
  <2>3. QED
    BY <1>6, <2>1, <2>2
<1>8. SUFFICES ASSUME NEW i \in 1 .. Len(list) - 1, NEW j \in 1 .. Len(list) - 1, i < j
               PROVE  left'[list'[i]] <= left'[list'[j]]
  BY <1>4 DEF Sorted
<1> DEFINE a == IF i < k THEN i ELSE i + 1
           b == IF j < k THEN j ELSE j + 1
<1>9. /\ a \in 1 .. Len(list) /\ left'[list'[i]] = left[list[a]]
      /\ b \in 1 .. Len(list) /\ left'[list'[j]] = left[list[b]]
  BY <1>7
<1>10. a < b
  BY <1>1, <1>2, <1>8
<1> HIDE DEF a, b
<1>11. QED
  BY <1>9, <1>10 DEF Sorted

LEMMA ClockInit == Init => Clock
<1> SUFFICES ASSUME Init PROVE Clock
  OBVIOUS
<1>1. Deadlines /\ Spent
  BY DEF Init, Deadlines, Spent
<1>2. Sorted
  BY DEF Init, Sorted
<1>3. QED
  BY <1>1, <1>2 DEF Clock

\* The tick keeps deadlines, and what is left, right.
LEMMA TakeKeepsClock ==
  ASSUME ShortDelays, Shape, Clock, TickTake
  PROVE  Clock' /\ \A e \in Events : queued'[e] => left'[e] > 0
<1>1. tick' = (tick + Interval) % TickMod /\ tick \in Int
  BY TakeFacts DEF Shape, Timers, TickValues
<1>2. \A e \in Events : /\ active'[e] => queued[e] /\ left[e] <= Interval
                        /\ queued'[e] => queued[e] /\ left[e] > Interval
  BY TakesWhatIsDue
<1>3. /\ \A e \in Events : left'[e] = IF queued[e] THEN left[e] - Interval ELSE left[e]
      /\ \A e \in Events : adding[e] = NoAdd => adding'[e] = NoAdd
      /\ \A e \in Events : adding[e] # NoAdd =>
           adding'[e] = [adding[e] EXCEPT !.left = adding[e].left - Interval]
  BY PassTimeFacts DEF TickTake, Shape
<1>4. /\ Half \in Int /\ MaxLate \in Int /\ MaxLate >= 0 /\ Interval \in Int /\ Interval >= 1
      /\ left \in [Events -> Int]
  BY TimerAssumption DEF Half, Shape, Timers
<1>5. ASSUME NEW e \in Events, queued'[e]
      PROVE  /\ OnTime(left'[e]) /\ deadline'[e] = (tick' + left'[e]) % TickMod /\ left'[e] > 0
  <2>1. /\ queued[e] /\ left[e] > Interval /\ left'[e] = left[e] - Interval
        /\ OnTime(left[e]) /\ deadline[e] = (tick + left[e]) % TickMod
    BY <1>2, <1>3, <1>5 DEF Clock, Deadlines
  <2>2. left'[e] > 0 /\ OnTime(left'[e])
    BY <1>4, <2>1 DEF OnTime
  <2>3. deadline'[e] = deadline[e]
    BY <1>5 DEF TickTake
  <2>4. (tick + left[e]) % TickMod = (tick' + (left[e] - Interval)) % TickMod
    BY <1>1, <2>1, CompareToNow
  <2>5. QED
    BY <2>1, <2>2, <2>3, <2>4
<1>6. ASSUME NEW e \in Events, adding'[e] # NoAdd
      PROVE  /\ OnTime(adding'[e].left)
             /\ adding'[e].abs = (tick' + adding'[e].left) % TickMod
  <2>1. /\ adding[e] # NoAdd
        /\ adding'[e] = [adding[e] EXCEPT !.left = adding[e].left - Interval]
        /\ adding[e] \in [abs : TickValues, left : Int]
    BY <1>3, <1>6 DEF Shape, Timers
  <2>2. adding'[e].left = adding[e].left - Interval /\ adding'[e].abs = adding[e].abs
    BY <2>1
  <2>3. /\ OnTime(adding[e].left) /\ adding[e].abs = (tick + adding[e].left) % TickMod
        /\ adding[e].left - Interval >= -MaxLate
    BY <2>1 DEF Clock, Deadlines, TickTake, AddsKeepUp
  <2>4. OnTime(adding'[e].left)
    BY <1>4, <2>2, <2>3 DEF OnTime
  <2>5. (tick + adding[e].left) % TickMod = (tick' + (adding[e].left - Interval)) % TickMod
    BY <1>1, <2>3, CompareToNow
  <2>6. QED
    BY <2>2, <2>3, <2>4, <2>5
<1>7. Deadlines'
  BY <1>5, <1>6 DEF Deadlines
<1>8. Spent'
  <2>1. SUFFICES ASSUME NEW e \in Events
                 PROVE  /\ active'[e] => left'[e] \in -(MaxLate + Interval) .. 0
                        /\ ~active'[e] /\ ~queued'[e] => left'[e] = 0
    BY DEF Spent
  <2>2. CASE active'[e]
    <3>1. queued[e] /\ left[e] <= Interval /\ left'[e] = left[e] - Interval /\ OnTime(left[e])
      BY <1>2, <1>3, <2>2 DEF Clock, Deadlines
    <3>2. QED
      BY <1>4, <2>2, <3>1 DEF OnTime
  <2>3. CASE ~active'[e] /\ ~queued'[e]
    <3>1. ~active[e] /\ ~queued[e]
      BY <2>3 DEF TickTake
    <3>2. QED
      BY <1>3, <2>3, <3>1 DEF Clock, Spent
  <2>4. QED
    BY <2>2, <2>3
<1>9. Sorted'
  <2> DEFINE due == DueCount(tick')
  <2>1. /\ due \in 0 .. Len(list)
        /\ list' \in Seq(Events) /\ Len(list') = Len(list) - due
        /\ \A i \in 1 .. Len(list) - due : list'[i] = list[due + i]
        /\ \A e \in Events : queued'[e] <=> e \in ToSet(list')
    BY TakeFacts
  <2> HIDE DEF due
  <2>2. \A i \in 1 .. Len(list') : list'[i] \in Events /\ list'[i] \in ToSet(list')
    <3>1. DOMAIN list' = 1 .. Len(list')
      BY <2>1
    <3>2. QED
      BY <2>1, <3>1 DEF ToSet
  <2>3. \A i \in 1 .. Len(list') : left'[list'[i]] = left[list'[i]] - Interval
    BY <1>2, <1>3, <2>1, <2>2
  <2>4. QED
    BY <2>1, <2>3, ShorterStaysSorted DEF Clock
<1>10. QED
  BY <1>5, <1>7, <1>8, <1>9 DEF Clock

\* Clock is inductive, given Shape.
LEMMA ClockStep ==
  ASSUME ShortDelays, Shape, Clock, [Next]_vars
  PROVE  Clock'
<1> USE DEF Clock
<1>0. left \in [Events -> Int] /\ adding \in [Events -> {NoAdd} \cup [abs : TickValues, left : Int]]
      /\ deadline \in [Events -> TickValues]
  BY DEF Shape, Timers
<1>1. ASSUME NEW e \in Events, NEW msec \in Delays, AddRead(e, msec) PROVE Clock'
  <2>1. OnTime(msec)
    BY TimerAssumption DEF ShortDelays, OnTime
  <2>2. Expiry(msec) = (tick + msec) % TickMod
    <3>1. msec \in Int /\ tick \in Int
      BY <2>1 DEF OnTime, Shape, Timers, TickValues
    <3>2. QED
      BY <3>1 DEF Expiry
  <2>3. ASSUME NEW f \in Events, adding'[f] # NoAdd
        PROVE  OnTime(adding'[f].left) /\ adding'[f].abs = (tick' + adding'[f].left) % TickMod
    <3>1. CASE f = e
      <4>1. adding'[e] = [abs |-> Expiry(msec), left |-> msec]
        BY <1>0, <1>1 DEF AddRead
      <4>2. adding'[f].left = msec /\ adding'[f].abs = (tick + msec) % TickMod
        BY <2>2, <3>1, <4>1
      <4>3. QED
        BY <1>1, <2>1, <4>2 DEF AddRead
    <3>2. CASE f # e
      <4>1. adding'[f] = adding[f]
        BY <1>0, <1>1, <3>2 DEF AddRead
      <4>2. QED
        BY <1>1, <2>3, <4>1 DEF AddRead, Deadlines
    <3>3. QED
      BY <3>1, <3>2
  <2>4. Deadlines'
    BY <1>1, <2>3 DEF AddRead, Deadlines
  <2>5. QED
    BY <1>1, <2>4 DEF AddRead, Spent, Sorted
<1>2. ASSUME NEW e \in Events, AddLocked(e) PROVE Clock'
  <2>1. adding[e] # NoAdd /\ OnTime(adding[e].left)
        /\ adding[e].abs = (tick + adding[e].left) % TickMod
    BY <1>2 DEF AddLocked, Deadlines
  <2>2. /\ deadline' = [deadline EXCEPT ![e] = adding[e].abs]
        /\ left' = [left EXCEPT ![e] = adding[e].left]
        /\ queued' = [queued EXCEPT ![e] = TRUE]
        /\ adding' = [adding EXCEPT ![e] = NoAdd]
        /\ UNCHANGED <<tick, active>>
        /\ queued \in [Events -> BOOLEAN]
    BY <1>2 DEF AddLocked, Shape, Timers
  <2>3. ~active[e]
    BY <1>2, AddFacts
  <2>4. Deadlines'
    BY <1>0, <2>1, <2>2 DEF Deadlines
  <2>5. Spent'
    BY <1>0, <2>2, <2>3 DEF Spent
  <2>6. Sorted'
    BY <1>2, InsertKeepsSorted
  <2>7. QED
    BY <2>4, <2>5, <2>6
<1>3. ASSUME NEW e \in Events, AddRefused(e) PROVE Clock'
  <2>1. adding' = [adding EXCEPT ![e] = NoAdd]
        /\ UNCHANGED <<tick, list, deadline, queued, active, left>>
    BY <1>3 DEF AddRefused
  <2>2. Deadlines'
    BY <1>0, <2>1 DEF Deadlines
  <2>3. QED
    BY <2>1, <2>2 DEF Spent, Sorted
<1>4. ASSUME NEW e \in Events, Del(e) PROVE Clock'
  <2>1. /\ queued' = [queued EXCEPT ![e] = FALSE]
        /\ deadline' = [deadline EXCEPT ![e] = 0]
        /\ left' = [left EXCEPT ![e] = 0]
        /\ UNCHANGED <<tick, active, adding>>
        /\ queued \in [Events -> BOOLEAN]
        /\ ~active[e]
    BY <1>4 DEF Del, Shape, Timers
  <2>2. Deadlines'
    BY <1>0, <2>1 DEF Deadlines
  <2>3. Spent'
    BY <1>0, <2>1 DEF Spent
  <2>4. Sorted'
    BY <1>4, DeleteKeepsSorted
  <2>5. QED
    BY <2>2, <2>3, <2>4
<1>5. CASE Start
  BY <1>5 DEF Start, Deadlines, Spent, Sorted
<1>6. CASE Idle
  BY <1>6 DEF Idle, Deadlines, Spent, Sorted
<1>7. CASE TickTake
  BY <1>7, TakeKeepsClock
<1>8. CASE TickCall
  BY <1>8 DEF TickCall, Deadlines, Spent, Sorted
<1>9. CASE TickRelease
  <2>1. /\ \A e \in Events : ~active'[e]
        /\ queued' = queued /\ UNCHANGED <<tick, list, deadline, adding>>
    BY <1>9, ReleaseFacts DEF TickRelease
  <2>2. \A e \in Events : left'[e] = IF active[e] THEN 0 ELSE left[e]
    BY <1>9 DEF TickRelease, Shape, NodeOnOneList
  <2>3. \A e \in Events : queued[e] => left'[e] = left[e]
    BY <2>2 DEF Shape, NodeOnOneList
  <2>4. Deadlines'
    BY <2>1, <2>3 DEF Deadlines
  <2>5. Spent'
    BY <2>1, <2>2 DEF Spent
  <2>6. Sorted'
    <3>1. list \in Seq(Events)
      BY DEF Shape, Timers
    <3>2. \A i \in 1 .. Len(list) : list[i] \in Events /\ list[i] \in ToSet(list)
      BY <3>1 DEF ToSet
    <3>3. \A i \in 1 .. Len(list) : left'[list[i]] = left[list[i]]
      BY <2>3, <3>2 DEF Shape, NodeOnOneList
    <3>4. QED
      BY <2>1, <3>3 DEF Sorted
  <2>7. QED
    BY <2>4, <2>5, <2>6
<1>10. CASE UNCHANGED vars
  BY <1>10 DEF vars, Deadlines, Spent, Sorted
<1>11. QED
  BY <1>1, <1>2, <1>3, <1>4, <1>5, <1>6, <1>7, <1>8, <1>9, <1>10 DEF Next

LEMMA ClockAlways == ASSUME ShortDelays PROVE Spec => [](Shape /\ Clock)
<1>1. Init => Shape /\ Clock
  BY ShapeInit, ClockInit
<1>2. Shape /\ Clock /\ [Next]_vars => (Shape /\ Clock)'
  BY ShapeStep, ClockStep
<1>3. QED
  BY <1>1, <1>2, PTL DEF Spec

-----------------------------------------------------------------------------
(* The properties of KernTimer.                                            *)

\* Types, the times that are left included: an event is queued at most MaxLate past
\* its deadline and then taken by the next tick.
THEOREM TimerTypes == ASSUME ShortDelays PROVE Spec => []TypeOK
<1>1. Shape /\ Clock => TypeOK
  <2>1. SUFFICES ASSUME Shape, Clock PROVE TypeOK
    OBVIOUS
  <2>2. /\ Half \in Int /\ TickMod = Half + Half /\ TickMod \in Nat \ {0}
        /\ MaxLate \in Int /\ MaxLate >= 0 /\ Interval \in Int /\ Interval >= 1
    BY TimerAssumption DEF Half
  <2>3. \A x : OnTime(x) => x \in Lefts
    BY <2>2 DEF OnTime, Lefts
  <2>4. 0 \in Lefts /\ -(MaxLate + Interval) .. 0 \subseteq Lefts
    BY <2>2 DEF Lefts
  <2>5. \A e \in Events : left[e] \in Lefts
    BY <2>1, <2>3, <2>4 DEF Clock, Deadlines, Spent
  <2>6. \A e \in Events : adding[e] \in Adds
    <3>1. SUFFICES ASSUME NEW e \in Events, adding[e] # NoAdd
                   PROVE  adding[e] \in [abs : TickValues, left : Lefts]
      BY DEF Adds
    <3>2. adding[e] \in [abs : TickValues, left : Int]
      BY <2>1, <3>1 DEF Shape, Timers
    <3>3. adding[e].left \in Lefts
      BY <2>1, <2>3, <3>1 DEF Clock, Deadlines
    <3>4. QED
      BY <3>2, <3>3
  <2>7. left \in [Events -> Lefts] /\ adding \in [Events -> Adds]
    BY <2>1, <2>5, <2>6 DEF Shape, Timers
  <2>8. QED
    BY <2>1, <2>7 DEF Shape, Timers, TypeOK
<1>2. QED
  BY <1>1, ClockAlways, PTL

\* The flags of an event tell the truth, and it is on one list at most, once.
THEOREM FlagsTellTheTruth == Spec => []NodeOnOneList
<1>1. Shape => NodeOnOneList
  BY DEF Shape
<1>2. QED
  BY <1>1, ShapeAlways, PTL

\* The timer runs while an event is queued.
THEOREM RunsWhileArmed == Spec => []ArmedMeansRunning
<1>1. Shape => ArmedMeansRunning
  BY DEF Shape
<1>2. QED
  BY <1>1, ShapeAlways, PTL

\* The queue stays sorted across the wrap of the tick.
THEOREM QueueStaysSorted == ASSUME ShortDelays PROVE Spec => []Sorted
<1>1. Shape /\ Clock => Sorted
  BY DEF Clock
<1>2. QED
  BY <1>1, ClockAlways, PTL

\* No event is taken before its time.
THEOREM NeverEarly == ASSUME ShortDelays PROVE Spec => []NotEarly
<1>1. Shape /\ Clock => NotEarly
  <2>1. SUFFICES ASSUME Clock, NEW e \in Events, active[e] PROVE left[e] <= 0
    BY DEF NotEarly
  <2>2. MaxLate \in Int /\ Interval \in Int
    BY TimerAssumption
  <2>3. left[e] \in -(MaxLate + Interval) .. 0
    BY <2>1 DEF Clock, Spent
  <2>4. QED
    BY <2>2, <2>3
<1>2. QED
  BY <1>1, ClockAlways, PTL

\* A tick takes every event whose time has come.
THEOREM TakesAllDue == ASSUME ShortDelays PROVE Spec => TickTakesAllDue
<1>1. ASSUME Shape, Clock, [Next]_vars, ~busy, busy'
      PROVE  \A e \in Events : queued'[e] => left'[e] > 0
  <2>1. TickTake
    BY <1>1 DEF Next, vars, AddRead, AddLocked, AddRefused, Del, Start, Idle, TickCall, TickRelease
  <2>2. QED
    BY <1>1, <2>1, TakeKeepsClock
<1>2. Shape /\ Clock /\ [Next]_vars
        => [~busy /\ busy' => \A e \in Events : queued'[e] => left'[e] > 0]_vars
  BY <1>1
<1>3. QED
  BY <1>2, ClockAlways, PTL DEF Spec, TickTakesAllDue

\* What the handler has taken stays in its hands until its callbacks have run.
THEOREM HeldToTheEnd == Spec => HeldUntilReleased
<1>1. ASSUME Shape, [Next]_vars, NEW e \in Events, active[e], ~active'[e]
      PROVE  ~busy' /\ cursor > Len(fire) /\ ~queued'[e]
  <2>1. TickRelease
    BY <1>1 DEF Next, vars, AddRead, AddLocked, AddRefused, Del, Start, Idle, TickTake, TickCall
  <2>2. queued' = queued /\ ~busy'
    BY <1>1, <2>1, ReleaseFacts
  <2>3. ~queued[e]
    BY <1>1 DEF Shape, NodeOnOneList
  <2>4. QED
    BY <2>1, <2>2, <2>3 DEF TickRelease, AllCalled
<1>2. Shape /\ [Next]_vars
        => [\A e \in Events :
              active[e] /\ ~active'[e] => ~busy' /\ cursor > Len(fire) /\ ~queued'[e]]_vars
  BY <1>1
<1>3. QED
  BY <1>2, ShapeAlways, PTL DEF Spec, HeldUntilReleased

-----------------------------------------------------------------------------
(* KernTimer implements the safety part of TimerEvents.                    *)

\* What TimerEvents sees of the state.
Armed == {e \in Events : queued[e]}
Held == {e \in Events : active[e]}
ToDo == {fire[i] : i \in cursor .. Len(fire)}

LEMMA PromiseInit == Init => Promise!Init
BY DEF Init, Promise!Init

\* A tick is a Tick of TimerEvents: what has come due is any set of armed events.
LEMMA TakeIsTick ==
  ASSUME Shape, TickTake
  PROVE  Promise!Tick
<1> DEFINE due == ToSet(fire')
<1>1. /\ fire' \in Seq(Events) /\ due \subseteq ToSet(list)
      /\ ToSet(list') = ToSet(list) \ due
      /\ \A e \in Events : /\ queued'[e] <=> e \in ToSet(list')
                           /\ active'[e] <=> e \in due
  BY TakeFacts
<1>2. \A e \in Events : queued[e] <=> e \in ToSet(list)
  BY DEF Shape, NodeOnOneList
<1>3. due \subseteq Events
  BY <1>1 DEF ToSet
<1>4. ToDo' = due
  <2>1. cursor' = 1 /\ DOMAIN fire' = 1 .. Len(fire')
    BY <1>1 DEF TickTake
  <2>2. QED
    BY <2>1 DEF ToDo, ToSet
<1> HIDE DEF due
<1>5. due \in SUBSET Armed /\ Armed' = Armed \ due /\ Held' = due
  BY <1>1, <1>2, <1>3 DEF Armed, Held
<1>6. \E d \in SUBSET Armed : Armed' = Armed \ d /\ Held' = d /\ ToDo' = d
  BY <1>4, <1>5
<1>7. QED
  BY <1>6 DEF TickTake, Promise!Tick, Armed, Held, ToDo

\* The callback loop does what is to do one by one.
LEMMA CallIsCallback ==
  ASSUME Shape, TickCall
  PROVE  Promise!Next
<1>1. /\ fire \in Seq(Events) /\ Len(fire) \in Nat
      /\ \A i, j \in 1 .. Len(fire) : fire[i] = fire[j] => i = j
  BY DEF Shape, Timers, NodeOnOneList, IsInjective
<1>2. cursor \in 1 .. Len(fire) /\ cursor' = cursor + 1 /\ fire' = fire
  BY <1>1 DEF TickCall, AllCalled, Shape, Timers
<1>3. fire[cursor] \in Events /\ fire[cursor] \in ToDo
  BY <1>1, <1>2 DEF ToDo
<1>4. ToDo' = ToDo \ {fire[cursor]}
  <2>1. \A i \in cursor + 1 .. Len(fire) : i \in cursor .. Len(fire) /\ fire[i] # fire[cursor]
    BY <1>1, <1>2
  <2>2. \A i \in cursor .. Len(fire) : i = cursor \/ i \in cursor + 1 .. Len(fire)
    BY <1>1, <1>2
  <2>3. ToDo' = {fire[i] : i \in cursor + 1 .. Len(fire)}
    BY <1>2 DEF ToDo
  <2>4. QED
    BY <2>1, <2>2, <2>3 DEF ToDo
<1>5. Armed' = Armed /\ Held' = Held
  BY DEF TickCall, Armed, Held
<1>6. PICK e \in Events : e = fire[cursor]
  BY <1>3
<1>7. Promise!Callback(e)
  BY <1>3, <1>4, <1>5, <1>6 DEF TickCall, Promise!Callback, Armed, Held, ToDo
<1>8. QED
  BY <1>7 DEF Promise!Next

\* Each step is a step of TimerEvents or changes nothing it sees.
LEMMA PromiseStep ==
  ASSUME Shape, [Next]_vars
  PROVE  [Promise!Next]_(Promise!vars)
<1>0. queued \in [Events -> BOOLEAN] /\ active \in [Events -> BOOLEAN]
  BY DEF Shape, Timers
<1>1. ASSUME UNCHANGED <<queued, active, running, latched, fire, cursor, busy>>
      PROVE  UNCHANGED Promise!vars
  BY <1>1 DEF Promise!vars
<1>2. ASSUME NEW e \in Events, AddLocked(e) PROVE Promise!Next
  <2>1. ~queued[e] /\ ~active[e]
    BY <1>2, AddFacts
  <2>2. queued' = [queued EXCEPT ![e] = TRUE] /\ UNCHANGED <<active, latched, fire, cursor, busy>>
        /\ running' = TRUE
    BY <1>2 DEF AddLocked, StartLocked
  <2>3. Armed' = Armed \cup {e} /\ Held' = Held /\ ToDo' = ToDo
        /\ e \notin Armed \cup Held
    BY <1>0, <2>1, <2>2 DEF Armed, Held, ToDo
  <2>4. Promise!Add(e)
    BY <2>2, <2>3 DEF Promise!Add, Promise!Addable, Armed, Held, ToDo
  <2>5. QED
    BY <2>4 DEF Promise!Next
<1>3. ASSUME NEW e \in Events, Del(e) PROVE Promise!Next
  <2>1. queued' = [queued EXCEPT ![e] = FALSE] /\ ~active[e]
        /\ UNCHANGED <<active, running, latched, fire, cursor, busy>>
    BY <1>3 DEF Del
  <2>2. Armed' = Armed \ {e} /\ Held' = Held /\ ToDo' = ToDo /\ e \notin Held
    BY <1>0, <2>1 DEF Armed, Held, ToDo
  <2>3. Promise!Del(e)
    BY <2>1, <2>2 DEF Promise!Del, Armed, Held, ToDo
  <2>4. QED
    BY <2>3 DEF Promise!Next
<1>4. CASE Start
  <2>1. Promise!Start
    BY <1>4 DEF Start, StartLocked, Promise!Start
  <2>2. QED
    BY <2>1 DEF Promise!Next
<1>5. CASE Idle
  <2>1. Armed = {}
    BY <1>5, EmptyInjective DEF Idle, NothingQueued, Shape, NodeOnOneList, Armed
  <2>2. Promise!Idle
    BY <1>5, <2>1 DEF Idle, Promise!Idle, Armed
  <2>3. QED
    BY <2>2 DEF Promise!Next
<1>6. CASE TickTake
  BY <1>6, TakeIsTick DEF Promise!Next
<1>7. CASE TickCall
  BY <1>7, CallIsCallback
<1>8. CASE TickRelease
  <2>1. /\ \A e \in Events : ~active'[e]
        /\ queued' = queued /\ fire' = <<>> /\ cursor' = 1 /\ ~busy'
    BY <1>8, ReleaseFacts
  <2>2. fire \in Seq(Events) /\ cursor \in 1 .. Len(fire) + 1 /\ cursor > Len(fire)
    BY <1>8 DEF TickRelease, AllCalled, Shape, Timers
  <2>3. ToDo = {} /\ ToDo' = {}
    <3>1. cursor .. Len(fire) = {}
      BY <2>2
    <3>2. 1 .. Len(<<>>) = {}
      OBVIOUS
    <3>3. QED
      BY <2>1, <3>1, <3>2 DEF ToDo
  <2>4. Held' = {} /\ Armed' = Armed
    BY <2>1 DEF Held, Armed
  <2>5. Promise!TickDone
    BY <1>8, <2>3, <2>4 DEF TickRelease, Promise!TickDone, Held, Armed, ToDo
  <2>6. QED
    BY <2>5 DEF Promise!Next
<1>9. ASSUME NEW e \in Events, \/ \E msec \in Delays : AddRead(e, msec)
                               \/ AddRefused(e)
      PROVE  UNCHANGED Promise!vars
  BY <1>1, <1>9 DEF AddRead, AddRefused
<1>10. CASE UNCHANGED vars
  BY <1>1, <1>10 DEF vars
<1>11. QED
  BY <1>2, <1>3, <1>4, <1>5, <1>6, <1>7, <1>8, <1>9, <1>10 DEF Next

\* Every step of the queue is one that TimerEvents allows: an event is called back
\* once per add and not after a delete.  (That it is called back is liveness.)
THEOREM StepsKeepThePromise == Spec => Promise!Init /\ [][Promise!Next]_(Promise!vars)
<1>1. Shape /\ [Next]_vars => [Promise!Next]_(Promise!vars)
  BY PromiseStep
<1>2. QED
  BY <1>1, PromiseInit, ShapeAlways, PTL DEF Spec
=============================================================================
