-------------------------- MODULE TransModeProofs --------------------------
(***************************************************************************)
(* UART 1 in transparent mode on the host interface task, for any handlers *)
(* and times of timers, sizes of mailbox, ring and packets, and loads.     *)
(*                                                                         *)
(*   - The delta list of timers is the list its clients think of           *)
(*     (TimersImplemented); the time left of a timer is a sum over the     *)
(*     list, so this rests on induction over positions.                    *)
(*   - The receive timer is armed once (OneTimerArmed): what counts is the *)
(*     order of requests in the mailbox, Good.                             *)
(*   - Bytes are passed on once and in order (ForwardedOnce): RingInv.     *)
(*   - The wakeup message is posted once (TransTypes): WakeInv.            *)
(*   - Timers do not fire early (FiresInTime): ClockInv.                   *)
(*   - Bytes in the ring are not forgotten (BytesAreServed): ServeInv.     *)
(***************************************************************************)
EXTENDS TransMode, SequenceTheorems, WellFoundedInduction, TLAPS

-----------------------------------------------------------------------------
(* Numbers. *)

\* Every nonempty set of natural numbers has a least element.
LEMMA LeastNat ==
    ASSUME NEW S \in SUBSET Nat, S # {}
    PROVE  \E x \in S : \A y \in S : x <= y
<1>1. PICK x \in S : \A y \in S : ~(<<y, x>> \in OpToRel(<, Nat))
  BY WFMin, NatLessThanWellFounded, Zenon
<1>2. ASSUME NEW y \in S PROVE x <= y
  <2>1. ~(y < x)
    <3>1. <<y, x>> \in Nat \X Nat
      OBVIOUS
    <3>2. y < x => <<y, x>> \in OpToRel(<, Nat)
      BY <3>1 DEF OpToRel
    <3> QED
      BY <1>1, <3>2, Zenon
  <2> QED
    BY <2>1
<1> QED
  BY <1>2

LEMMA MinNat ==
    ASSUME NEW S \in SUBSET Nat, S # {}
    PROVE  Min(S) \in S /\ \A y \in S : Min(S) <= y
  BY LeastNat DEF Min

\* Induction, for sets.
LEMMA NatInSet ==
    ASSUME NEW S, 0 \in S, \A n \in Nat : n \in S => n + 1 \in S
    PROVE  \A n \in Nat : n \in S
<1> DEFINE T == {n \in Nat : n \notin S}
<1>1. SUFFICES ASSUME T # {} PROVE FALSE
  OBVIOUS
<1>2. PICK x \in T : \A y \in T : x <= y
  BY <1>1, LeastNat
<1>3. x # 0 /\ x \in Nat
  OBVIOUS
<1>4. x - 1 \in Nat /\ x - 1 \notin T /\ x = (x - 1) + 1
  BY <1>2, <1>3
<1> QED
  BY <1>4

LEMMA Rising ==
    ASSUME NEW n \in Nat, NEW e \in [0 .. n -> Int], \A k \in 1 .. n : e[k - 1] <= e[k]
    PROVE  \A j, k \in 0 .. n : j <= k => e[j] <= e[k]
<1> SUFFICES ASSUME NEW j \in 0 .. n PROVE \A k \in 0 .. n : j <= k => e[j] <= e[k]
  OBVIOUS
<1> DEFINE S == {k \in Nat : j <= k /\ k <= n => e[j] <= e[k]}
<1>1. 0 \in S
  OBVIOUS
<1>2. ASSUME NEW k \in Nat, k \in S PROVE k + 1 \in S
  <2>1. SUFFICES ASSUME j <= k + 1, k + 1 <= n PROVE e[j] <= e[k + 1]
    OBVIOUS
  <2>2. CASE j = k + 1
    BY <2>2
  <2>3. CASE j # k + 1
    <3>1. j <= k /\ k <= n /\ k + 1 \in 1 .. n /\ (k + 1) - 1 = k
      BY <2>1, <2>3
    <3>2. e[j] <= e[k] /\ e[k] <= e[k + 1]
      BY <1>2, <3>1
    <3>3. e[j] \in Int /\ e[k] \in Int /\ e[k + 1] \in Int
      BY <3>1
    <3> QED
      BY <3>2, <3>3
  <2> QED
    BY <2>2, <2>3
<1>3. \A k \in Nat : k \in S
  <2> HIDE DEF S
  <2> QED
    BY <1>1, <1>2, NatInSet
<1> QED
  BY <1>3

\* A walk along n numbers adds them up.
LEMMA SumsExist ==
    ASSUME NEW n \in Nat, NEW m \in Int, NEW d \in [1 .. n -> Int]
    PROVE  \E g \in [0 .. n -> Int] : g[0] = m /\ \A k \in 1 .. n : g[k] = g[k - 1] + d[k]
<1> DEFINE P(j) == \E g \in [0 .. j -> Int] :
                      g[0] = m /\ \A k \in 1 .. j : g[k] = g[k - 1] + d[k]
           S == {j \in Nat : j <= n => P(j)}
<1>1. 0 \in S
  <2>1. P(0)
    <3> DEFINE g == [k \in 0 .. 0 |-> m]
    <3>1. g \in [0 .. 0 -> Int]
      OBVIOUS
    <3>2. g[0] = m
      OBVIOUS
    <3>3. \A k \in 1 .. 0 : g[k] = g[k - 1] + d[k]
      OBVIOUS
    <3> HIDE DEF g
    <3> WITNESS g \in [0 .. 0 -> Int]
    <3> QED
      BY <3>2, <3>3
  <2> QED
    BY <2>1
<1>2. ASSUME NEW j \in Nat, j \in S PROVE j + 1 \in S
  <2>1. SUFFICES ASSUME j + 1 <= n, P(j) PROVE P(j + 1)
    <3> HIDE DEF P
    <3> QED
      BY <1>2
  <2>2. PICK g \in [0 .. j -> Int] : g[0] = m /\ \A k \in 1 .. j : g[k] = g[k - 1] + d[k]
    BY <2>1
  <2> DEFINE f == [k \in 0 .. j + 1 |-> IF k <= j THEN g[k] ELSE g[j] + d[j + 1]]
  <2>3. f \in [0 .. j + 1 -> Int]
    BY <2>1, <2>2
  <2>4. f[0] = m
    BY <2>2
  <2>5. ASSUME NEW k \in 1 .. j + 1 PROVE f[k] = f[k - 1] + d[k]
    <3>1. CASE k <= j
      BY <2>2, <3>1
    <3>2. CASE k = j + 1
      BY <3>2
    <3> QED
      BY <3>1, <3>2
  <2> HIDE DEF f
  <2> WITNESS f \in [0 .. j + 1 -> Int]
  <2> QED
    BY <2>4, <2>5
<1>3. \A j \in Nat : j \in S
  <2> HIDE DEF S
  <2> QED
    BY <1>1, <1>2, NatInSet
<1>4. P(n)
  <2> HIDE DEF P
  <2> QED
    BY <1>3
<1> QED
  BY <1>4

-----------------------------------------------------------------------------
(* The delta list. *)

Ages == 0 .. MaxAge
Entry == [h : Handler, time : Nat, age : Ages, ahead : Ages]

\* TimeLeft adds up the times.
LEMMA TimeLeftSums ==
    ASSUME NEW list \in Seq(Entry)
    PROVE  /\ TimeLeft(list) \in [0 .. Len(list) -> Int]
           /\ TimeLeft(list)[0] = 0
           /\ \A k \in 1 .. Len(list) :
                 TimeLeft(list)[k] = TimeLeft(list)[k - 1] + list[k].time
<1> DEFINE n == Len(list)
           Eq(g) == g = [k \in 0 .. n |-> IF k = 0 THEN 0 ELSE g[k - 1] + list[k].time]
           d == [k \in 1 .. n |-> list[k].time]
<1>1. TimeLeft(list) = CHOOSE g : Eq(g)
  BY DEF TimeLeft
<1>2. n \in Nat /\ \A k \in 1 .. n : list[k].time \in Int
  <2>1. n \in Nat /\ \A k \in 1 .. n : list[k] \in Entry
    OBVIOUS
  <2>2. \A x \in Entry : x.time \in Int
    BY DEF Entry
  <2> HIDE DEF n
  <2> QED
    BY <2>1, <2>2
<1>3. d \in [1 .. n -> Int]
  BY <1>2
<1> HIDE DEF n, d
<1>4. PICK g \in [0 .. n -> Int] : g[0] = 0 /\ \A k \in 1 .. n : g[k] = g[k - 1] + d[k]
  BY <1>2, <1>3, 0 \in Int, SumsExist, Zenon
<1>5. \A k \in 1 .. n : d[k] = list[k].time
  BY DEF d
<1>6. g = [k \in 0 .. n |-> IF k = 0 THEN 0 ELSE g[k - 1] + list[k].time]
  BY <1>2, <1>4, <1>5
<1>7. Eq(TimeLeft(list))
  <2>1. Eq(g)
    BY <1>6
  <2> HIDE DEF Eq
  <2> QED
    BY <1>1, <2>1, Zenon
<1> DEFINE f == TimeLeft(list)
           S == {k \in Nat : k <= n => f[k] = g[k]}
<1>8. f = [k \in 0 .. n |-> IF k = 0 THEN 0 ELSE f[k - 1] + list[k].time]
  BY <1>7
<1> HIDE DEF f
<1>9. f[0] = 0 /\ \A k \in 1 .. n : f[k] = f[k - 1] + list[k].time
  <2>1. 0 \in 0 .. n /\ 1 .. n \subseteq 0 .. n /\ 0 \notin 1 .. n
    BY <1>2
  <2> QED
    BY <1>8, <2>1
<1>10. \A k \in Nat : k \in S
  <2>1. 0 \in S
    BY <1>4, <1>9
  <2>2. ASSUME NEW k \in Nat, k \in S PROVE k + 1 \in S
    <3>1. k + 1 <= n => k + 1 \in 1 .. n /\ k <= n /\ (k + 1) - 1 = k
      BY <1>2
    <3> QED
      BY <1>4, <1>5, <1>9, <2>2, <3>1
  <2> HIDE DEF S
  <2> QED
    BY <2>1, <2>2, NatInSet
<1>11. f \in [0 .. n -> Int]
  <2>1. \A k \in 0 .. n : f[k] = g[k]
    BY <1>2, <1>10
  <2>2. f = [k \in 0 .. n |-> f[k]]
    BY <1>8
  <2> QED
    BY <1>4, <2>1, <2>2
<1> QED
  BY <1>9, <1>11 DEF f, n

\* The walk of tls_timeout_p takes off what TimeLeft adds up.
LEMMA RestSums ==
    ASSUME NEW list \in Seq(Entry), NEW h \in Handler
    PROVE  \A k \in 0 .. Len(list) : Rest(list, h)[k] = Msecs[h] - TimeLeft(list)[k]
<1> DEFINE n == Len(list)
           t == TimeLeft(list)
           f == Rest(list, h)
           m == Msecs[h]
           Eq(g) == g = [k \in 0 .. n |-> IF k = 0 THEN m ELSE g[k - 1] - list[k].time]
           g == [k \in 0 .. n |-> m - t[k]]
<1>1. f = CHOOSE x : Eq(x)
  BY DEF Rest
<1>2. n \in Nat /\ m \in Nat /\ \A k \in 1 .. n : list[k].time \in Int
  <2>1. n \in Nat /\ \A k \in 1 .. n : list[k] \in Entry
    OBVIOUS
  <2>2. \A x \in Entry : x.time \in Int
    BY DEF Entry
  <2>3. m \in Nat
    BY WlTaskAssumption
  <2> HIDE DEF n
  <2> QED
    BY <2>1, <2>2, <2>3
<1>3. t \in [0 .. n -> Int] /\ t[0] = 0 /\ \A k \in 1 .. n : t[k] = t[k - 1] + list[k].time
  BY TimeLeftSums
<1> HIDE DEF n, t, f, m
<1>4. Eq(g)
  <2>1. ASSUME NEW k \in 0 .. n
        PROVE  g[k] = IF k = 0 THEN m ELSE g[k - 1] - list[k].time
    <3>1. CASE k = 0
      BY <1>2, <1>3, <3>1
    <3>2. CASE k # 0
      <4>1. k \in 1 .. n /\ k - 1 \in 0 .. n
        BY <1>2, <3>2
      <4>2. g[k] = m - t[k] /\ g[k - 1] = m - t[k - 1]
        BY <4>1
      <4>3. t[k] = t[k - 1] + list[k].time /\ t[k - 1] \in Int /\ list[k].time \in Int
        BY <1>2, <1>3, <4>1
      <4> HIDE DEF g
      <4> QED
        BY <1>2, <3>2, <4>2, <4>3
    <3> QED
      BY <3>1, <3>2
  <2> QED
    BY <2>1
<1>5. Eq(f)
  <2> HIDE DEF Eq, g
  <2> QED
    BY <1>1, <1>4, Zenon
<1>6. f[0] = m /\ \A k \in 1 .. n : f[k] = f[k - 1] - list[k].time
  <2>1. 0 \in 0 .. n /\ 1 .. n \subseteq 0 .. n /\ 0 \notin 1 .. n
    BY <1>2
  <2> QED
    BY <1>5, <2>1
<1> DEFINE S == {k \in Nat : k <= n => f[k] = m - t[k]}
<1>7. \A k \in Nat : k \in S
  <2>1. 0 \in S
    BY <1>2, <1>3, <1>6
  <2>2. ASSUME NEW k \in Nat, k \in S PROVE k + 1 \in S
    <3>1. SUFFICES ASSUME k + 1 <= n PROVE f[k + 1] = m - t[k + 1]
      OBVIOUS
    <3>2. k + 1 \in 1 .. n /\ k \in 0 .. n /\ k <= n /\ (k + 1) - 1 = k
      BY <1>2, <3>1
    <3>3. f[k] = m - t[k] /\ f[k + 1] = f[k] - list[k + 1].time
      BY <1>6, <2>2, <3>2
    <3>4. t[k + 1] = t[k] + list[k + 1].time /\ t[k] \in Int /\ list[k + 1].time \in Int
      BY <1>2, <1>3, <3>2
    <3> QED
      BY <1>2, <3>3, <3>4
  <2> HIDE DEF S
  <2> QED
    BY <2>1, <2>2, NatInSet
<1> QED
  BY <1>2, <1>7 DEF f, n, t, m

LEMMA EntryFields ==
    ASSUME NEW list \in Seq(Entry)
    PROVE  /\ Len(list) \in Nat /\ DOMAIN list = 1 .. Len(list)
           /\ \A k \in 1 .. Len(list) :
                 /\ list[k] \in Entry /\ list[k].h \in Handler /\ list[k].time \in Nat
                 /\ list[k].age \in Ages /\ list[k].ahead \in Ages
<1>1. Len(list) \in Nat /\ DOMAIN list = 1 .. Len(list)
      /\ \A k \in 1 .. Len(list) : list[k] \in Entry
  OBVIOUS
<1>2. \A x \in Entry : x.h \in Handler /\ x.time \in Nat /\ x.age \in Ages /\ x.ahead \in Ages
  BY DEF Entry
<1> QED
  BY <1>1, <1>2

\* No other function adds up the same times.
LEMMA TimeLeftUnique ==
    ASSUME NEW list \in Seq(Entry), NEW g, g[0] = 0,
           \A k \in 1 .. Len(list) : g[k] = g[k - 1] + list[k].time
    PROVE  \A k \in 0 .. Len(list) : TimeLeft(list)[k] = g[k]
<1> DEFINE n == Len(list)
           t == TimeLeft(list)
           S == {k \in Nat : k <= n => t[k] = g[k]}
<1>1. n \in Nat
  OBVIOUS
<1>2. t[0] = 0 /\ \A k \in 1 .. n : t[k] = t[k - 1] + list[k].time
  BY TimeLeftSums
<1> HIDE DEF n, t
<1>3. 0 \in S
  BY <1>2
<1>4. ASSUME NEW k \in Nat, k \in S PROVE k + 1 \in S
  <2>1. k + 1 <= n => k + 1 \in 1 .. n /\ k <= n /\ (k + 1) - 1 = k
    BY <1>1
  <2> QED
    BY <1>2, <1>4, <2>1 DEF n
<1>5. \A k \in Nat : k \in S
  <2> HIDE DEF S
  <2> QED
    BY <1>3, <1>4, NatInSet
<1> QED
  BY <1>5 DEF n, t

LEMMA TimeLeftRises ==
    ASSUME NEW list \in Seq(Entry)
    PROVE  \A j, k \in 0 .. Len(list) : j <= k => TimeLeft(list)[j] <= TimeLeft(list)[k]
<1> DEFINE n == Len(list)
           t == TimeLeft(list)
<1>1. n \in Nat /\ \A k \in 1 .. n : list[k].time \in Nat
  BY EntryFields
<1>2. t \in [0 .. n -> Int] /\ \A k \in 1 .. n : t[k] = t[k - 1] + list[k].time
  BY TimeLeftSums
<1> HIDE DEF n, t
<1>3. ASSUME NEW k \in 1 .. n PROVE t[k - 1] <= t[k]
  <2>1. k - 1 \in 0 .. n /\ t[k - 1] \in Int /\ t[k] = t[k - 1] + list[k].time /\ list[k].time \in Nat
    BY <1>1, <1>2
  <2> QED
    BY <2>1
<1> QED
  BY <1>1, <1>2, <1>3, Rising DEF n, t

\* Where the walk stops: the entries it passed are due no later than the new
\* one, the next is.
LEMMA PassedAt ==
    ASSUME NEW list \in Seq(Entry), NEW h \in Handler
    PROVE  /\ Passed(list, h) \in 0 .. Len(list)
           /\ Passed(list, h) < Len(list) => TimeLeft(list)[Passed(list, h) + 1] > Msecs[h]
           /\ \A k \in 0 .. Passed(list, h) : TimeLeft(list)[k] <= Msecs[h]
<1> DEFINE n == Len(list)
           t == TimeLeft(list)
           r == Rest(list, h)
           m == Msecs[h]
           p == Passed(list, h)
           P == {k \in 0 .. n : k = n \/ list[k + 1].time > r[k]}
<1>1. n \in Nat /\ m \in Nat /\ \A k \in 1 .. n : list[k].time \in Nat
  BY EntryFields, WlTaskAssumption
<1>2. t \in [0 .. n -> Int] /\ t[0] = 0 /\ \A k \in 1 .. n : t[k] = t[k - 1] + list[k].time
  BY TimeLeftSums
<1>3. \A k \in 0 .. n : r[k] = m - t[k]
  BY RestSums
<1>4. p = Min(P)
  BY DEF Passed
<1> HIDE DEF n, t, r, m, p
<1>5. P \in SUBSET Nat /\ n \in P
  BY <1>1
<1>6. p \in P /\ \A k \in P : p <= k
  <2> HIDE DEF P
  <2> QED
    BY <1>4, <1>5, MinNat
<1>7. ASSUME NEW k \in 0 .. n, k # n
      PROVE  k + 1 \in 1 .. n /\ (list[k + 1].time > r[k] <=> t[k + 1] > m)
  <2>1. k + 1 \in 1 .. n /\ (k + 1) - 1 = k
    BY <1>1, <1>7
  <2>2. t[k + 1] = t[k] + list[k + 1].time /\ t[k] \in Int /\ list[k + 1].time \in Nat /\ r[k] = m - t[k]
    BY <1>1, <1>2, <1>3, <2>1
  <2> QED
    BY <1>1, <2>1, <2>2
<1>8. p \in 0 .. n /\ (p < n => t[p + 1] > m)
  BY <1>1, <1>6, <1>7
<1>9. ASSUME NEW k \in 0 .. p PROVE t[k] <= m
  <2>1. CASE k = 0
    BY <1>1, <1>2, <2>1
  <2>2. CASE k # 0
    <3>1. k - 1 \in 0 .. n /\ k - 1 # n /\ k - 1 < p /\ (k - 1) + 1 = k /\ k \in 0 .. n
      BY <1>1, <1>8, <2>2
    <3>2. k - 1 \notin P
      BY <1>6, <1>8, <3>1
    <3>3. ~(t[k] > m)
      BY <1>7, <3>1, <3>2
    <3>4. t[k] \in Int
      BY <1>2, <3>1
    <3> QED
      BY <1>1, <3>3, <3>4
  <2> QED
    BY <2>1, <2>2
<1> QED
  BY <1>8, <1>9 DEF n, t, m, p

LEMMA InsertAtPoints ==
    ASSUME NEW S, NEW s \in Seq(S), NEW i \in 1 .. Len(s) + 1, NEW e \in S
    PROVE  /\ InsertAt(s, i, e) \in Seq(S)
           /\ Len(InsertAt(s, i, e)) = Len(s) + 1
           /\ \A k \in 1 .. Len(s) + 1 :
                 InsertAt(s, i, e)[k] = IF k < i THEN s[k] ELSE IF k = i THEN e ELSE s[k - 1]
<1> DEFINE a == SubSeq(s, 1, i - 1)
           b == SubSeq(s, i, Len(s))
<1>1. a \in Seq(S) /\ Len(a) = i - 1 /\ \A k \in 1 .. i - 1 : a[k] = s[k]
  OBVIOUS
<1>2. b \in Seq(S) /\ Len(b) = Len(s) - i + 1 /\ \A k \in 1 .. Len(b) : b[k] = s[i + k - 1]
  OBVIOUS
<1>3. InsertAt(s, i, e) = (a \o <<e>>) \o b
  BY DEF InsertAt
<1> HIDE DEF a, b
<1> DEFINE c == a \o <<e>>
<1>4. c \in Seq(S) /\ Len(c) = i /\ \A k \in 1 .. i : c[k] = IF k < i THEN s[k] ELSE e
  BY <1>1
<1> HIDE DEF c
<1>5. /\ c \o b \in Seq(S) /\ Len(c \o b) = Len(s) + 1
      /\ \A k \in 1 .. Len(s) + 1 : (c \o b)[k] = IF k <= i THEN c[k] ELSE b[k - i]
  BY <1>2, <1>4
<1>6. ASSUME NEW k \in 1 .. Len(s) + 1
      PROVE  (c \o b)[k] = IF k < i THEN s[k] ELSE IF k = i THEN e ELSE s[k - 1]
  BY <1>2, <1>4, <1>5
<1> QED
  BY <1>3, <1>5, <1>6 DEF c

LEMMA RemoveAtPoints ==
    ASSUME NEW S, NEW s \in Seq(S), NEW i \in 1 .. Len(s)
    PROVE  /\ RemoveAt(s, i) \in Seq(S)
           /\ Len(RemoveAt(s, i)) = Len(s) - 1
           /\ \A k \in 1 .. Len(s) - 1 : RemoveAt(s, i)[k] = IF k < i THEN s[k] ELSE s[k + 1]
<1> DEFINE a == SubSeq(s, 1, i - 1)
           b == SubSeq(s, i + 1, Len(s))
<1>1. a \in Seq(S) /\ Len(a) = i - 1 /\ \A k \in 1 .. i - 1 : a[k] = s[k]
  OBVIOUS
<1>2. b \in Seq(S) /\ Len(b) = Len(s) - i /\ \A k \in 1 .. Len(b) : b[k] = s[i + k]
  OBVIOUS
<1>3. RemoveAt(s, i) = a \o b
  BY DEF RemoveAt
<1> HIDE DEF a, b
<1>4. /\ a \o b \in Seq(S) /\ Len(a \o b) = Len(s) - 1
      /\ \A k \in 1 .. Len(s) - 1 : (a \o b)[k] = IF k <= i - 1 THEN a[k] ELSE b[k - (i - 1)]
  BY <1>1, <1>2
<1>5. ASSUME NEW k \in 1 .. Len(s) - 1
      PROVE  (a \o b)[k] = IF k < i THEN s[k] ELSE s[k + 1]
  BY <1>1, <1>2, <1>4
<1> QED
  BY <1>3, <1>4, <1>5

\* What tls_timeout_p makes of the list.
LEMMA TimeoutPoints ==
    ASSUME NEW list \in Seq(Entry), NEW h \in Handler, NEW p, p = Passed(list, h),
           NEW m, m = Msecs[h]
    PROVE  /\ Timeout(list, h) \in Seq(Entry)
           /\ Len(Timeout(list, h)) = Len(list) + 1
           /\ Timeout(list, h)[p + 1] =
                [h |-> h, time |-> m - TimeLeft(list)[p], age |-> 0, ahead |-> 0]
           /\ \A k \in 1 .. Len(list) + 1 :
                 /\ k <= p => Timeout(list, h)[k] = list[k]
                 /\ k = p + 2 => Timeout(list, h)[k] =
                                   [list[k - 1] EXCEPT !.time = @ - (m - TimeLeft(list)[p])]
                 /\ k > p + 2 => Timeout(list, h)[k] = list[k - 1]
<1> DEFINE n == Len(list)
           t == TimeLeft(list)
           d == m - t[p]
           new == [h |-> h, time |-> d, age |-> 0, ahead |-> 0]
           later == [i \in 1 .. n |->
                       IF i = p + 1 THEN [list[i] EXCEPT !.time = @ - d] ELSE list[i]]
<1>1. n \in Nat /\ m \in Nat /\ DOMAIN list = 1 .. n
      /\ \A k \in 1 .. n : list[k] \in Entry /\ list[k].time \in Nat
  BY EntryFields, WlTaskAssumption
<1>2. t \in [0 .. n -> Int] /\ t[0] = 0 /\ \A k \in 1 .. n : t[k] = t[k - 1] + list[k].time
  BY TimeLeftSums
<1>3. p \in 0 .. n /\ (p < n => t[p + 1] > m) /\ t[p] <= m
  BY PassedAt
<1>4. Armed(list, h) = new
  <2>1. Rest(list, h)[p] = d
    BY <1>3, RestSums
  <2> QED
    BY <2>1 DEF Armed
<1>5. Timeout(list, h) = InsertAt(later, p + 1, new)
  BY <1>1, <1>4 DEF Timeout
<1> HIDE DEF n, t
<1>6. d \in Nat
  BY <1>1, <1>2, <1>3
<1>7. new \in Entry
  BY <1>6, WlTaskAssumption DEF Entry, Ages
<1>8. ASSUME NEW i \in 1 .. n PROVE later[i] \in Entry
  <2>1. CASE i = p + 1
    <3>1. i - 1 = p /\ p < n /\ p \in 0 .. n
      BY <1>1, <1>3, <2>1
    <3>2. t[i] = t[p] + list[i].time /\ t[i] > m /\ t[p] \in Int
      BY <1>1, <1>2, <1>3, <2>1, <3>1
    <3>3. list[i].time - d \in Nat
      BY <1>1, <1>6, <3>2
    <3>4. later[i] = [list[i] EXCEPT !.time = list[i].time - d]
      BY <2>1
    <3> HIDE DEF later, d
    <3> QED
      BY <1>1, <3>3, <3>4 DEF Entry
  <2>2. CASE i # p + 1
    BY <1>1, <2>2
  <2> QED
    BY <2>1, <2>2
<1>9. later \in Seq(Entry) /\ Len(later) = n
  BY <1>1, <1>8
<1>10. \A i \in 1 .. n : later[i] = IF i = p + 1 THEN [list[i] EXCEPT !.time = @ - d] ELSE list[i]
  OBVIOUS
<1> HIDE DEF later, new, d
<1>11. p + 1 \in 1 .. n + 1
  BY <1>1, <1>3
<1>12. /\ Timeout(list, h) \in Seq(Entry)
       /\ Len(Timeout(list, h)) = n + 1
       /\ \A k \in 1 .. n + 1 :
             Timeout(list, h)[k] = IF k < p + 1 THEN later[k]
                                   ELSE IF k = p + 1 THEN new ELSE later[k - 1]
  <2>1. PICK s \in Seq(Entry), e \in Entry, i \in 1 .. n + 1 :
             Len(s) = n /\ s = later /\ e = new /\ i = p + 1
    BY <1>7, <1>9, <1>11
  <2>2. i \in 1 .. Len(s) + 1
    BY <2>1
  <2>3. /\ InsertAt(s, i, e) \in Seq(Entry)
        /\ Len(InsertAt(s, i, e)) = Len(s) + 1
    <3>1. InsertAt(s, i, e) \in Seq(Entry)
      BY <2>2, InsertAtPoints
    <3>2. Len(InsertAt(s, i, e)) = Len(s) + 1
      BY <2>2, InsertAtPoints
    <3> QED
      BY <3>1, <3>2
  <2>4. \A k \in 1 .. Len(s) + 1 :
           InsertAt(s, i, e)[k] = IF k < i THEN s[k] ELSE IF k = i THEN e ELSE s[k - 1]
    BY <2>2, InsertAtPoints
  <2> QED
    BY <1>5, <1>9, <2>1, <2>3, <2>4
<1>13. Timeout(list, h)[p + 1] = new
  BY <1>1, <1>11, <1>12
<1>14. ASSUME NEW k \in 1 .. n + 1
       PROVE /\ k <= p => Timeout(list, h)[k] = list[k]
             /\ k = p + 2 => Timeout(list, h)[k] = [list[k - 1] EXCEPT !.time = @ - d]
             /\ k > p + 2 => Timeout(list, h)[k] = list[k - 1]
  <2>1. CASE k <= p
    <3>1. k \in 1 .. n /\ k < p + 1 /\ k # p + 1 /\ ~(k = p + 2) /\ ~(k > p + 2)
      BY <1>1, <1>3, <2>1
    <3> QED
      BY <1>10, <1>12, <3>1
  <2>2. CASE k = p + 1
    BY <1>1, <1>3, <2>2
  <2>3. CASE k = p + 2
    <3>1. k - 1 \in 1 .. n /\ ~(k < p + 1) /\ k # p + 1 /\ ~(k <= p) /\ ~(k > p + 2) /\ k - 1 = p + 1
      BY <1>1, <1>3, <2>3
    <3> QED
      BY <1>10, <1>12, <3>1
  <2>4. CASE k > p + 2
    <3>1. k - 1 \in 1 .. n /\ ~(k < p + 1) /\ k # p + 1 /\ ~(k <= p) /\ k - 1 # p + 1 /\ k # p + 2
      BY <1>1, <1>3, <2>4
    <3> QED
      BY <1>10, <1>12, <3>1
  <2> QED
    BY <1>1, <1>3, <2>1, <2>2, <2>3, <2>4
<1> QED
  BY <1>12, <1>13, <1>14 DEF new, d, n, t

AbsTimer == [h : Handler, left : Nat]

LEMMA TimersPoints ==
    ASSUME NEW list \in Seq(Entry)
    PROVE  /\ Timers(list) \in Seq(AbsTimer) /\ Len(Timers(list)) = Len(list)
           /\ DOMAIN Timers(list) = 1 .. Len(list)
           /\ \A k \in 1 .. Len(list) :
                 Timers(list)[k] = [h |-> list[k].h, left |-> TimeLeft(list)[k]]
<1> DEFINE n == Len(list)
           t == TimeLeft(list)
<1>1. n \in Nat /\ DOMAIN list = 1 .. n /\ \A k \in 1 .. n : list[k].h \in Handler
  BY EntryFields
<1>2. t \in [0 .. n -> Int] /\ t[0] = 0 /\ \A j, k \in 0 .. n : j <= k => t[j] <= t[k]
  BY TimeLeftSums, TimeLeftRises
<1>3. Timers(list) = [k \in 1 .. n |-> [h |-> list[k].h, left |-> t[k]]]
  BY <1>1 DEF Timers
<1> HIDE DEF n, t
<1>4. ASSUME NEW k \in 1 .. n PROVE [h |-> list[k].h, left |-> t[k]] \in AbsTimer
  <2>1. k \in 0 .. n /\ 0 \in 0 .. n /\ 0 <= k
    BY <1>1
  <2>2. t[k] \in Nat
    BY <1>2, <2>1
  <2> QED
    BY <1>1, <2>2 DEF AbsTimer
<1> QED
  BY <1>1, <1>3, <1>4 DEF n, t

\* The time left of each timer after one is armed.
LEMMA TimeoutLeft ==
    ASSUME NEW list \in Seq(Entry), NEW h \in Handler, NEW p, p = Passed(list, h)
    PROVE  \A k \in 0 .. Len(list) + 1 :
              TimeLeft(Timeout(list, h))[k] =
                IF k <= p THEN TimeLeft(list)[k]
                ELSE IF k = p + 1 THEN Msecs[h] ELSE TimeLeft(list)[k - 1]
<1> DEFINE n == Len(list)
           m == Msecs[h]
           t == TimeLeft(list)
           g == [k \in 0 .. n + 1 |-> IF k <= p THEN t[k] ELSE IF k = p + 1 THEN m ELSE t[k - 1]]
           new == Timeout(list, h)
<1>1. n \in Nat /\ m \in Nat /\ \A k \in 1 .. n : list[k] \in Entry /\ list[k].time \in Nat
  BY EntryFields, WlTaskAssumption
<1>2. t \in [0 .. n -> Int] /\ t[0] = 0 /\ \A k \in 1 .. n : t[k] = t[k - 1] + list[k].time
  BY TimeLeftSums
<1>3. p \in 0 .. n
  BY PassedAt
<1>4. /\ new \in Seq(Entry) /\ Len(new) = n + 1
      /\ new[p + 1] = [h |-> h, time |-> m - t[p], age |-> 0, ahead |-> 0]
      /\ \A k \in 1 .. n + 1 :
            /\ k <= p => new[k] = list[k]
            /\ k = p + 2 => new[k] = [list[k - 1] EXCEPT !.time = @ - (m - t[p])]
            /\ k > p + 2 => new[k] = list[k - 1]
  BY TimeoutPoints
<1> HIDE DEF n, m, t, new
<1>5. g[0] = 0
  BY <1>1, <1>2, <1>3
<1>6. ASSUME NEW k \in 1 .. n + 1 PROVE g[k] = g[k - 1] + new[k].time
  <2>1. k \in 0 .. n + 1 /\ k - 1 \in 0 .. n + 1
    BY <1>1
  <2>2. CASE k <= p
    <3>1. k \in 1 .. n /\ k - 1 <= p /\ new[k] = list[k]
      BY <1>1, <1>3, <1>4, <2>2
    <3> QED
      BY <1>2, <2>1, <2>2, <3>1
  <2>3. CASE k = p + 1
    <3>1. k - 1 = p /\ new[k].time = m - t[p] /\ ~(k <= p) /\ t[p] \in Int
      BY <1>1, <1>2, <1>3, <1>4, <2>3
    <3>2. g[k] = m /\ g[k - 1] = t[p]
      BY <1>1, <1>3, <2>1, <2>3, <3>1
    <3> HIDE DEF g
    <3> QED
      BY <1>1, <3>1, <3>2
  <2>4. CASE k = p + 2
    <3>1. k - 1 = p + 1 /\ k - 1 \in 1 .. n /\ ~(k <= p) /\ k # p + 1 /\ ~(k - 1 <= p) /\ (k - 1) - 1 = p
      BY <1>1, <1>3, <2>4
    <3>2. new[k] = [list[k - 1] EXCEPT !.time = list[k - 1].time - (m - t[p])]
      BY <1>4, <2>4
    <3>3. list[k - 1] \in Entry /\ list[k - 1].time \in Nat
      BY <1>1, <3>1
    <3>4. new[k].time = list[k - 1].time - (m - t[p])
      BY <3>2, <3>3 DEF Entry
    <3>5. t[k - 1] = t[p] + list[k - 1].time /\ t[p] \in Int
      BY <1>2, <1>3, <3>1
    <3>6. g[k] = t[k - 1] /\ g[k - 1] = m
      BY <2>1, <3>1
    <3> HIDE DEF g
    <3> QED
      BY <1>1, <3>3, <3>4, <3>5, <3>6
  <2>5. CASE k > p + 2
    <3>1. k - 1 \in 1 .. n /\ ~(k <= p) /\ k # p + 1 /\ ~(k - 1 <= p) /\ k - 1 # p + 1
      BY <1>1, <1>3, <2>5
    <3>2. new[k] = list[k - 1]
      BY <1>4, <2>5
    <3>3. g[k] = t[k - 1] /\ g[k - 1] = t[(k - 1) - 1]
      BY <2>1, <3>1
    <3> QED
      BY <1>2, <3>1, <3>2, <3>3
  <2> QED
    BY <1>1, <1>3, <2>2, <2>3, <2>4, <2>5
<1>7. \A k \in 0 .. n + 1 : TimeLeft(new)[k] = g[k]
  <2> HIDE DEF g
  <2>1. \A k \in 1 .. Len(new) : g[k] = g[k - 1] + new[k].time
    BY <1>4, <1>6
  <2>2. \A k \in 0 .. Len(new) : TimeLeft(new)[k] = g[k]
    BY <1>4, <1>5, <2>1, TimeLeftUnique
  <2> QED
    BY <1>4, <2>2
<1> QED
  BY <1>7 DEF n, m, t, new

LEMMA TimeoutTimers ==
    ASSUME NEW list \in Seq(Entry), NEW h \in Handler, NEW p, p = Passed(list, h)
    PROVE  Timers(Timeout(list, h)) =
             InsertAt(Timers(list), p + 1, [h |-> h, left |-> Msecs[h]])
<1> DEFINE n == Len(list)
           t == TimeLeft(list)
           T == Timers(list)
           m == Msecs[h]
           new == Timeout(list, h)
<1>1. PICK e : e = [h |-> h, left |-> Msecs[h]]
  OBVIOUS
<1>2. n \in Nat /\ \A k \in 1 .. n : list[k] \in Entry
  BY EntryFields
<1>3. p \in 0 .. n
  BY PassedAt
<1>4. /\ new \in Seq(Entry) /\ Len(new) = n + 1
      /\ new[p + 1] = [h |-> h, time |-> m - t[p], age |-> 0, ahead |-> 0]
      /\ \A k \in 1 .. n + 1 :
            /\ k <= p => new[k] = list[k]
            /\ k = p + 2 => new[k] = [list[k - 1] EXCEPT !.time = @ - (m - t[p])]
            /\ k > p + 2 => new[k] = list[k - 1]
  BY TimeoutPoints
<1> HIDE DEF m
<1>5. \A k \in 1 .. n + 1 :
         /\ k <= p => new[k] = list[k]
         /\ k = p + 2 => new[k] = [list[k - 1] EXCEPT !.time = @ - (m - t[p])]
         /\ k > p + 2 => new[k] = list[k - 1]
  BY <1>4
<1>6. \A k \in 0 .. n + 1 :
         TimeLeft(new)[k] = IF k <= p THEN t[k] ELSE IF k = p + 1 THEN Msecs[h] ELSE t[k - 1]
  BY TimeoutLeft
<1>7. T \in Seq(AbsTimer) /\ Len(T) = n /\ \A k \in 1 .. n : T[k] = [h |-> list[k].h, left |-> t[k]]
  BY TimersPoints
<1> HIDE DEF n, t, T, new
<1>8. /\ Timers(new) \in Seq(AbsTimer) /\ Len(Timers(new)) = n + 1
      /\ \A k \in 1 .. n + 1 : Timers(new)[k] = [h |-> new[k].h, left |-> TimeLeft(new)[k]]
  BY <1>4, TimersPoints
<1>9. e \in AbsTimer
  BY <1>1, WlTaskAssumption DEF AbsTimer
<1>10. PICK i \in 1 .. Len(T) + 1 : i = p + 1
  BY <1>2, <1>3, <1>7
<1>11. T \in Seq(AbsTimer)
  BY <1>7
<1>12. InsertAt(T, i, e) \in Seq(AbsTimer) /\ Len(InsertAt(T, i, e)) = Len(T) + 1
  BY <1>11, <1>9, InsertAtPoints
<1>13. \A k \in 1 .. Len(T) + 1 :
          InsertAt(T, i, e)[k] = IF k < i THEN T[k] ELSE IF k = i THEN e ELSE T[k - 1]
  BY <1>11, <1>9, InsertAtPoints
<1>14. ASSUME NEW k \in 1 .. n + 1 PROVE Timers(new)[k] = InsertAt(T, i, e)[k]
  <2>1. k \in 0 .. n + 1
    BY <1>2
  <2>2. CASE k <= p
    <3>1. k \in 1 .. n /\ k < i
      BY <1>2, <1>3, <1>10, <2>2
    <3>2. new[k] = list[k] /\ TimeLeft(new)[k] = t[k]
      BY <1>5, <1>6, <2>1, <2>2
    <3> QED
      BY <1>7, <1>8, <1>13, <3>1, <3>2
  <2>3. CASE k = p + 1
    <3>1. k = i /\ ~(k < i) /\ new[k].h = h /\ TimeLeft(new)[k] = Msecs[h]
      BY <1>3, <1>4, <1>6, <1>10, <2>1, <2>3
    <3> QED
      BY <1>1, <1>7, <1>8, <1>13, <3>1
  <2>4. CASE k >= p + 2
    <3>1. k - 1 \in 1 .. n /\ ~(k < i) /\ k # i /\ ~(k <= p) /\ k # p + 1
      BY <1>2, <1>3, <1>10, <2>4
    <3>2. TimeLeft(new)[k] = t[k - 1]
      BY <1>6, <2>1, <3>1
    <3>3. new[k].h = list[k - 1].h
      <4>1. CASE k = p + 2
        <5>1. new[k] = [list[k - 1] EXCEPT !.time = list[k - 1].time - (m - t[p])]
          BY <1>5, <4>1
        <5> QED
          BY <1>2, <3>1, <5>1 DEF Entry
      <4>2. CASE k # p + 2
        <5>1. k > p + 2
          BY <1>2, <1>3, <2>4, <4>2
        <5> QED
          BY <1>5, <5>1
      <4> QED
        BY <4>1, <4>2
    <3>4. Timers(new)[k] = T[k - 1]
      BY <1>7, <1>8, <3>1, <3>2, <3>3
    <3>5. InsertAt(T, i, e)[k] = T[k - 1]
      BY <1>7, <1>13, <3>1
    <3> QED
      BY <3>4, <3>5
  <2> QED
    BY <1>2, <1>3, <2>2, <2>3, <2>4
<1>15. Timers(new) = InsertAt(T, i, e)
  <2>1. PICK u \in Seq(AbsTimer), v \in Seq(AbsTimer) : u = Timers(new) /\ v = InsertAt(T, i, e)
    BY <1>8, <1>12
  <2>2. Len(u) = Len(v) /\ Len(u) = n + 1 /\ \A k \in 1 .. n + 1 : u[k] = v[k]
    BY <1>7, <1>8, <1>12, <1>14, <2>1
  <2>3. u = v
    BY <2>2, SeqEqual
  <2> QED
    BY <2>1, <2>3
<1> QED
  BY <1>1, <1>10, <1>15 DEF T, new

\* The first timer that is due later is the one before which the walk stops.
LEMMA LateAt ==
    ASSUME NEW list \in Seq(Entry), NEW h \in Handler, NEW p, p = Passed(list, h)
    PROVE  LET I == {i \in 1 .. Len(Timers(list)) : Timers(list)[i].left > Msecs[h]}
           IN (IF I # {} THEN Min(I) ELSE 0) = IF p = Len(list) THEN 0 ELSE p + 1
<1> DEFINE n == Len(list)
           t == TimeLeft(list)
           T == Timers(list)
<1>1. n \in Nat /\ Msecs[h] \in Nat
  BY WlTaskAssumption
<1>2. p \in 0 .. n /\ (p < n => t[p + 1] > Msecs[h]) /\ \A k \in 0 .. p : t[k] <= Msecs[h]
  BY PassedAt
<1>3. Len(T) = n /\ \A k \in 1 .. n : T[k] = [h |-> list[k].h, left |-> t[k]]
  BY TimersPoints
<1>4. t \in [0 .. n -> Int]
  BY TimeLeftSums
<1> HIDE DEF n, t, T
<1>5. Len(T) = n /\ \A k \in 1 .. n : T[k].left = t[k]
  BY <1>3
<1> DEFINE I == {i \in 1 .. Len(T) : T[i].left > Msecs[h]}
<1>6. \A k \in I : k \in 1 .. n /\ k > p
  <2>1. ASSUME NEW k \in I, k <= p PROVE FALSE
    <3>1. k \in 1 .. n /\ k \in 0 .. p /\ t[k] > Msecs[h] /\ k \in 0 .. n
      BY <1>1, <1>2, <1>5, <2>1
    <3> QED
      BY <1>1, <1>2, <1>4, <3>1
  <2> QED
    BY <1>1, <1>2, <1>5, <2>1
<1>7. CASE p = n
  <2>1. I = {}
    BY <1>1, <1>6, <1>7
  <2> QED
    BY <1>7, <2>1 DEF n, T
<1>8. CASE p # n
  <2>1. p + 1 \in I
    BY <1>1, <1>2, <1>5, <1>8
  <2>2. I \in SUBSET Nat
    BY <1>1, <1>5
  <2> HIDE DEF I
  <2>3. Min(I) \in I /\ Min(I) <= p + 1
    BY <2>1, <2>2, MinNat
  <2>4. Min(I) = p + 1
    BY <1>1, <1>2, <1>6, <2>3
  <2>5. (IF I # {} THEN Min(I) ELSE 0) = IF p = n THEN 0 ELSE p + 1
    BY <1>8, <2>1, <2>4
  <2> QED
    BY <2>5 DEF I, n, T
<1> QED
  BY <1>7, <1>8

\* The first timer of a handler, 0 if it has none.
FirstOf(list, h) == SelectInSeq(list, LAMBDA t : t.h = h)

LEMMA FirstOfAt ==
    ASSUME NEW list \in Seq(Entry), NEW h, NEW at, at = FirstOf(list, h)
    PROVE  /\ at \in 0 .. Len(list)
           /\ at = 0 => \A k \in 1 .. Len(list) : list[k].h # h
           /\ at # 0 => list[at].h = h
           /\ \A k \in 1 .. Len(list) : k < at => list[k].h # h
           /\ FirstOf(Timers(list), h) = at
<1> DEFINE n == Len(list)
           T == Timers(list)
           I == {i \in 1 .. n : list[i].h = h}
           J == {i \in 1 .. Len(T) : T[i].h = h}
           t == TimeLeft(list)
<1>1. at = IF I # {} THEN Min(I) ELSE 0
  BY DEF FirstOf, SelectInSeq
<1>2. FirstOf(T, h) = IF J # {} THEN Min(J) ELSE 0
  BY DEF FirstOf, SelectInSeq
<1>3. Len(T) = n /\ \A k \in 1 .. n : T[k] = [h |-> list[k].h, left |-> t[k]]
  BY TimersPoints
<1>4. n \in Nat
  OBVIOUS
<1> HIDE DEF n, T, t
<1>5. I = J
  BY <1>3
<1>6. CASE I = {}
  <2>1. at = 0 /\ \A k \in 1 .. n : list[k].h # h
    BY <1>1, <1>6
  <2>2. FirstOf(T, h) = 0
    BY <1>2, <1>5, <1>6
  <2> QED
    BY <1>4, <2>1, <2>2 DEF n, T
<1>7. CASE I # {}
  <2>1. I \in SUBSET Nat
    BY <1>4
  <2>2. Min(I) \in I /\ \A k \in I : Min(I) <= k
    <3> HIDE DEF I
    <3> QED
      BY <1>7, <2>1, MinNat
  <2>3. at = Min(I)
    BY <1>1, <1>7
  <2>4. at \in 1 .. n /\ list[at].h = h /\ \A k \in I : at <= k
    BY <2>2, <2>3
  <2>5. \A k \in 1 .. n : k < at => list[k].h # h
    BY <1>4, <2>4
  <2>6. FirstOf(T, h) = at
    BY <1>1, <1>2, <1>5
  <2> QED
    BY <1>4, <2>4, <2>5, <2>6 DEF n, T
<1> QED
  BY <1>6, <1>7

\* What tls_untimeout_p makes of the list.
LEMMA UntimeoutPoints ==
    ASSUME NEW list \in Seq(Entry), NEW h, NEW at, at = FirstOf(list, h), at # 0
    PROVE  /\ Untimeout(list, h) \in Seq(Entry)
           /\ Len(Untimeout(list, h)) = Len(list) - 1
           /\ \A k \in 1 .. Len(list) - 1 :
                 /\ k < at => Untimeout(list, h)[k] = list[k]
                 /\ k = at => Untimeout(list, h)[k] =
                                [list[k + 1] EXCEPT !.time = @ + list[at].time]
                 /\ k > at => Untimeout(list, h)[k] = list[k + 1]
<1> DEFINE n == Len(list)
           later == [i \in 1 .. n |->
                       IF i = at + 1 THEN [list[i] EXCEPT !.time = @ + list[at].time] ELSE list[i]]
<1>1. n \in Nat /\ DOMAIN list = 1 .. n
      /\ \A k \in 1 .. n : list[k] \in Entry /\ list[k].time \in Nat
  BY EntryFields
<1>2. at \in 1 .. n
  BY FirstOfAt
<1>3. Untimeout(list, h) = RemoveAt(later, at)
  BY <1>1 DEF Untimeout, FirstOf
<1> HIDE DEF n
<1>4. ASSUME NEW i \in 1 .. n PROVE later[i] \in Entry
  <2>1. CASE i = at + 1
    <3>1. later[i] = [list[i] EXCEPT !.time = list[i].time + list[at].time]
      BY <2>1
    <3>2. list[i].time + list[at].time \in Nat
      BY <1>1, <1>2
    <3> HIDE DEF later
    <3> QED
      BY <1>1, <3>1, <3>2 DEF Entry
  <2>2. CASE i # at + 1
    BY <1>1, <2>2
  <2> QED
    BY <2>1, <2>2
<1>5. later \in Seq(Entry) /\ Len(later) = n
  BY <1>1, <1>4
<1>6. \A i \in 1 .. n :
         later[i] = IF i = at + 1 THEN [list[i] EXCEPT !.time = @ + list[at].time] ELSE list[i]
  OBVIOUS
<1> HIDE DEF later
<1>7. PICK s \in Seq(Entry) : s = later /\ Len(s) = n
  BY <1>5
<1>8. at \in 1 .. Len(s)
  BY <1>2, <1>7
<1>9. RemoveAt(s, at) \in Seq(Entry) /\ Len(RemoveAt(s, at)) = Len(s) - 1
  BY <1>8, RemoveAtPoints
<1>10. \A k \in 1 .. Len(s) - 1 : RemoveAt(s, at)[k] = IF k < at THEN s[k] ELSE s[k + 1]
  BY <1>8, RemoveAtPoints
<1>11. ASSUME NEW k \in 1 .. n - 1
       PROVE  /\ k < at => Untimeout(list, h)[k] = list[k]
              /\ k = at => Untimeout(list, h)[k] = [list[k + 1] EXCEPT !.time = @ + list[at].time]
              /\ k > at => Untimeout(list, h)[k] = list[k + 1]
  <2>1. k \in 1 .. n /\ k + 1 \in 1 .. n
    BY <1>1
  <2>2. Untimeout(list, h)[k] = IF k < at THEN later[k] ELSE later[k + 1]
    BY <1>3, <1>7, <1>10
  <2>3. CASE k < at
    <3>1. k # at + 1 /\ ~(k = at) /\ ~(k > at)
      BY <1>2, <2>3
    <3> QED
      BY <1>6, <2>1, <2>2, <2>3, <3>1
  <2>4. CASE k = at
    <3>1. k + 1 = at + 1 /\ ~(k < at) /\ ~(k > at)
      BY <1>2, <2>4
    <3> QED
      BY <1>6, <2>1, <2>2, <2>4, <3>1
  <2>5. CASE k > at
    <3>1. k + 1 # at + 1 /\ ~(k < at) /\ ~(k = at)
      BY <1>2, <2>5
    <3> QED
      BY <1>6, <2>1, <2>2, <2>5, <3>1
  <2> QED
    BY <1>2, <2>3, <2>4, <2>5
<1> QED
  BY <1>3, <1>7, <1>9, <1>11 DEF n

\* The time left of each timer after one is cancelled.
LEMMA UntimeoutLeft ==
    ASSUME NEW list \in Seq(Entry), NEW h, NEW at, at = FirstOf(list, h), at # 0
    PROVE  \A k \in 0 .. Len(list) - 1 :
              TimeLeft(Untimeout(list, h))[k] =
                IF k < at THEN TimeLeft(list)[k] ELSE TimeLeft(list)[k + 1]
<1> DEFINE n == Len(list)
           t == TimeLeft(list)
           g == [k \in 0 .. n - 1 |-> IF k < at THEN t[k] ELSE t[k + 1]]
           new == Untimeout(list, h)
<1>1. n \in Nat /\ \A k \in 1 .. n : list[k] \in Entry /\ list[k].time \in Nat
  BY EntryFields
<1>2. t \in [0 .. n -> Int] /\ t[0] = 0 /\ \A k \in 1 .. n : t[k] = t[k - 1] + list[k].time
  BY TimeLeftSums
<1>3. at \in 1 .. n
  BY FirstOfAt
<1>4. /\ new \in Seq(Entry) /\ Len(new) = n - 1
      /\ \A k \in 1 .. n - 1 :
            /\ k < at => new[k] = list[k]
            /\ k = at => new[k] = [list[k + 1] EXCEPT !.time = @ + list[at].time]
            /\ k > at => new[k] = list[k + 1]
  BY UntimeoutPoints
<1> HIDE DEF n, t, new
<1>5. g[0] = 0
  BY <1>1, <1>2, <1>3
<1>6. ASSUME NEW k \in 1 .. n - 1 PROVE g[k] = g[k - 1] + new[k].time
  <2>1. k \in 0 .. n - 1 /\ k - 1 \in 0 .. n - 1 /\ k \in 1 .. n /\ k + 1 \in 1 .. n
        /\ (k + 1) - 1 = k /\ (k - 1) + 1 = k
    BY <1>1
  <2>2. CASE k < at
    <3>1. k - 1 < at /\ new[k] = list[k]
      BY <1>3, <1>4, <2>2
    <3>2. g[k] = t[k] /\ g[k - 1] = t[k - 1]
      BY <2>1, <2>2, <3>1
    <3> QED
      BY <1>2, <2>1, <3>1, <3>2
  <2>3. CASE k = at
    <3>1. k - 1 < at /\ ~(k < at)
      BY <1>3, <2>3
    <3>2. g[k] = t[k + 1] /\ g[k - 1] = t[k - 1]
      BY <2>1, <3>1
    <3>3. new[k] = [list[k + 1] EXCEPT !.time = list[k + 1].time + list[at].time]
      BY <1>4, <2>3
    <3>4. list[k + 1] \in Entry /\ list[k + 1].time \in Nat /\ list[at].time \in Nat
      BY <1>1, <1>3, <2>1
    <3>5. new[k].time = list[k + 1].time + list[at].time
      BY <3>3, <3>4 DEF Entry
    <3>6. t[k] = t[k - 1] + list[at].time /\ t[k - 1] \in Int
      <4>1. t[k] = t[k - 1] + list[k].time /\ k - 1 \in 0 .. n
        BY <1>1, <1>2, <2>1
      <4> QED
        BY <1>2, <2>3, <4>1
    <3>7. t[k + 1] = t[k] + list[k + 1].time
      BY <1>2, <2>1
    <3> HIDE DEF g
    <3> QED
      BY <3>2, <3>4, <3>5, <3>6, <3>7
  <2>4. CASE k > at
    <3>1. ~(k - 1 < at) /\ ~(k < at) /\ new[k] = list[k + 1]
      BY <1>3, <1>4, <2>4
    <3>2. g[k] = t[k + 1] /\ g[k - 1] = t[k]
      BY <2>1, <3>1
    <3> QED
      BY <1>2, <2>1, <3>1, <3>2
  <2> QED
    BY <1>3, <2>2, <2>3, <2>4
<1>7. \A k \in 0 .. n - 1 : TimeLeft(new)[k] = g[k]
  <2> HIDE DEF g
  <2>1. \A k \in 1 .. Len(new) : g[k] = g[k - 1] + new[k].time
    BY <1>4, <1>6
  <2>2. \A k \in 0 .. Len(new) : TimeLeft(new)[k] = g[k]
    BY <1>4, <1>5, <2>1, TimeLeftUnique
  <2> QED
    BY <1>4, <2>2
<1> QED
  BY <1>7 DEF n, t, new

LEMMA UntimeoutTimers ==
    ASSUME NEW list \in Seq(Entry), NEW h, NEW at, at = FirstOf(list, h), at # 0
    PROVE  Timers(Untimeout(list, h)) = RemoveAt(Timers(list), at)
<1> DEFINE n == Len(list)
           t == TimeLeft(list)
           T == Timers(list)
           new == Untimeout(list, h)
<1>1. n \in Nat /\ \A k \in 1 .. n : list[k] \in Entry
  BY EntryFields
<1>2. at \in 1 .. n
  BY FirstOfAt
<1>3. /\ new \in Seq(Entry) /\ Len(new) = n - 1
      /\ \A k \in 1 .. n - 1 :
            /\ k < at => new[k] = list[k]
            /\ k = at => new[k] = [list[k + 1] EXCEPT !.time = @ + list[at].time]
            /\ k > at => new[k] = list[k + 1]
  BY UntimeoutPoints
<1>4. \A k \in 0 .. n - 1 : TimeLeft(new)[k] = IF k < at THEN t[k] ELSE t[k + 1]
  BY UntimeoutLeft
<1>5. T \in Seq(AbsTimer) /\ Len(T) = n /\ \A k \in 1 .. n : T[k] = [h |-> list[k].h, left |-> t[k]]
  BY TimersPoints
<1> HIDE DEF n, t, T, new
<1>6. /\ Timers(new) \in Seq(AbsTimer) /\ Len(Timers(new)) = n - 1
      /\ \A k \in 1 .. n - 1 : Timers(new)[k] = [h |-> new[k].h, left |-> TimeLeft(new)[k]]
  BY <1>3, TimersPoints
<1>7. T \in Seq(AbsTimer) /\ at \in 1 .. Len(T)
  BY <1>2, <1>5
<1>8. RemoveAt(T, at) \in Seq(AbsTimer) /\ Len(RemoveAt(T, at)) = Len(T) - 1
  BY <1>7, RemoveAtPoints
<1>9. \A k \in 1 .. Len(T) - 1 : RemoveAt(T, at)[k] = IF k < at THEN T[k] ELSE T[k + 1]
  BY <1>7, RemoveAtPoints
<1>10. ASSUME NEW k \in 1 .. n - 1 PROVE Timers(new)[k] = RemoveAt(T, at)[k]
  <2>1. k \in 0 .. n - 1 /\ k \in 1 .. n /\ k + 1 \in 1 .. n
    BY <1>1
  <2>2. CASE k < at
    <3>1. new[k] = list[k] /\ TimeLeft(new)[k] = t[k]
      BY <1>3, <1>4, <2>1, <2>2
    <3> QED
      BY <1>5, <1>6, <1>9, <2>1, <2>2, <3>1
  <2>3. CASE k = at
    <3>1. new[k] = [list[k + 1] EXCEPT !.time = list[k + 1].time + list[at].time]
      BY <1>3, <2>3
    <3>2. new[k].h = list[k + 1].h
      BY <1>1, <2>1, <3>1 DEF Entry
    <3>3. TimeLeft(new)[k] = t[k + 1] /\ ~(k < at)
      BY <1>2, <1>4, <2>1, <2>3
    <3> QED
      BY <1>5, <1>6, <1>9, <2>1, <3>2, <3>3
  <2>4. CASE k > at
    <3>1. new[k] = list[k + 1] /\ ~(k < at)
      BY <1>2, <1>3, <2>4
    <3>2. TimeLeft(new)[k] = t[k + 1]
      BY <1>4, <2>1, <3>1
    <3> QED
      BY <1>5, <1>6, <1>9, <2>1, <3>1, <3>2
  <2> QED
    BY <1>2, <2>2, <2>3, <2>4
<1>11. PICK u \in Seq(AbsTimer), v \in Seq(AbsTimer) : u = Timers(new) /\ v = RemoveAt(T, at)
  BY <1>6, <1>8
<1>12. Len(u) = Len(v) /\ Len(u) = n - 1 /\ \A k \in 1 .. n - 1 : u[k] = v[k]
  BY <1>5, <1>6, <1>8, <1>10, <1>11
<1>13. u = v
  BY <1>12, SeqEqual
<1> QED
  BY <1>11, <1>13 DEF T, new

LEMMA CapAgeType ==
    ASSUME NEW n \in Ages
    PROVE  CapAge(n + 1) \in Ages
  BY WlTaskAssumption DEF CapAge, Ages

LEMMA AheadType ==
    ASSUME NEW n \in Ages
    PROVE  Ahead(n) \in Ages
  BY CapAgeType DEF Ahead

\* What Receive, Fire and Tick make of the list.
Less(list, d) == [list EXCEPT ![1].time = list[1].time - d]
Fired(list) == [i \in 1 .. Len(list) - 1 |-> [list[i + 1] EXCEPT !.ahead = Ahead(@)]]
Aged(list) == [i \in DOMAIN list |-> [list[i] EXCEPT !.age = CapAge(@ + 1)]]

\* Time taken off the first entry is taken off every timer.
LEMMA WaitedPoints ==
    ASSUME NEW list \in Seq(Entry), list # <<>>, NEW d \in 0 .. list[1].time,
           NEW new, new = Less(list, d)
    PROVE  /\ new \in Seq(Entry) /\ Len(new) = Len(list)
           /\ \A k \in 1 .. Len(list) : /\ new[k].h = list[k].h
                                        /\ new[k].age = list[k].age
                                        /\ new[k].ahead = list[k].ahead
                                        /\ new[k].time = IF k = 1 THEN list[k].time - d ELSE list[k].time
           /\ \A k \in 1 .. Len(list) : TimeLeft(new)[k] = TimeLeft(list)[k] - d
<1> DEFINE n == Len(list)
           t == TimeLeft(list)
           g == [k \in 0 .. n |-> IF k = 0 THEN 0 ELSE t[k] - d]
<1>1. n \in Nat /\ 1 \in 1 .. n /\ DOMAIN list = 1 .. n
      /\ \A k \in 1 .. n : list[k] \in Entry /\ list[k].time \in Nat
  BY EntryFields
<1>2. t \in [0 .. n -> Int] /\ t[0] = 0 /\ \A k \in 1 .. n : t[k] = t[k - 1] + list[k].time
  BY TimeLeftSums
<1>3. d \in Nat /\ d <= list[1].time
  BY <1>1
<1>4. Len(new) = n /\ \A k \in 1 .. n : new[k] = IF k = 1 THEN [list[1] EXCEPT !.time = list[1].time - d]
                                                ELSE list[k]
  BY <1>1 DEF Less
<1>5. [list[1] EXCEPT !.time = list[1].time - d] \in Entry
  <2>1. list[1] \in Entry /\ list[1].time - d \in Nat
    BY <1>1, <1>3
  <2> QED
    BY <2>1 DEF Entry
<1>6. new \in Seq(Entry)
  BY <1>1, <1>5 DEF Less
<1> HIDE DEF n, t
<1>7. ASSUME NEW k \in 1 .. n
      PROVE  /\ new[k].h = list[k].h /\ new[k].age = list[k].age /\ new[k].ahead = list[k].ahead
             /\ new[k].time = IF k = 1 THEN list[k].time - d ELSE list[k].time
  <2>1. CASE k = 1
    <3>1. new[k] = [list[k] EXCEPT !.time = list[k].time - d] /\ list[k] \in Entry
      BY <1>1, <1>4, <2>1
    <3> QED
      BY <2>1, <3>1 DEF Entry
  <2>2. CASE k # 1
    BY <1>4, <2>2
  <2> QED
    BY <2>1, <2>2
<1>8. g[0] = 0
  BY <1>1
<1>9. ASSUME NEW k \in 1 .. n PROVE g[k] = g[k - 1] + new[k].time
  <2>1. k \in 0 .. n /\ k - 1 \in 0 .. n /\ k # 0
    BY <1>1
  <2>2. t[k] = t[k - 1] + list[k].time /\ t[k - 1] \in Int /\ list[k].time \in Nat
    BY <1>1, <1>2, <2>1
  <2>3. g[k] = t[k] - d
    BY <2>1
  <2>4. CASE k = 1
    <3>1. g[k - 1] = 0 /\ t[k - 1] = 0 /\ new[k].time = list[k].time - d
      BY <1>2, <1>7, <1>8, <2>4
    <3> HIDE DEF g
    <3> QED
      BY <1>3, <2>2, <2>3, <3>1
  <2>5. CASE k # 1
    <3>1. g[k - 1] = t[k - 1] - d /\ new[k].time = list[k].time
      BY <1>7, <2>1, <2>5
    <3> HIDE DEF g
    <3> QED
      BY <1>3, <2>2, <2>3, <3>1
  <2> QED
    BY <2>4, <2>5
<1>10. \A k \in 0 .. n : TimeLeft(new)[k] = g[k]
  <2> HIDE DEF g
  <2>1. \A k \in 1 .. Len(new) : g[k] = g[k - 1] + new[k].time
    BY <1>4, <1>9
  <2>2. \A k \in 0 .. Len(new) : TimeLeft(new)[k] = g[k]
    BY <1>6, <1>8, <2>1, TimeLeftUnique
  <2> QED
    BY <1>4, <2>2
<1>11. \A k \in 1 .. n : TimeLeft(new)[k] = t[k] - d
  <2>1. \A k \in 1 .. n : k \in 0 .. n /\ k # 0
    BY <1>1
  <2> QED
    BY <1>10, <2>1
<1> QED
  BY <1>4, <1>6, <1>7, <1>11 DEF n, t

\* When the first timer fires the others have so much less to wait.
LEMMA FirePoints ==
    ASSUME NEW list \in Seq(Entry), list # <<>>,
           NEW new, new = Fired(list)
    PROVE  /\ new \in Seq(Entry) /\ Len(new) = Len(list) - 1
           /\ \A k \in 1 .. Len(list) - 1 : /\ new[k].h = list[k + 1].h
                                            /\ new[k].time = list[k + 1].time
                                            /\ new[k].age = list[k + 1].age
                                            /\ new[k].ahead = Ahead(list[k + 1].ahead)
           /\ \A k \in 0 .. Len(list) - 1 :
                 TimeLeft(new)[k] = TimeLeft(list)[k + 1] - TimeLeft(list)[1]
<1> DEFINE n == Len(list)
           t == TimeLeft(list)
           g == [k \in 0 .. n - 1 |-> t[k + 1] - t[1]]
<1>1. n \in Nat /\ 1 \in 1 .. n /\ DOMAIN list = 1 .. n
      /\ \A k \in 1 .. n : list[k] \in Entry /\ list[k].time \in Nat /\ list[k].ahead \in Ages
  BY EntryFields
<1>2. t \in [0 .. n -> Int] /\ t[0] = 0 /\ \A k \in 1 .. n : t[k] = t[k - 1] + list[k].time
  BY TimeLeftSums
<1> HIDE DEF n, t
<1>3. ASSUME NEW k \in 1 .. n - 1
      PROVE  /\ k + 1 \in 1 .. n
             /\ [list[k + 1] EXCEPT !.ahead = Ahead(@)] \in Entry
  <2>1. k + 1 \in 1 .. n
    BY <1>1
  <2>2. list[k + 1] \in Entry /\ Ahead(list[k + 1].ahead) \in Ages
    BY <1>1, <2>1, AheadType
  <2> QED
    BY <2>1, <2>2 DEF Entry
<1>4. n - 1 \in Nat /\ new = [i \in 1 .. n - 1 |-> [list[i + 1] EXCEPT !.ahead = Ahead(@)]]
  BY <1>1 DEF n, Fired
<1>5. new \in Seq(Entry) /\ Len(new) = n - 1
  BY <1>3, <1>4
<1>6. ASSUME NEW k \in 1 .. n - 1
      PROVE  /\ new[k].h = list[k + 1].h /\ new[k].time = list[k + 1].time
             /\ new[k].age = list[k + 1].age
             /\ new[k].ahead = Ahead(list[k + 1].ahead)
  <2>1. new[k] = [list[k + 1] EXCEPT !.ahead = Ahead(list[k + 1].ahead)] /\ list[k + 1] \in Entry
    BY <1>1, <1>3, <1>4
  <2> QED
    BY <2>1 DEF Entry
<1>7. g[0] = 0
  BY <1>1, <1>2
<1>8. ASSUME NEW k \in 1 .. n - 1 PROVE g[k] = g[k - 1] + new[k].time
  <2>1. k + 1 \in 1 .. n /\ (k + 1) - 1 = k /\ (k - 1) + 1 = k /\ k \in 0 .. n - 1 /\ k - 1 \in 0 .. n - 1
        /\ k \in 0 .. n /\ 1 \in 0 .. n
    BY <1>1
  <2>2. g[k] = t[k + 1] - t[1] /\ g[k - 1] = t[k] - t[1]
    BY <2>1
  <2>3. t[k + 1] = t[k] + list[k + 1].time /\ t[k] \in Int /\ t[1] \in Int /\ list[k + 1].time \in Nat
    BY <1>1, <1>2, <2>1
  <2>4. new[k].time = list[k + 1].time
    BY <1>6
  <2> HIDE DEF g
  <2> QED
    BY <2>2, <2>3, <2>4
<1>9. \A k \in 0 .. n - 1 : TimeLeft(new)[k] = g[k]
  <2> HIDE DEF g
  <2>1. \A k \in 1 .. Len(new) : g[k] = g[k - 1] + new[k].time
    BY <1>5, <1>8
  <2>2. \A k \in 0 .. Len(new) : TimeLeft(new)[k] = g[k]
    BY <1>5, <1>7, <2>1, TimeLeftUnique
  <2> QED
    BY <1>5, <2>2
<1> QED
  BY <1>5, <1>6, <1>9 DEF n, t

\* A tick makes all timers older and changes no time.
LEMMA TickPoints ==
    ASSUME NEW list \in Seq(Entry),
           NEW new, new = Aged(list)
    PROVE  /\ new \in Seq(Entry) /\ Len(new) = Len(list)
           /\ \A k \in 1 .. Len(list) : /\ new[k].h = list[k].h
                                        /\ new[k].time = list[k].time
                                        /\ new[k].age = CapAge(list[k].age + 1)
                                        /\ new[k].ahead = list[k].ahead
           /\ \A k \in 0 .. Len(list) : TimeLeft(new)[k] = TimeLeft(list)[k]
<1> DEFINE n == Len(list)
           t == TimeLeft(list)
<1>1. n \in Nat /\ DOMAIN list = 1 .. n
      /\ \A k \in 1 .. n : list[k] \in Entry /\ list[k].time \in Nat /\ list[k].age \in Ages
  BY EntryFields
<1>2. t \in [0 .. n -> Int] /\ t[0] = 0 /\ \A k \in 1 .. n : t[k] = t[k - 1] + list[k].time
  BY TimeLeftSums
<1> HIDE DEF n, t
<1>3. ASSUME NEW k \in 1 .. n
      PROVE  [list[k] EXCEPT !.age = CapAge(@ + 1)] \in Entry
  <2>1. list[k] \in Entry /\ CapAge(list[k].age + 1) \in Ages
    BY <1>1, CapAgeType
  <2> QED
    BY <2>1 DEF Entry
<1>4. new = [i \in 1 .. n |-> [list[i] EXCEPT !.age = CapAge(@ + 1)]]
  BY <1>1 DEF n, Aged
<1>5. new \in Seq(Entry) /\ Len(new) = n
  BY <1>1, <1>3, <1>4
<1>6. ASSUME NEW k \in 1 .. n
      PROVE  /\ new[k].h = list[k].h /\ new[k].time = list[k].time
             /\ new[k].age = CapAge(list[k].age + 1) /\ new[k].ahead = list[k].ahead
  <2>1. new[k] = [list[k] EXCEPT !.age = CapAge(list[k].age + 1)] /\ list[k] \in Entry
    BY <1>1, <1>4
  <2> QED
    BY <2>1 DEF Entry
<1>7. \A k \in 0 .. n : TimeLeft(new)[k] = t[k]
  <2>1. \A k \in 1 .. Len(new) : t[k] = t[k - 1] + new[k].time
    BY <1>2, <1>5, <1>6
  <2>2. \A k \in 0 .. Len(new) : TimeLeft(new)[k] = t[k]
    BY <1>2, <1>5, <2>1, TimeLeftUnique
  <2> QED
    BY <1>5, <2>2
<1> QED
  BY <1>5, <1>6, <1>7 DEF n, t

-----------------------------------------------------------------------------
(* The task. *)

Waits == 0 .. MaxWait
Place == {"again", "wait", "run", "post", "send", "sent", "fc"}

TaskInv ==
    /\ tmo \in Seq(Entry)
    /\ mbox \in Seq(Message) /\ Len(mbox) <= MboxSize
    /\ job \in Message \cup Timer \cup {Nothing}
    /\ waited \in Waits /\ wrapped \in BOOLEAN /\ wraps \in 0 .. MaxWraps
    /\ wrapped => waited >= 1
    /\ pc \in Place
    /\ todo \in Seq(Message)
    /\ after \in {"again", "send", "fc"}

LEMMA MessageTypes ==
    /\ \A h \in Handler : Add(h) \in Message /\ Del(h) \in Message
    /\ \A h \in Handler : <<Add(h)>> \in Seq(Message) /\ <<Del(h)>> \in Seq(Message)
    /\ \A h \in Handler : Restart(h) \in Seq(Message)
    /\ <<>> \in Seq(Message)
    /\ [type |-> "static"] \in Message /\ [type |-> "callback"] \in Message
<1>1. \A h \in Handler : Add(h) \in Message /\ Del(h) \in Message
  BY DEF Add, Del, Message
<1>2. [type |-> "static"] \in Message /\ [type |-> "callback"] \in Message
  BY DEF Message
<1> QED
  BY <1>1, <1>2 DEF Restart

LEMMA PostedType ==
    ASSUME TaskInv, NEW m \in Message, Posted(m)
    PROVE  mbox' \in Seq(Message) /\ Len(mbox') <= MboxSize /\ Len(mbox') = Len(mbox) + 1
  BY WlTaskAssumption DEF TaskInv, Posted

LEMMA DivNat ==
    ASSUME NEW a \in Nat, NEW b \in Nat \ {0}
    PROVE  a \div b \in Nat /\ b * (a \div b) <= a
<1> DEFINE q == a \div b
<1>1. q \in Int /\ a % b \in 0 .. b - 1 /\ a = b * q + (a % b)
  OBVIOUS
<1>2. b * q \in Int /\ b * q <= a /\ b * q > -b
  BY <1>1
<1> HIDE DEF q
<1>3. q < 0 => b * q <= -b
  <2>1. q < 0 => b * (-1 - q) >= 0
    BY <1>1
  <2>2. b * (-1 - q) = -b - b * q
    BY <1>1
  <2> QED
    BY <1>1, <1>2, <2>1, <2>2
<1> QED
  BY <1>1, <1>2, <1>3 DEF q

LEMMA ElapsedType ==
    ASSUME TaskInv
    PROVE  Elapsed \in Nat /\ Hz * Elapsed <= waited * 1000
<1>1. Hz \in Nat \ {0}
  BY WlTaskAssumption
<1>2. waited \in Nat /\ (wrapped => waited >= 1)
  BY WlTaskAssumption DEF TaskInv, Waits
<1>3. PICK x \in Nat : x = (IF wrapped THEN waited - 1 ELSE waited) /\ x <= waited
  BY <1>2
<1>4. (x * 1000) \div Hz \in Nat /\ Hz * ((x * 1000) \div Hz) <= x * 1000
  BY <1>1, DivNat
<1>5. Elapsed = (x * 1000) \div Hz
  BY <1>3 DEF Elapsed
<1>6. Hz * Elapsed \in Nat
  BY <1>1, <1>4, <1>5
<1> QED
  BY <1>2, <1>3, <1>4, <1>5, <1>6

\* What Receive takes off the list.
LEMMA WaitedList ==
    ASSUME TaskInv, tmo # <<>>
    PROVE  \E d \in 0 .. tmo[1].time : d <= Elapsed /\ Waited(tmo) = Less(tmo, d)
<1>1. tmo[1].time \in Nat
  BY EntryFields DEF TaskInv
<1>2. Elapsed \in Nat
  BY ElapsedType
<1>3. PICK e \in Nat : e = Elapsed
  BY <1>2
<1>4. Waited(tmo) = [tmo EXCEPT ![1].time = IF e < tmo[1].time THEN tmo[1].time - e ELSE 0]
  BY <1>3 DEF Waited
<1>5. CASE e < tmo[1].time
  <2>1. e \in 0 .. tmo[1].time
    BY <1>1, <1>5
  <2>2. Waited(tmo) = Less(tmo, e)
    BY <1>4, <1>5 DEF Less
  <2>3. e <= Elapsed
    BY <1>3
  <2> QED
    BY <2>1, <2>2, <2>3
<1>6. CASE ~(e < tmo[1].time)
  <2>1. tmo[1].time \in 0 .. tmo[1].time /\ tmo[1].time <= e /\ 0 = tmo[1].time - tmo[1].time
    BY <1>1, <1>6
  <2>2. Waited(tmo) = [tmo EXCEPT ![1].time = 0]
    BY <1>4, <1>6
  <2>3. PICK d \in 0 .. tmo[1].time : d <= e /\ tmo[1].time - d = 0
    BY <2>1
  <2>4. Waited(tmo) = Less(tmo, d)
    BY <2>2, <2>3 DEF Less
  <2> QED
    BY <1>3, <2>3, <2>4
<1> QED
  BY <1>5, <1>6

LEMMA JobHandler ==
    ASSUME TaskInv
    PROVE  /\ job.type \in {"timeout", "untimeout", "timer"} => job.h \in Handler
           /\ job.type = "timer" => job \in Timer
           /\ Nothing \in Message \cup Timer \cup {Nothing}
  BY DEF TaskInv, Message, Timer, Nothing

\* Everything but the list of timers.
TaskRest ==
    /\ mbox \in Seq(Message) /\ Len(mbox) <= MboxSize
    /\ job \in Message \cup Timer \cup {Nothing}
    /\ waited \in Waits /\ wrapped \in BOOLEAN /\ wraps \in 0 .. MaxWraps
    /\ wrapped => waited >= 1
    /\ pc \in Place
    /\ todo \in Seq(Message)
    /\ after \in {"again", "send", "fc"}

LEMMA TaskInvNext ==
    ASSUME TaskInv, [Next]_vars
    PROVE  TaskInv'
<1> USE DEF portVars, sendVars
<1>1. WlTaskAssumption /\ TransModeAssumption
  BY WlTaskAssumption, TransModeAssumption
<1>2. 0 \in Waits /\ Uart \in Handler
  BY <1>1 DEF Waits, WlTaskAssumption, TransModeAssumption
<1>3. TaskInv <=> tmo \in Seq(Entry) /\ TaskRest
  BY DEF TaskInv, TaskRest
<1>4. TaskInv' <=> tmo' \in Seq(Entry) /\ TaskRest'
  BY DEF TaskInv, TaskRest
<1>5. ASSUME tmo' = tmo, TaskRest' PROVE TaskInv'
  BY <1>3, <1>4, <1>5
<1>then. ASSUME NEW r \in Seq(Message), NEW a \in {"again", "send", "fc"}, Then(r, a),
                UNCHANGED <<mbox, waited, wrapped, wraps>>
         PROVE  TaskRest'
  BY <1>3, <1>then, JobHandler DEF Then, TaskRest, Place
<1>6. CASE UNCHANGED vars
  BY <1>6, <1>3, <1>5 DEF vars, taskVars, TaskRest
<1>7. ASSUME Fetch, UNCHANGED <<portVars, sendVars, lost>> PROVE TaskInv'
  BY <1>2, <1>7, <1>3, <1>5 DEF Fetch, TaskRest, Place
<1>8. ASSUME Receive, UNCHANGED <<portVars, sendVars, lost>> PROVE TaskInv'
  <2>1. mbox # <<>> /\ mbox \in Seq(Message) /\ Len(mbox) <= MboxSize
    BY <1>8, <1>3 DEF Receive, TaskRest
  <2>2. /\ Head(mbox) \in Message /\ Tail(mbox) \in Seq(Message)
        /\ Len(Tail(mbox)) <= MboxSize
    BY <1>1, <2>1 DEF WlTaskAssumption
  <2>3. TaskRest'
    BY <1>2, <1>8, <1>3, <2>2 DEF Receive, TaskRest, Place
  <2>4. tmo' \in Seq(Entry)
    <3>1. CASE tmo = <<>>
      BY <1>8, <1>3, <3>1 DEF Receive, Waited
    <3>2. CASE tmo # <<>>
      <4>1. PICK d \in 0 .. tmo[1].time : Waited(tmo) = Less(tmo, d)
        BY <3>2, WaitedList
      <4> QED
        BY <1>8, <1>3, <3>2, <4>1, WaitedPoints DEF Receive
    <3> QED
      BY <3>1, <3>2
  <2> QED
    BY <1>4, <2>3, <2>4
<1>9. ASSUME Fire, UNCHANGED <<portVars, sendVars, lost>> PROVE TaskInv'
  <2>1. job' \in Timer
    <3>1. Head(tmo) = tmo[1] /\ tmo[1].h \in Handler
      BY <1>9, <1>3, EntryFields DEF Fire
    <3> QED
      BY <1>9, <3>1 DEF Fire, Timer
  <2>2. TaskRest'
    BY <1>2, <1>9, <1>3, <2>1 DEF Fire, TaskRest, Place
  <2>3. tmo' \in Seq(Entry)
    BY <1>9, <1>3, FirePoints DEF Fire, Fired
  <2> QED
    BY <1>4, <2>2, <2>3
<1>10. ASSUME RunTimeout, UNCHANGED <<portVars, sendVars, lost>> PROVE TaskInv'
  <2>1. job.h \in Handler
    BY <1>10, JobHandler DEF RunTimeout, Runs
  <2>2. TaskRest'
    BY <1>10, <1>3, JobHandler DEF RunTimeout, TaskRest, Place
  <2>3. tmo' \in Seq(Entry)
    BY <1>10, <1>3, <2>1, TimeoutPoints DEF RunTimeout
  <2> QED
    BY <1>4, <2>2, <2>3
<1>11. ASSUME RunUntimeout, UNCHANGED <<portVars, sendVars, lost>> PROVE TaskInv'
  <2>1. TaskRest'
    BY <1>11, <1>3, JobHandler DEF RunUntimeout, TaskRest, Place
  <2>2. tmo' \in Seq(Entry)
    <3>1. CASE FirstOf(tmo, job.h) = 0
      BY <1>11, <1>3, <3>1 DEF RunUntimeout, Untimeout, FirstOf
    <3>2. CASE FirstOf(tmo, job.h) # 0
      BY <1>11, <1>3, <3>2, UntimeoutPoints DEF RunUntimeout
    <3> QED
      BY <3>1, <3>2
  <2> QED
    BY <1>4, <2>1, <2>2
<1>12. ASSUME Tick, UNCHANGED <<portVars, sendVars, lost>> PROVE TaskInv'
  <2>1. tmo' \in Seq(Entry)
    BY <1>12, <1>3, TickPoints DEF Tick, Aged
  <2>2. TaskRest'
    <3>1. CASE pc = "wait" /\ tmo # <<>>
      <4>1. MaxWait \in Nat /\ MaxWraps \in Nat
        BY <1>1 DEF WlTaskAssumption
      <4>2. waited' \in Waits /\ waited' >= 1
        BY <1>12, <1>3, <3>1, <4>1 DEF Tick, TaskRest, Waits
      <4>3. wraps' \in 0 .. MaxWraps /\ wrapped' \in BOOLEAN
        <5>1. wraps \in 0 .. MaxWraps /\ wrapped \in BOOLEAN
          BY <1>3 DEF TaskRest
        <5>2. CASE wrapped' = wrapped /\ wraps' = wraps
          BY <5>1, <5>2
        <5>3. CASE wraps < MaxWraps /\ wrapped' = TRUE /\ wraps' = wraps + 1
          BY <4>1, <5>1, <5>3
        <5> QED
          BY <1>12, <3>1, <5>2, <5>3 DEF Tick
      <4> QED
        BY <1>12, <1>3, <4>2, <4>3 DEF Tick, TaskRest
    <3>2. CASE ~(pc = "wait" /\ tmo # <<>>)
      BY <1>12, <1>3, <3>2 DEF Tick, TaskRest
    <3> QED
      BY <3>1, <3>2
  <2> QED
    BY <1>4, <2>1, <2>2
<1>13. ASSUME PostCallback PROVE TaskInv'
  <2>1. mbox' \in Seq(Message) /\ Len(mbox') <= MboxSize
    BY <1>13, PostedType, MessageTypes DEF PostCallback
  <2> QED
    BY <1>13, <1>3, <1>5, <2>1 DEF PostCallback, TaskRest
<1>14. ASSUME NEW n \in 1 .. FifoMax, RxIsr(n) PROVE TaskInv'
  <2>1. mbox' \in Seq(Message) /\ Len(mbox') <= MboxSize
    <3>1. CASE UNCHANGED mbox
      BY <1>3, <3>1 DEF TaskRest
    <3>2. CASE Posted([type |-> "static"])
      BY <3>2, PostedType, MessageTypes
    <3> QED
      BY <1>14, <3>1, <3>2 DEF RxIsr, RxCallback
  <2> QED
    BY <1>14, <1>3, <1>5, <2>1 DEF RxIsr, TaskRest
<1>15. ASSUME Request PROVE TaskInv'
  <2>1. todo # <<>> /\ todo \in Seq(Message) /\ Head(todo) \in Message /\ Tail(todo) \in Seq(Message)
    BY <1>15, <1>3 DEF Request, TaskRest
  <2>2. mbox' \in Seq(Message) /\ Len(mbox') <= MboxSize
    <3>1. CASE UNCHANGED mbox
      BY <1>3, <3>1 DEF TaskRest
    <3>2. CASE Posted(Head(todo))
      BY <2>1, <3>2, PostedType
    <3> QED
      BY <1>15, <3>1, <3>2 DEF Request
  <2> QED
    BY <1>15, <1>3, <1>5, <2>1, <2>2 DEF Request, TaskRest
<1>16. ASSUME Requested PROVE TaskInv'
  BY <1>16, <1>3, <1>5 DEF Requested, TaskRest, Place
<1>17. ASSUME RunRx PROVE TaskInv'
  <2>1. \/ Then(<<Del(Uart)>>, "send")
        \/ Then(Restart(Uart), "again")
    BY <1>17 DEF RunRx
  <2>2. UNCHANGED <<tmo, mbox, waited, wrapped, wraps>>
    BY <1>17 DEF RunRx, Calm
  <2>3. TaskRest'
    BY <1>2, <1>then, <2>1, <2>2, MessageTypes
  <2> QED
    BY <1>5, <2>2, <2>3
<1>18. ASSUME RunUartTimer PROVE TaskInv'
  BY <1>18, <1>3, <1>5, JobHandler DEF RunUartTimer, Calm, TaskRest, Place
<1>19. ASSUME Send PROVE TaskInv'
  BY <1>19, <1>3, <1>5 DEF Send, Calm, TaskRest, Place
<1>20. ASSUME SendWaits PROVE TaskInv'
  <2>1. UNCHANGED <<tmo, mbox, waited, wrapped, wraps>>
    BY <1>20 DEF SendWaits, Calm
  <2>2. CASE Then(Restart(Uart), "again")
    BY <1>2, <1>5, <1>then, <2>1, <2>2, MessageTypes
  <2>3. CASE UNCHANGED <<pc, job, todo, after>>
    BY <1>3, <1>5, <2>1, <2>3 DEF TaskRest
  <2> QED
    BY <1>20, <2>2, <2>3 DEF SendWaits
<1>21. ASSUME Sent PROVE TaskInv'
  <2>1. UNCHANGED <<tmo, mbox, waited, wrapped, wraps>>
    BY <1>21 DEF Sent, Calm
  <2>2. CASE pc' = "send" /\ UNCHANGED <<job, todo, after>>
    BY <1>3, <1>5, <2>1, <2>2 DEF TaskRest, Place
  <2>3. CASE \E r \in {Restart(Uart), <<>>}, a \in {"fc", "again"} : Then(r, a)
    <3>1. PICK r \in {Restart(Uart), <<>>}, a \in {"fc", "again"} : Then(r, a)
      BY <2>3
    <3> QED
      BY <1>2, <1>5, <1>then, <2>1, <3>1, MessageTypes
  <2> QED
    BY <1>21, <2>2, <2>3 DEF Sent
<1>22. ASSUME SentFlow PROVE TaskInv'
  <2>1. UNCHANGED <<tmo, mbox, waited, wrapped, wraps>>
    BY <1>22 DEF SentFlow, Calm
  <2>2. PICK r \in {Restart(Uart), <<>>} : Then(r, "again")
    BY <1>22 DEF SentFlow
  <2> QED
    BY <1>2, <1>5, <1>then, <2>1, <2>2, MessageTypes
<1>23. ASSUME RunApp PROVE TaskInv'
  <2>1. UNCHANGED <<tmo, mbox, waited, wrapped, wraps>>
    BY <1>23 DEF RunApp, Calm
  <2>2. PICK r \in AppRequests : Then(r, "again")
    BY <1>23 DEF RunApp
  <2>3. r \in Seq(Message)
    BY MessageTypes DEF AppRequests, App
  <2> QED
    BY <1>5, <1>then, <2>1, <2>2, <2>3
<1> QED
  BY <1>6, <1>7, <1>8, <1>9, <1>10, <1>11, <1>12, <1>13, <1>14, <1>15, <1>16, <1>17, <1>18, <1>19,
     <1>20, <1>21, <1>22, <1>23
  DEF Next, Thread, TaskStep, PortStep, OsTick

\* Passes, on the timers the list stands for.
LEMMA WaitedTimers ==
    ASSUME NEW list \in Seq(Entry), list # <<>>, NEW d \in 0 .. list[1].time,
           NEW new, new = Less(list, d)
    PROVE  Timers(new) = Abs!Passes(Timers(list), d)
<1> DEFINE n == Len(list)
           t == TimeLeft(list)
           T == Timers(list)
<1>1. /\ new \in Seq(Entry) /\ Len(new) = n
      /\ \A k \in 1 .. n : /\ new[k].h = list[k].h /\ new[k].age = list[k].age
                           /\ new[k].ahead = list[k].ahead
                           /\ new[k].time = IF k = 1 THEN list[k].time - d ELSE list[k].time
      /\ \A k \in 1 .. n : TimeLeft(new)[k] = t[k] - d
  BY WaitedPoints
<1>2. \A k \in 1 .. n : TimeLeft(new)[k] = t[k] - d
  BY <1>1
<1>3. /\ T \in Seq(AbsTimer) /\ Len(T) = n /\ DOMAIN T = 1 .. n
      /\ \A k \in 1 .. n : T[k] = [h |-> list[k].h, left |-> t[k]]
  BY TimersPoints
<1>4. DOMAIN new = 1 .. n
  BY <1>1, EntryFields
<1>5. Timers(new) = [k \in 1 .. n |-> [h |-> new[k].h, left |-> TimeLeft(new)[k]]]
  BY <1>4 DEF Timers
<1>6. Abs!Passes(T, d) = [k \in 1 .. n |-> [T[k] EXCEPT !.left = @ - d]]
  BY <1>3 DEF Abs!Passes
<1> HIDE DEF n, t, T
<1>7. ASSUME NEW k \in 1 .. n
      PROVE  [h |-> new[k].h, left |-> TimeLeft(new)[k]] = [T[k] EXCEPT !.left = @ - d]
  BY <1>1, <1>2, <1>3
<1> QED
  BY <1>5, <1>6, <1>7 DEF T

LEMMA FireTimers ==
    ASSUME NEW list \in Seq(Entry), list # <<>>,
           NEW new, new = Fired(list)
    PROVE  /\ Timers(list) # <<>>
           /\ Timers(new) = Abs!Passes(Tail(Timers(list)), Head(Timers(list)).left)
<1> DEFINE n == Len(list)
           t == TimeLeft(list)
           T == Timers(list)
<1>1. n \in Nat /\ n >= 1
  OBVIOUS
<1>2. /\ new \in Seq(Entry) /\ Len(new) = n - 1
      /\ \A k \in 1 .. n - 1 : new[k].h = list[k + 1].h
  BY FirePoints
<1>3. \A k \in 0 .. n - 1 : TimeLeft(new)[k] = t[k + 1] - t[1]
  BY FirePoints
<1>4. /\ T \in Seq(AbsTimer) /\ Len(T) = n
      /\ \A k \in 1 .. n : T[k] = [h |-> list[k].h, left |-> t[k]]
  BY TimersPoints
<1>5. DOMAIN new = 1 .. n - 1
  BY <1>2, EntryFields
<1>6. Timers(new) = [k \in 1 .. n - 1 |-> [h |-> new[k].h, left |-> TimeLeft(new)[k]]]
  BY <1>5 DEF Timers
<1> HIDE DEF n, t, T
<1>7. T # <<>> /\ Head(T) = T[1] /\ DOMAIN Tail(T) = 1 .. n - 1 /\ \A k \in 1 .. n - 1 : Tail(T)[k] = T[k + 1]
  BY <1>1, <1>4
<1>8. Head(T).left = t[1]
  BY <1>1, <1>4, <1>7
<1>9. Abs!Passes(Tail(T), Head(T).left) = [k \in 1 .. n - 1 |-> [Tail(T)[k] EXCEPT !.left = @ - t[1]]]
  BY <1>7, <1>8 DEF Abs!Passes
<1>10. ASSUME NEW k \in 1 .. n - 1
      PROVE  [h |-> new[k].h, left |-> TimeLeft(new)[k]] = [Tail(T)[k] EXCEPT !.left = @ - t[1]]
  <2>1. k + 1 \in 1 .. n /\ k \in 0 .. n - 1
    BY <1>1
  <2>2. Tail(T)[k] = [h |-> list[k + 1].h, left |-> t[k + 1]]
    BY <1>4, <1>7, <2>1
  <2>3. new[k].h = list[k + 1].h
    BY <1>2
  <2>4. TimeLeft(new)[k] = t[k + 1] - t[1]
    BY <1>3, <2>1
  <2>5. PICK x, a, l, d : /\ a = list[k + 1].h /\ l = t[k + 1] /\ d = t[1]
                          /\ x = Tail(T)[k] /\ x = [h |-> a, left |-> l]
    BY <2>2
  <2>6. [x EXCEPT !.left = x.left - d] = [h |-> a, left |-> l - d]
    <3>1. x = [h |-> a, left |-> l]
      BY <2>5
    <3> QED
      BY <3>1
  <2> QED
    BY <2>3, <2>4, <2>5, <2>6
<1>11. Timers(new) = Abs!Passes(Tail(T), Head(T).left)
  BY <1>6, <1>9, <1>10
<1> QED
  BY <1>7, <1>11 DEF T

LEMMA TickTimers ==
    ASSUME NEW list \in Seq(Entry),
           NEW new, new = Aged(list)
    PROVE  Timers(new) = Timers(list)
<1> DEFINE n == Len(list)
           t == TimeLeft(list)
<1>1. n \in Nat /\ DOMAIN list = 1 .. n
  BY EntryFields
<1>2. /\ new \in Seq(Entry) /\ Len(new) = n
      /\ \A k \in 1 .. n : new[k].h = list[k].h
  BY TickPoints
<1>3. \A k \in 0 .. n : TimeLeft(new)[k] = t[k]
  BY TickPoints
<1>4. DOMAIN new = 1 .. n
  BY <1>2, EntryFields
<1>5. /\ Timers(new) = [k \in 1 .. n |-> [h |-> new[k].h, left |-> TimeLeft(new)[k]]]
      /\ Timers(list) = [k \in 1 .. n |-> [h |-> list[k].h, left |-> t[k]]]
  BY <1>1, <1>4 DEF Timers
<1> HIDE DEF n, t
<1>6. ASSUME NEW k \in 1 .. n
      PROVE  [h |-> new[k].h, left |-> TimeLeft(new)[k]] = [h |-> list[k].h, left |-> t[k]]
  <2>1. new[k].h = list[k].h
    BY <1>2
  <2>2. k \in 0 .. n
    BY <1>1
  <2>3. TimeLeft(new)[k] = t[k]
    BY <1>3, <2>2
  <2> QED
    BY <2>1, <2>3
<1> QED
  BY <1>5, <1>6

\* Every step of the task is a step of AbstractTimers or leaves its timers alone.
LEMMA TimersNext ==
    ASSUME TaskInv, [Next]_vars
    PROVE  [Abs!Next]_(Timers(tmo))
<1>1. tmo \in Seq(Entry)
  BY DEF TaskInv
<1>2. ASSUME tmo' = tmo PROVE Timers(tmo)' = Timers(tmo)
  BY <1>2
<1>3. ASSUME Receive PROVE Abs!Next \/ UNCHANGED Timers(tmo)
  <2>1. CASE tmo = <<>>
    BY <1>2, <1>3, <2>1 DEF Receive, Waited
  <2>2. CASE tmo # <<>>
    <3>1. PICK d \in 0 .. tmo[1].time : Waited(tmo) = Less(tmo, d)
      BY <2>2, WaitedList
    <3>2. Timers(tmo') = Abs!Passes(Timers(tmo), d)
      BY <1>1, <1>3, <2>2, <3>1, WaitedTimers DEF Receive
    <3>3. Timers(tmo) # <<>> /\ Head(Timers(tmo)).left = tmo[1].time
      <4>1. Timers(tmo) \in Seq(AbsTimer) /\ Len(Timers(tmo)) = Len(tmo)
            /\ Timers(tmo)[1] = [h |-> tmo[1].h, left |-> TimeLeft(tmo)[1]]
        BY <1>1, <2>2, TimersPoints
      <4>2. TimeLeft(tmo)[0] = 0 /\ TimeLeft(tmo)[1] = TimeLeft(tmo)[1 - 1] + tmo[1].time
        BY <1>1, <2>2, TimeLeftSums
      <4>3. TimeLeft(tmo)[1] = tmo[1].time
        BY <1>1, <2>2, <4>2, EntryFields
      <4> QED
        BY <1>1, <2>2, <4>1, <4>3
    <3>4. Abs!Advance(d)
      BY <1>1, <3>2, <3>3, EntryFields DEF Abs!Advance
    <3>5. d \in 0 .. (IF Timers(tmo) = <<>> THEN 0 ELSE Head(Timers(tmo)).left)
      BY <3>3
    <3> QED
      BY <3>4, <3>5 DEF Abs!Next
  <2> QED
    BY <2>1, <2>2
<1>4. ASSUME Fire PROVE Abs!Next
  <2>1. Timers(tmo) # <<>> /\ Timers(tmo') = Abs!Passes(Tail(Timers(tmo)), Head(Timers(tmo)).left)
    BY <1>1, <1>4, FireTimers DEF Fire, Fired
  <2> QED
    BY <2>1 DEF Abs!Next, Abs!Fire
<1>5. ASSUME RunTimeout PROVE Abs!Next
  <2>1. PICK h \in Handler : h = job.h
    BY <1>5, JobHandler DEF RunTimeout, Runs
  <2>2. PICK p : p = Passed(tmo, h)
    OBVIOUS
  <2>3. Timers(tmo') = InsertAt(Timers(tmo), p + 1, [h |-> h, left |-> Msecs[h]])
    BY <1>1, <1>5, <2>1, <2>2, TimeoutTimers DEF RunTimeout
  <2> DEFINE I == {i \in 1 .. Len(Timers(tmo)) : Timers(tmo)[i].left > Msecs[h]}
  <2>4. (IF I # {} THEN Min(I) ELSE 0) = IF p = Len(tmo) THEN 0 ELSE p + 1
    BY <1>1, <2>2, LateAt
  <2>5. Len(Timers(tmo)) = Len(tmo) /\ p \in 0 .. Len(tmo) /\ Len(tmo) \in Nat
    BY <1>1, <2>2, TimersPoints, PassedAt
  <2>6. Abs!Arm(h)
    <3>1. Abs!Arm(h) =
            LET late == IF I # {} THEN Min(I) ELSE 0
                at == IF late = 0 THEN Len(Timers(tmo)) + 1 ELSE late
            IN Timers(tmo)' = InsertAt(Timers(tmo), at, [h |-> h, left |-> Msecs[h]])
      BY DEF Abs!Arm, Abs!SelectInSeq, Abs!Min, Min, Abs!InsertAt, InsertAt
    <3> HIDE DEF I
    <3>2. CASE p = Len(tmo)
      BY <2>3, <2>4, <2>5, <3>1, <3>2
    <3>3. CASE p # Len(tmo)
      <4>1. p + 1 # 0
        BY <2>5
      <4> QED
        BY <2>3, <2>4, <3>1, <3>3, <4>1
    <3> QED
      BY <3>2, <3>3
  <2> QED
    BY <2>6 DEF Abs!Next
<1>6. ASSUME RunUntimeout PROVE Abs!Next \/ UNCHANGED Timers(tmo)
  <2>1. PICK h \in Handler : h = job.h
    BY <1>6, JobHandler DEF RunUntimeout, Runs
  <2>2. PICK at : at = FirstOf(tmo, h)
    OBVIOUS
  <2>3. CASE at = 0
    BY <1>2, <1>6, <2>1, <2>2, <2>3 DEF RunUntimeout, Untimeout, FirstOf
  <2>4. CASE at # 0
    <3>1. Timers(tmo') = RemoveAt(Timers(tmo), at)
      BY <1>1, <1>6, <2>1, <2>2, <2>4, UntimeoutTimers DEF RunUntimeout
    <3>2. FirstOf(Timers(tmo), h) = at
      BY <1>1, <2>2, FirstOfAt
    <3>3. Abs!Cancel(h)
      <4> DEFINE I == {i \in 1 .. Len(Timers(tmo)) : Timers(tmo)[i].h = h}
      <4>1. FirstOf(Timers(tmo), h) = IF I # {} THEN Min(I) ELSE 0
        BY DEF FirstOf, SelectInSeq
      <4>2. Abs!Cancel(h) =
              LET f == IF I # {} THEN Min(I) ELSE 0
              IN f # 0 /\ Timers(tmo)' = RemoveAt(Timers(tmo), f)
        BY DEF Abs!Cancel, Abs!SelectInSeq, Abs!Min, Min, Abs!RemoveAt, RemoveAt
      <4> HIDE DEF I
      <4> QED
        BY <2>4, <3>1, <3>2, <4>1, <4>2
    <3> QED
      BY <3>3 DEF Abs!Next
  <2> QED
    BY <2>3, <2>4
<1>7. ASSUME Tick PROVE UNCHANGED Timers(tmo)
  BY <1>1, <1>7, TickTimers DEF Tick, Aged
<1>8. \/ tmo' = tmo \/ Receive \/ Fire \/ RunTimeout \/ RunUntimeout \/ Tick
  BY DEF Next, vars, taskVars, Thread, TaskStep, PortStep, OsTick, Fetch, PostCallback, RxIsr,
         Request, Requested, RunRx, RunUartTimer, Send, SendWaits, Sent, SentFlow, RunApp, Calm
<1> QED
  BY <1>2, <1>3, <1>4, <1>5, <1>6, <1>7, <1>8

LEMMA TaskInvInit ==
    ASSUME Init
    PROVE  TaskInv /\ Abs!Init
<1>1. TaskInv
  <2>1. 0 \in Waits /\ 0 \in 0 .. MaxWraps /\ 0 <= MboxSize
    BY WlTaskAssumption DEF Waits
  <2>2. <<>> \in Seq(Entry) /\ <<>> \in Seq(Message) /\ Len(<<>>) = 0
    OBVIOUS
  <2> QED
    BY <2>1, <2>2 DEF Init, TaskInit, TaskInv, Place
<1>2. Len(Timers(tmo)) = 0 /\ Timers(tmo) \in Seq(AbsTimer)
  BY <1>1, TimersPoints DEF Init, TaskInit, TaskInv
<1>3. Timers(tmo) = <<>>
  BY <1>2
<1> QED
  BY <1>1, <1>3 DEF Abs!Init

LEMMA TaskInvariant == Spec => []TaskInv
<1>1. Init => TaskInv
  BY TaskInvInit
<1>2. TaskInv /\ [Next]_vars => TaskInv'
  BY TaskInvNext
<1> QED
  BY <1>1, <1>2, PTL DEF Spec

\* The delta list of tls_timeout_p, tls_untimeout_p and the waiting task is, for
\* any handlers, times, tick rate and mailbox, the list of timers that clients
\* think of: armed in the order they fall due, cancelled without disturbing the
\* others, and fired from the front as time passes for all alike.
THEOREM TimersImplemented == Spec => ImplementsTimers
<1>1. Init => Abs!Init
  BY TaskInvInit
<1>2. TaskInv /\ [Next]_vars => [Abs!Next]_(Timers(tmo))
  BY TimersNext
<1> QED
  BY <1>1, <1>2, TaskInvariant, PTL DEF Spec, ImplementsTimers, Abs!Spec

-----------------------------------------------------------------------------
(* The receive timer. *)

\* It is not armed; it is armed at most once.
None(list) == \A k \in 1 .. Len(list) : list[k].h # Uart
One(list) == \A i, j \in 1 .. Len(list) : list[i].h = Uart /\ list[j].h = Uart => i = j

\* The task has been asked to cancel the timer, and not to arm it since.
Ready(m, box) ==
    \E j \in 0 .. Len(box) :
       Item(m, box, j) = Del(Uart) /\ \A i \in j + 1 .. Len(box) : Item(m, box, i) # Add(Uart)

\* Whenever it is asked to arm the timer, the last such request before, or a
\* timer that is armed, has been cancelled.
Good(m, box, none) ==
    \A k \in 0 .. Len(box) : Item(m, box, k) = Add(Uart) =>
       \/ \E j \in 0 .. k - 1 : /\ Item(m, box, j) = Del(Uart)
                                /\ \A i \in j + 1 .. k - 1 : Item(m, box, i) # Add(Uart)
       \/ none /\ \A i \in 0 .. k - 1 : Item(m, box, i) # Add(Uart)

UartRequests ==
    {<<>>, <<Del(Uart)>>, <<Add(Uart)>>, Restart(Uart)}
      \cup {<<Add(h)>> : h \in App} \cup {<<Del(h)>> : h \in App}

TimerControl ==
    /\ pc # "run" => job = Nothing
    /\ todo # <<>> => pc = "post"
    /\ todo \in UartRequests

TimerInv ==
    ~lost => /\ One(tmo)
             /\ Good(job, mbox, None(tmo))
             /\ todo = <<Add(Uart)>> => Ready(job, mbox)

LEMMA Kinds ==
    /\ \A h, g : Add(h) # Del(g) /\ (Add(h) = Add(g) => h = g) /\ (Del(h) = Del(g) => h = g)
    /\ \A h : Add(h) # Nothing /\ Del(h) # Nothing
    /\ \A h : Add(h) # [type |-> "static"] /\ Add(h) # [type |-> "callback"]
    /\ \A h : Add(h) \notin Timer /\ Del(h) \notin Timer
<1>1. \A h : Add(h).type = "timeout" /\ Del(h).type = "untimeout" /\ Add(h).h = h /\ Del(h).h = h
  BY DEF Add, Del
<1>2. Nothing.type = "none" /\ [type |-> "static"].type = "static" /\ [type |-> "callback"].type = "callback"
      /\ \A x \in Timer : x.type = "timer"
  BY DEF Nothing, Timer
<1> QED
  BY <1>1, <1>2

LEMMA GoodAppend ==
    ASSUME NEW box \in Seq(Message), NEW x \in Message, NEW m, NEW none,
           Good(m, box, none), x = Add(Uart) => Ready(m, box)
    PROVE  Good(m, Append(box, x), none)
<1>1. PICK n \in Nat : n = Len(box)
  OBVIOUS
<1>2. PICK new : new = Append(box, x)
  OBVIOUS
<1>3. n = Len(box) /\ new = Append(box, x)
  BY <1>1, <1>2
<1>4. Len(new) = n + 1 /\ \A k \in 1 .. n : new[k] = box[k]
  BY <1>3
<1>5. new[n + 1] = x
  BY <1>3
<1>6. \A k \in 0 .. n : Item(m, new, k) = Item(m, box, k)
  BY <1>4 DEF Item
<1>7. Item(m, new, n + 1) = x
  BY <1>3, <1>5 DEF Item
<1>8. ASSUME NEW k \in 0 .. Len(new), Item(m, new, k) = Add(Uart)
      PROVE  \/ \E j \in 0 .. k - 1 : /\ Item(m, new, j) = Del(Uart)
                                      /\ \A i \in j + 1 .. k - 1 : Item(m, new, i) # Add(Uart)
             \/ none /\ \A i \in 0 .. k - 1 : Item(m, new, i) # Add(Uart)
  <2>1. CASE k \in 0 .. n
    <3>1. Item(m, box, k) = Add(Uart)
      BY <1>6, <1>8, <2>1
    <3>2. \A i \in 0 .. k - 1 : Item(m, new, i) = Item(m, box, i)
      BY <1>6, <2>1
    <3>3. CASE \E j \in 0 .. k - 1 : /\ Item(m, box, j) = Del(Uart)
                                     /\ \A i \in j + 1 .. k - 1 : Item(m, box, i) # Add(Uart)
      <4>1. PICK j \in 0 .. k - 1 : /\ Item(m, box, j) = Del(Uart)
                                    /\ \A i \in j + 1 .. k - 1 : Item(m, box, i) # Add(Uart)
        BY <3>3
      <4>2. \A i \in j + 1 .. k - 1 : i \in 0 .. k - 1
        BY <2>1
      <4> QED
        BY <3>2, <4>1, <4>2
    <3>4. CASE none /\ \A i \in 0 .. k - 1 : Item(m, box, i) # Add(Uart)
      BY <3>2, <3>4
    <3> QED
      BY <1>3, <2>1, <3>1, <3>3, <3>4 DEF Good
  <2>2. CASE k = n + 1
    <3>1. Ready(m, box)
      BY <1>7, <1>8, <2>2
    <3>2. PICK j \in 0 .. n : /\ Item(m, box, j) = Del(Uart)
                              /\ \A i \in j + 1 .. n : Item(m, box, i) # Add(Uart)
      BY <1>3, <3>1 DEF Ready
    <3>3. k - 1 = n /\ \A i \in j + 1 .. n : i \in 0 .. n
      BY <2>2
    <3> QED
      BY <1>6, <3>2, <3>3
  <2> QED
    BY <1>4, <2>1, <2>2
<1> QED
  BY <1>3, <1>8 DEF Good

LEMMA ReadyAppend ==
    ASSUME NEW box \in Seq(Message), NEW x \in Message, NEW m,
           x = Del(Uart) \/ (Ready(m, box) /\ x # Add(Uart))
    PROVE  Ready(m, Append(box, x))
<1>1. PICK n \in Nat : n = Len(box)
  OBVIOUS
<1>2. PICK new : new = Append(box, x)
  OBVIOUS
<1>3. n = Len(box) /\ new = Append(box, x)
  BY <1>1, <1>2
<1>4. Len(new) = n + 1 /\ \A k \in 1 .. n : new[k] = box[k]
  BY <1>3
<1>5. new[n + 1] = x
  BY <1>3
<1>6. \A k \in 0 .. n : Item(m, new, k) = Item(m, box, k)
  BY <1>4 DEF Item
<1>7. Item(m, new, n + 1) = x
  BY <1>3, <1>5 DEF Item
<1>8. CASE x = Del(Uart)
  <2>1. n + 1 \in 0 .. Len(new) /\ \A i \in (n + 1) + 1 .. Len(new) : FALSE
    BY <1>4
  <2> QED
    BY <1>3, <1>7, <1>8, <2>1 DEF Ready
<1>9. CASE Ready(m, box) /\ x # Add(Uart)
  <2>1. PICK j \in 0 .. n : /\ Item(m, box, j) = Del(Uart)
                            /\ \A i \in j + 1 .. n : Item(m, box, i) # Add(Uart)
    BY <1>3, <1>9 DEF Ready
  <2>2. j \in 0 .. Len(new) /\ Item(m, new, j) = Del(Uart)
    BY <1>4, <1>6, <2>1
  <2>3. ASSUME NEW i \in j + 1 .. Len(new) PROVE Item(m, new, i) # Add(Uart)
    <3>1. CASE i = n + 1
      BY <1>7, <1>9, <3>1
    <3>2. CASE i # n + 1
      <4>1. i \in j + 1 .. n /\ i \in 0 .. n
        BY <1>4, <3>2
      <4> QED
        BY <1>6, <2>1, <4>1
    <3> QED
      BY <3>1, <3>2
  <2> QED
    BY <1>3, <2>2, <2>3 DEF Ready
<1> QED
  BY <1>8, <1>9

LEMMA GoodTake ==
    ASSUME NEW box \in Seq(Message), box # <<>>, NEW none, Good(Nothing, box, none)
    PROVE  Good(Head(box), Tail(box), none)
<1>1. PICK n \in Nat : n = Len(box)
  OBVIOUS
<1>2. PICK new : new = Tail(box)
  OBVIOUS
<1>3. PICK m : m = Head(box)
  OBVIOUS
<1>4. n = Len(box) /\ new = Tail(box) /\ m = Head(box)
  BY <1>1, <1>2, <1>3
<1>5. Len(new) = n - 1 /\ n >= 1 /\ m = box[1] /\ \A k \in 1 .. n - 1 : new[k] = box[k + 1]
  BY <1>4
<1>6. \A k \in 0 .. n - 1 : Item(m, new, k) = Item(Nothing, box, k + 1)
  BY <1>5 DEF Item
<1>7. Item(Nothing, box, 0) = Nothing
  BY DEF Item
<1>8. ASSUME NEW k \in 0 .. Len(new), Item(m, new, k) = Add(Uart)
      PROVE  \/ \E j \in 0 .. k - 1 : /\ Item(m, new, j) = Del(Uart)
                                      /\ \A i \in j + 1 .. k - 1 : Item(m, new, i) # Add(Uart)
             \/ none /\ \A i \in 0 .. k - 1 : Item(m, new, i) # Add(Uart)
  <2>1. k \in 0 .. n - 1 /\ k + 1 \in 0 .. n /\ (k + 1) - 1 = k
    BY <1>5
  <2>2. Item(Nothing, box, k + 1) = Add(Uart)
    BY <1>6, <1>8, <2>1
  <2>3. \/ \E j \in 0 .. k : /\ Item(Nothing, box, j) = Del(Uart)
                             /\ \A i \in j + 1 .. k : Item(Nothing, box, i) # Add(Uart)
        \/ none /\ \A i \in 0 .. k : Item(Nothing, box, i) # Add(Uart)
    BY <1>4, <2>1, <2>2 DEF Good
  <2>4. CASE \E j \in 0 .. k : /\ Item(Nothing, box, j) = Del(Uart)
                               /\ \A i \in j + 1 .. k : Item(Nothing, box, i) # Add(Uart)
    <3>1. PICK j \in 0 .. k : /\ Item(Nothing, box, j) = Del(Uart)
                              /\ \A i \in j + 1 .. k : Item(Nothing, box, i) # Add(Uart)
      BY <2>4
    <3>2. j # 0
      BY <1>7, <3>1, Kinds
    <3>3. j - 1 \in 0 .. k - 1 /\ j - 1 \in 0 .. n - 1 /\ (j - 1) + 1 = j
      BY <2>1, <3>2
    <3>4. Item(m, new, j - 1) = Del(Uart)
      BY <1>6, <3>1, <3>3
    <3>5. ASSUME NEW i \in (j - 1) + 1 .. k - 1 PROVE Item(m, new, i) # Add(Uart)
      <4>1. i \in 0 .. n - 1 /\ i + 1 \in j + 1 .. k
        BY <2>1, <3>3
      <4> QED
        BY <1>6, <3>1, <4>1
    <3> QED
      BY <3>3, <3>4, <3>5
  <2>5. CASE none /\ \A i \in 0 .. k : Item(Nothing, box, i) # Add(Uart)
    <3>1. ASSUME NEW i \in 0 .. k - 1 PROVE Item(m, new, i) # Add(Uart)
      <4>1. i \in 0 .. n - 1 /\ i + 1 \in 0 .. k
        BY <2>1
      <4> QED
        BY <1>6, <2>5, <4>1
    <3> QED
      BY <2>5, <3>1
  <2> QED
    BY <2>3, <2>4, <2>5
<1> QED
  BY <1>4, <1>8 DEF Good

\* One request, or the firing timer, is done with: m is what the task worked
\* on, next what it works on now.
LEMMA GoodStep ==
    ASSUME NEW box \in Seq(Message), NEW m, NEW next, NEW none, NEW none2,
           Good(m, box, none), next # Add(Uart),
           m = Del(Uart) => none2, m # Add(Uart) /\ none => none2
    PROVE  Good(next, box, none2)
<1>1. PICK n \in Nat : n = Len(box)
  OBVIOUS
<1>2. \A k \in 1 .. n : Item(next, box, k) = Item(m, box, k)
  BY <1>1 DEF Item
<1>3. Item(m, box, 0) = m /\ Item(next, box, 0) = next
  BY DEF Item
<1>4. ASSUME NEW k \in 0 .. n, Item(next, box, k) = Add(Uart)
      PROVE  \/ \E j \in 0 .. k - 1 : /\ Item(next, box, j) = Del(Uart)
                                      /\ \A i \in j + 1 .. k - 1 : Item(next, box, i) # Add(Uart)
             \/ none2 /\ \A i \in 0 .. k - 1 : Item(next, box, i) # Add(Uart)
  <2>1. k # 0
    BY <1>3, <1>4
  <2>2. k \in 1 .. n /\ k \in 0 .. n
    BY <1>1, <2>1
  <2>3. \/ \E j \in 0 .. k - 1 : /\ Item(m, box, j) = Del(Uart)
                                 /\ \A i \in j + 1 .. k - 1 : Item(m, box, i) # Add(Uart)
        \/ none /\ \A i \in 0 .. k - 1 : Item(m, box, i) # Add(Uart)
    BY <1>1, <1>2, <1>4, <2>2 DEF Good
  <2>4. CASE \E j \in 0 .. k - 1 : /\ Item(m, box, j) = Del(Uart)
                                   /\ \A i \in j + 1 .. k - 1 : Item(m, box, i) # Add(Uart)
    <3>1. PICK j \in 0 .. k - 1 : /\ Item(m, box, j) = Del(Uart)
                                  /\ \A i \in j + 1 .. k - 1 : Item(m, box, i) # Add(Uart)
      BY <2>4
    <3>2. \A i \in j + 1 .. k - 1 : i \in 1 .. n
      BY <1>1, <2>2
    <3>3. CASE j = 0
      <4>1. none2
        BY <1>3, <3>1, <3>3
      <4>2. ASSUME NEW i \in 0 .. k - 1 PROVE Item(next, box, i) # Add(Uart)
        <5>1. CASE i = 0
          BY <1>3, <5>1
        <5>2. CASE i # 0
          <6>1. i \in j + 1 .. k - 1
            BY <3>3, <5>2
          <6> QED
            BY <1>2, <3>1, <3>2, <6>1
        <5> QED
          BY <5>1, <5>2
      <4> QED
        BY <4>1, <4>2
    <3>4. CASE j # 0
      <4>1. j \in 1 .. n
        BY <2>2, <3>4
      <4> QED
        BY <1>2, <3>1, <3>2, <4>1
    <3> QED
      BY <3>3, <3>4
  <2>5. CASE none /\ \A i \in 0 .. k - 1 : Item(m, box, i) # Add(Uart)
    <3>1. 0 \in 0 .. k - 1
      BY <2>2
    <3>2. none2
      BY <1>3, <2>5, <3>1
    <3>3. ASSUME NEW i \in 0 .. k - 1 PROVE Item(next, box, i) # Add(Uart)
      <4>1. CASE i = 0
        BY <1>3, <4>1
      <4>2. CASE i # 0
        <5>1. i \in 1 .. n
          BY <2>2, <4>2
        <5> QED
          BY <1>2, <2>5, <5>1
      <4> QED
        BY <4>1, <4>2
    <3> QED
      BY <3>2, <3>3
  <2> QED
    BY <2>3, <2>4, <2>5
<1> QED
  BY <1>1, <1>4 DEF Good

\* The request at hand finds no timer armed.
LEMMA GoodAdd ==
    ASSUME NEW box \in Seq(Message), NEW none, Good(Add(Uart), box, none)
    PROVE  none
<1>1. 0 \in 0 .. Len(box) /\ \A j \in 0 .. 0 - 1 : FALSE
  OBVIOUS
<1>2. Item(Add(Uart), box, 0) = Add(Uart)
  BY DEF Item
<1> QED
  BY <1>1, <1>2 DEF Good

\* Lists with the same handlers.
LEMMA SameHandlers ==
    ASSUME NEW list, NEW new, Len(new) = Len(list),
           \A k \in 1 .. Len(list) : new[k].h = list[k].h
    PROVE  (None(list) => None(new)) /\ (One(list) => One(new))
  BY DEF None, One

LEMMA TimeoutHandlers ==
    ASSUME NEW list \in Seq(Entry), NEW h \in Handler, NEW new, new = Timeout(list, h)
    PROVE  /\ h # Uart /\ None(list) => None(new)
           /\ h # Uart /\ One(list) => One(new)
           /\ h = Uart /\ None(list) => One(new)
           /\ None(new) => None(list) /\ h # Uart
<1>1. PICK n \in Nat : n = Len(list)
  OBVIOUS
<1>2. PICK p : p = Passed(list, h)
  OBVIOUS
<1>3. p \in 0 .. n
  BY <1>1, <1>2, PassedAt
<1>4. PICK m : m = Msecs[h]
  OBVIOUS
<1>5. /\ new \in Seq(Entry) /\ Len(new) = n + 1
      /\ new[p + 1] = [h |-> h, time |-> m - TimeLeft(list)[p], age |-> 0, ahead |-> 0]
      /\ \A k \in 1 .. n + 1 :
            /\ k <= p => new[k] = list[k]
            /\ k = p + 2 => new[k] = [list[k - 1] EXCEPT !.time = @ - (m - TimeLeft(list)[p])]
            /\ k > p + 2 => new[k] = list[k - 1]
  BY <1>1, <1>2, <1>4, TimeoutPoints
<1>6. new[p + 1].h = h
  BY <1>5
<1>7. \A k \in 1 .. n + 1 : k <= p => new[k].h = list[k].h
  BY <1>5
<1>8. ASSUME NEW k \in 1 .. n + 1, k > p + 1 PROVE new[k].h = list[k - 1].h
  <2>1. CASE k = p + 2
    <3>1. k - 1 \in 1 .. Len(list)
      BY <1>1, <1>3, <2>1
    <3>2. PICK d : new[k] = [list[k - 1] EXCEPT !.time = d]
      BY <1>5, <2>1
    <3>3. list[k - 1] \in Entry
      BY <3>1
    <3> QED
      BY <3>2, <3>3 DEF Entry
  <2>2. CASE k > p + 2
    BY <1>5, <2>2
  <2> QED
    BY <1>3, <1>8, <2>1, <2>2
<1>9. Len(new) = n + 1
  BY <1>5
<1>10. ASSUME NEW k \in 1 .. n + 1, k # p + 1
       PROVE  \E i \in 1 .. n : new[k].h = list[i].h /\ i = IF k <= p THEN k ELSE k - 1
  <2>1. CASE k <= p
    BY <1>3, <1>7, <2>1
  <2>2. CASE k > p + 1
    <3>1. k - 1 \in 1 .. n /\ ~(k <= p)
      BY <1>3, <2>2
    <3> QED
      BY <1>8, <2>2, <3>1
  <2> QED
    BY <1>3, <1>10, <2>1, <2>2
<1>11. ASSUME h # Uart, None(list) PROVE None(new)
  <2>1. ASSUME NEW k \in 1 .. n + 1 PROVE new[k].h # Uart
    <3>1. CASE k = p + 1
      BY <1>6, <1>11, <3>1
    <3>2. CASE k # p + 1
      BY <1>1, <1>10, <1>11, <3>2 DEF None
    <3> QED
      BY <3>1, <3>2
  <2> QED
    BY <1>9, <2>1 DEF None
<1>12. ASSUME h # Uart, One(list) PROVE One(new)
  <2>1. ASSUME NEW j \in 1 .. n + 1, NEW k \in 1 .. n + 1, new[j].h = Uart, new[k].h = Uart
        PROVE  j = k
    <3>1. j # p + 1 /\ k # p + 1
      BY <1>6, <1>12, <2>1
    <3>2. PICK a \in 1 .. n : new[j].h = list[a].h /\ a = IF j <= p THEN j ELSE j - 1
      BY <1>10, <3>1
    <3>3. PICK b \in 1 .. n : new[k].h = list[b].h /\ b = IF k <= p THEN k ELSE k - 1
      BY <1>10, <3>1
    <3>4. a = b
      BY <1>1, <1>12, <2>1, <3>2, <3>3 DEF One
    <3> QED
      BY <1>3, <3>1, <3>2, <3>3, <3>4
  <2> QED
    BY <1>9, <2>1 DEF One
<1>13. ASSUME None(list) PROVE One(new)
  <2>1. ASSUME NEW k \in 1 .. n + 1, new[k].h = Uart PROVE k = p + 1
    BY <1>1, <1>10, <1>13, <2>1 DEF None
  <2> QED
    BY <1>9, <2>1 DEF One
<1>14. ASSUME None(new) PROVE None(list) /\ h # Uart
  <2>1. h # Uart
    BY <1>3, <1>6, <1>9, <1>14 DEF None
  <2>2. ASSUME NEW i \in 1 .. n PROVE list[i].h # Uart
    <3>1. CASE i <= p
      BY <1>7, <1>9, <1>14, <3>1 DEF None
    <3>2. CASE i > p
      <4>1. i + 1 \in 1 .. n + 1 /\ i + 1 > p + 1 /\ (i + 1) - 1 = i
        BY <1>3, <3>2
      <4>2. new[i + 1].h = list[i].h
        BY <1>8, <4>1
      <4> QED
        BY <1>9, <1>14, <4>1, <4>2 DEF None
    <3> QED
      BY <1>3, <3>1, <3>2
  <2> QED
    BY <1>1, <2>1, <2>2 DEF None
<1> QED
  BY <1>11, <1>12, <1>13, <1>14

LEMMA UntimeoutHandlers ==
    ASSUME NEW list \in Seq(Entry), NEW h \in Handler, NEW new, new = Untimeout(list, h)
    PROVE  /\ None(list) => None(new)
           /\ One(list) => One(new)
           /\ h = Uart /\ One(list) => None(new)
           /\ h # Uart /\ None(new) => None(list)
<1>1. PICK n \in Nat : n = Len(list)
  OBVIOUS
<1>2. PICK at : at = FirstOf(list, h)
  OBVIOUS
<1>3. /\ at \in 0 .. n
      /\ at = 0 => \A k \in 1 .. n : list[k].h # h
      /\ at # 0 => list[at].h = h
  BY <1>1, <1>2, FirstOfAt
<1>4. CASE at = 0
  <2>1. new = list
    BY <1>2, <1>4 DEF Untimeout, FirstOf
  <2> QED
    BY <1>1, <1>3, <1>4, <2>1 DEF None
<1>5. CASE at # 0
  <2>1. /\ Len(new) = n - 1
        /\ \A k \in 1 .. n - 1 :
              /\ k < at => new[k] = list[k]
              /\ k = at => new[k] = [list[k + 1] EXCEPT !.time = @ + list[at].time]
              /\ k > at => new[k] = list[k + 1]
    BY <1>1, <1>2, <1>5, UntimeoutPoints
  <2>2. ASSUME NEW k \in 1 .. n - 1
        PROVE  \E i \in 1 .. n : new[k].h = list[i].h /\ i = IF k < at THEN k ELSE k + 1
    <3>1. CASE k < at
      BY <1>3, <2>1, <3>1
    <3>2. CASE k = at
      <4>1. k + 1 \in 1 .. n
        OBVIOUS
      <4>2. PICK d : new[k] = [list[k + 1] EXCEPT !.time = d]
        BY <2>1, <3>2
      <4>3. list[k + 1] \in Entry
        BY <1>1, <4>1
      <4> QED
        BY <3>2, <4>1, <4>2, <4>3 DEF Entry
    <3>3. CASE k > at
      BY <1>3, <2>1, <3>3
    <3> QED
      BY <1>3, <3>1, <3>2, <3>3
  <2>3. ASSUME None(list) PROVE None(new)
    BY <1>1, <2>1, <2>2, <2>3 DEF None
  <2>4. ASSUME One(list) PROVE One(new)
    <3>1. ASSUME NEW j \in 1 .. n - 1, NEW k \in 1 .. n - 1, new[j].h = Uart, new[k].h = Uart
          PROVE  j = k
      <4>1. PICK a \in 1 .. n : new[j].h = list[a].h /\ a = IF j < at THEN j ELSE j + 1
        BY <2>2
      <4>2. PICK b \in 1 .. n : new[k].h = list[b].h /\ b = IF k < at THEN k ELSE k + 1
        BY <2>2
      <4>3. a = b
        BY <1>1, <2>4, <3>1, <4>1, <4>2 DEF One
      <4> QED
        BY <1>3, <4>1, <4>2, <4>3
    <3> QED
      BY <2>1, <3>1 DEF One
  <2>5. ASSUME h = Uart, One(list) PROVE None(new)
    <3>1. ASSUME NEW k \in 1 .. n - 1, new[k].h = Uart PROVE FALSE
      <4>1. PICK a \in 1 .. n : new[k].h = list[a].h /\ a = IF k < at THEN k ELSE k + 1
        BY <2>2
      <4>2. a = at
        BY <1>1, <1>3, <1>5, <2>5, <3>1, <4>1 DEF One
      <4> QED
        BY <1>3, <4>1, <4>2
    <3> QED
      BY <2>1, <3>1 DEF None
  <2>6. ASSUME h # Uart, None(new) PROVE None(list)
    <3>1. ASSUME NEW i \in 1 .. n, i # at PROVE list[i].h # Uart
      <4>1. PICK k \in 1 .. n - 1 : i = IF k < at THEN k ELSE k + 1
        <5>1. CASE i < at
          BY <1>3, <5>1
        <5>2. CASE i > at
          <6>1. i - 1 \in 1 .. n - 1 /\ ~(i - 1 < at) /\ (i - 1) + 1 = i
            BY <1>3, <1>5, <5>2
          <6> QED
            BY <6>1
        <5> QED
          BY <1>3, <3>1, <5>1, <5>2
      <4> QED
        BY <2>1, <2>2, <2>6, <4>1 DEF None
    <3>2. list[at].h # Uart
      BY <1>3, <1>5, <2>6
    <3> QED
      BY <1>1, <3>1, <3>2 DEF None
  <2> QED
    BY <2>3, <2>4, <2>5, <2>6
<1> QED
  BY <1>4, <1>5

LEMMA RequestKinds ==
    ASSUME todo \in UartRequests, todo # <<>>
    PROVE  /\ Tail(todo) \in UartRequests
           /\ Head(todo) = Add(Uart) => todo = <<Add(Uart)>>
           /\ Tail(todo) = <<Add(Uart)>> => Head(todo) = Del(Uart)
<1>1. ASSUME NEW x PROVE Head(<<x>>) = x /\ Tail(<<x>>) = <<>>
  <2>1. <<x>> \in Seq({x}) /\ Len(<<x>>) = 1 /\ Head(<<x>>) = x
    OBVIOUS
  <2>2. Tail(<<x>>) \in Seq({x}) /\ Len(Tail(<<x>>)) = 0
    BY <2>1
  <2> QED
    BY <2>1, <2>2
<1>2. CASE todo \in {<<Del(Uart)>>, <<Add(Uart)>>}
  <2>1. (Head(todo) = Del(Uart) \/ todo = <<Add(Uart)>>) /\ Tail(todo) = <<>>
    BY <1>1, <1>2
  <2>2. <<Add(Uart)>> # <<>>
    OBVIOUS
  <2> QED
    BY <2>1, <2>2, Kinds DEF UartRequests
<1>3. CASE todo = Restart(Uart)
  <2>1. Head(todo) = Del(Uart) /\ Tail(todo) = <<Add(Uart)>>
    BY <1>3 DEF Restart
  <2> QED
    BY <2>1, Kinds DEF UartRequests
<1>4. CASE \E h \in App : todo = <<Add(h)>> \/ todo = <<Del(h)>>
  <2>1. PICK h \in App : todo = <<Add(h)>> \/ todo = <<Del(h)>>
    BY <1>4
  <2>2. (Head(todo) = Add(h) \/ Head(todo) = Del(h)) /\ Tail(todo) = <<>>
    BY <1>1, <2>1
  <2>3. h # Uart
    BY DEF App
  <2> QED
    BY <2>2, <2>3, Kinds DEF UartRequests
<1> QED
  BY <1>2, <1>3, <1>4 DEF UartRequests

LEMMA TimerControlNext ==
    ASSUME TimerControl, [Next]_vars
    PROVE  TimerControl'
<1> USE DEF TimerControl, portVars, sendVars
<1>then. ASSUME NEW r \in UartRequests, NEW a, Then(r, a) PROVE TimerControl'
  BY <1>then DEF Then
<1>1. <<>> \in UartRequests /\ Restart(Uart) \in UartRequests /\ <<Del(Uart)>> \in UartRequests
  BY DEF UartRequests
<1>2. CASE UNCHANGED vars
  BY <1>2 DEF vars, taskVars
<1>3. ASSUME TaskStep, UNCHANGED <<portVars, sendVars, lost>> PROVE TimerControl'
  BY <1>3 DEF TaskStep, Fetch, Receive, Fire, RunTimeout, RunUntimeout, Runs
<1>4. ASSUME Tick, UNCHANGED <<portVars, sendVars, lost>> PROVE TimerControl'
  BY <1>4 DEF Tick
<1>5. ASSUME PostCallback PROVE TimerControl'
  BY <1>5 DEF PostCallback
<1>6. ASSUME NEW n \in 1 .. FifoMax, RxIsr(n) PROVE TimerControl'
  BY <1>6 DEF RxIsr
<1>7. ASSUME Request PROVE TimerControl'
  BY <1>7, RequestKinds DEF Request
<1>8. ASSUME Requested PROVE TimerControl'
  BY <1>8 DEF Requested
<1>9. ASSUME RunRx PROVE TimerControl'
  BY <1>9, <1>1, <1>then DEF RunRx
<1>10. ASSUME RunUartTimer PROVE TimerControl'
  BY <1>10 DEF RunUartTimer, Runs
<1>11. ASSUME Send PROVE TimerControl'
  BY <1>11 DEF Send
<1>12. ASSUME SendWaits PROVE TimerControl'
  <2>1. CASE Then(Restart(Uart), "again")
    BY <1>1, <1>then, <2>1
  <2>2. CASE UNCHANGED <<pc, job, todo>>
    BY <2>2
  <2> QED
    BY <1>12, <2>1, <2>2 DEF SendWaits
<1>13. ASSUME Sent PROVE TimerControl'
  <2>1. CASE pc' = "send" /\ UNCHANGED <<job, todo>>
    BY <1>13, <2>1 DEF Sent
  <2>2. CASE \E r \in {Restart(Uart), <<>>}, a \in {"fc", "again"} : Then(r, a)
    BY <1>1, <1>then, <2>2
  <2> QED
    BY <1>13, <2>1, <2>2 DEF Sent
<1>14. ASSUME SentFlow PROVE TimerControl'
  <2>1. PICK r \in {Restart(Uart), <<>>} : Then(r, "again")
    BY <1>14 DEF SentFlow
  <2> QED
    BY <1>1, <1>then, <2>1
<1>15. ASSUME RunApp PROVE TimerControl'
  <2>1. PICK r \in AppRequests : Then(r, "again")
    BY <1>15 DEF RunApp
  <2>2. r \in UartRequests
    BY DEF AppRequests, UartRequests
  <2> QED
    BY <1>then, <2>1, <2>2
<1> QED
  BY <1>2, <1>3, <1>4, <1>5, <1>6, <1>7, <1>8, <1>9, <1>10, <1>11, <1>12, <1>13, <1>14, <1>15
  DEF Next, Thread, PortStep, OsTick

LEMMA JobKinds ==
    ASSUME TaskInv
    PROVE  /\ job.type = "timeout" => job.h \in Handler /\ job = Add(job.h)
           /\ job.type = "untimeout" => job.h \in Handler /\ job = Del(job.h)
           /\ job.type \in {"static", "callback", "timer"} => job # Add(Uart) /\ job # Del(Uart)
<1>1. CASE job \in [type : {"timeout", "untimeout"}, h : Handler]
  BY <1>1 DEF Add, Del
<1>2. CASE job \in [type : {"callback", "static"}] \cup Timer \cup {Nothing}
  BY <1>2 DEF Add, Del, Timer, Nothing
<1> QED
  BY <1>1, <1>2 DEF TaskInv, Message

\* Requests, taken out of the mailbox in their order, arm the timer only when
\* it is not armed.
LEMMA TimerInvNext ==
    ASSUME TaskInv, TaskInv', TimerControl, TimerInv, [Next]_vars
    PROVE  TimerInv'
<1> USE DEF portVars, sendVars
<1>1. SUFFICES ASSUME ~lost'
               PROVE  /\ One(tmo')
                      /\ Good(job', mbox', None(tmo'))
                      /\ todo' = <<Add(Uart)>> => Ready(job', mbox')
  BY DEF TimerInv
<1>2. /\ tmo \in Seq(Entry) /\ mbox \in Seq(Message)
      /\ pc # "run" => job = Nothing
      /\ todo # <<>> => pc = "post"
      /\ todo \in UartRequests
  BY DEF TaskInv, TimerControl
<1>3. ~lost
  BY <1>1 DEF Next, vars, Thread, TaskStep, PortStep, OsTick, Fetch, PostCallback, RxIsr,
              Request, Requested, RunRx, RunUartTimer, Send, SendWaits, Sent, SentFlow, RunApp, Calm,
              RxCallback
<1>4. PICK none \in BOOLEAN : none = None(tmo)
  BY DEF None
<1>5. PICK none2 \in BOOLEAN : none2 = None(tmo')
  BY DEF None
<1>6. One(tmo) /\ Good(job, mbox, none) /\ (todo = <<Add(Uart)>> => Ready(job, mbox))
  BY <1>3, <1>4 DEF TimerInv
<1>7. SUFFICES /\ One(tmo')
               /\ Good(job', mbox', none2)
               /\ todo' = <<Add(Uart)>> => Ready(job', mbox')
  BY <1>5
<1>8. <<Add(Uart)>> # <<>> /\ <<Add(Uart)>> # <<Del(Uart)>> /\ <<Add(Uart)>> # Restart(Uart)
      /\ \A h \in App : <<Add(Uart)>> # <<Add(h)>> /\ <<Add(Uart)>> # <<Del(h)>>
  BY Kinds DEF Restart, App
<1>idle. ASSUME UNCHANGED <<tmo, mbox>>, job' = Nothing, job # Add(Uart), job # Del(Uart),
                todo' # <<Add(Uart)>>
         PROVE  /\ One(tmo')
                /\ Good(job', mbox', none2)
                /\ todo' = <<Add(Uart)>> => Ready(job', mbox')
  <2>1. none2 = none
    BY <1>4, <1>5, <1>idle
  <2>2. Good(Nothing, mbox, none)
    BY <1>2, <1>6, <1>idle, GoodStep, Kinds
  <2> QED
    BY <1>6, <1>idle, <2>1, <2>2
<1>post. ASSUME NEW x \in Message, x # Add(Uart), Posted(x), UNCHANGED <<tmo, job, todo>>
         PROVE  /\ One(tmo')
                /\ Good(job', mbox', none2)
                /\ todo' = <<Add(Uart)>> => Ready(job', mbox')
  <2>1. none2 = none
    BY <1>4, <1>5, <1>post
  <2>2. Good(job, Append(mbox, x), none)
    BY <1>2, <1>6, <1>post, GoodAppend
  <2>3. Ready(job, mbox) => Ready(job, Append(mbox, x))
    BY <1>2, <1>post, ReadyAppend
  <2> QED
    BY <1>6, <1>post, <2>1, <2>2, <2>3 DEF Posted
<1>same. ASSUME UNCHANGED <<tmo, mbox, job, todo>>
         PROVE  /\ One(tmo')
                /\ Good(job', mbox', none2)
                /\ todo' = <<Add(Uart)>> => Ready(job', mbox')
  BY <1>4, <1>5, <1>6, <1>same
<1>then. ASSUME NEW r, r # <<Add(Uart)>>, NEW a, Then(r, a), UNCHANGED <<tmo, mbox>>,
                job # Add(Uart), job # Del(Uart)
         PROVE  /\ One(tmo')
                /\ Good(job', mbox', none2)
                /\ todo' = <<Add(Uart)>> => Ready(job', mbox')
  BY <1>idle, <1>then DEF Then
<1>9. job = Nothing => job # Add(Uart) /\ job # Del(Uart)
  BY Kinds
<1>10. CASE UNCHANGED vars \/ (Fetch /\ UNCHANGED <<portVars, sendVars, lost>>)
  BY <1>10, <1>same DEF vars, taskVars, Fetch
<1>11. ASSUME Receive, UNCHANGED <<portVars, sendVars, lost>>
       PROVE  /\ One(tmo')
              /\ Good(job', mbox', none2)
              /\ todo' = <<Add(Uart)>> => Ready(job', mbox')
  <2>1. job = Nothing /\ todo = <<>> /\ mbox # <<>>
    BY <1>2, <1>11 DEF Receive
  <2>2. One(tmo') /\ (none => none2)
    <3>1. CASE tmo = <<>>
      BY <1>4, <1>5, <1>6, <1>11, <3>1 DEF Receive, Waited
    <3>2. CASE tmo # <<>>
      <4>1. PICK d \in 0 .. tmo[1].time : Waited(tmo) = Less(tmo, d)
        BY <3>2, WaitedList
      <4>2. /\ Len(tmo') = Len(tmo)
            /\ \A k \in 1 .. Len(tmo) : tmo'[k].h = tmo[k].h
        BY <1>2, <1>11, <3>2, <4>1, WaitedPoints DEF Receive
      <4> QED
        BY <1>4, <1>5, <1>6, <4>2, SameHandlers
    <3> QED
      BY <3>1, <3>2
  <2>3. Good(Nothing, mbox, none2)
    BY <1>2, <1>6, <2>1, <2>2, GoodStep, Kinds
  <2>4. Good(Head(mbox), Tail(mbox), none2)
    BY <1>2, <2>1, <2>3, GoodTake
  <2> QED
    BY <1>8, <1>11, <2>1, <2>2, <2>4 DEF Receive
<1>12. ASSUME Fire, UNCHANGED <<portVars, sendVars, lost>>
       PROVE  /\ One(tmo')
              /\ Good(job', mbox', none2)
              /\ todo' = <<Add(Uart)>> => Ready(job', mbox')
  <2>1. job = Nothing /\ todo = <<>> /\ tmo # <<>> /\ mbox' = mbox
    BY <1>2, <1>12 DEF Fire
  <2>2. /\ Len(tmo') = Len(tmo) - 1
        /\ \A k \in 1 .. Len(tmo) - 1 : tmo'[k].h = tmo[k + 1].h
    <3>1. tmo' = Fired(tmo)
      BY <1>12 DEF Fire, Fired
    <3> QED
      BY <1>2, <2>1, <3>1, FirePoints, Zenon
  <2>3. PICK n \in Nat : n = Len(tmo)
    BY <1>2
  <2>4. One(tmo') /\ (none => none2)
    <3>1. \A k \in 1 .. n - 1 : k + 1 \in 1 .. n
      OBVIOUS
    <3>2. One(tmo')
      <4>1. ASSUME NEW j \in 1 .. n - 1, NEW k \in 1 .. n - 1, tmo'[j].h = Uart, tmo'[k].h = Uart
            PROVE  j = k
        <5>1. j + 1 = k + 1
          BY <1>6, <2>2, <2>3, <3>1, <4>1 DEF One
        <5> QED
          BY <5>1
      <4> QED
        BY <2>2, <2>3, <4>1 DEF One
    <3>3. none => none2
      BY <1>4, <1>5, <2>2, <2>3, <3>1 DEF None
    <3> QED
      BY <3>2, <3>3
  <2>5. job' # Add(Uart)
    BY <1>12 DEF Fire, Add
  <2>6. Good(job', mbox, none2)
    BY <1>2, <1>6, <2>1, <2>4, <2>5, GoodStep, Kinds
  <2> QED
    BY <1>8, <1>12, <2>1, <2>4, <2>6
<1>13. ASSUME RunTimeout, UNCHANGED <<portVars, sendVars, lost>>
       PROVE  /\ One(tmo')
              /\ Good(job', mbox', none2)
              /\ todo' = <<Add(Uart)>> => Ready(job', mbox')
  <2>1. PICK h \in Handler : h = job.h /\ job = Add(h)
    BY <1>13, JobKinds DEF RunTimeout, Runs
  <2>2. todo = <<>> /\ tmo' = Timeout(tmo, h) /\ job' = Nothing /\ mbox' = mbox
    BY <1>2, <1>13, <2>1 DEF RunTimeout, Runs
  <2>3. Add(h) # Del(Uart) /\ Nothing # Add(Uart)
    BY Kinds
  <2>4. CASE h = Uart
    <3>1. none
      BY <1>2, <1>6, <2>1, <2>4, GoodAdd
    <3>2. One(tmo')
      BY <1>2, <1>4, <2>2, <2>4, <3>1, TimeoutHandlers
    <3>3. Good(Nothing, mbox, none2)
      BY <1>2, <1>6, <2>1, <2>3, <2>4, GoodStep
    <3> QED
      BY <1>8, <1>13, <2>2, <3>2, <3>3
  <2>5. CASE h # Uart
    <3>1. One(tmo') /\ (none => none2)
      BY <1>2, <1>4, <1>5, <1>6, <2>2, <2>5, TimeoutHandlers
    <3>2. Good(Nothing, mbox, none2)
      BY <1>2, <1>6, <2>1, <2>3, <3>1, GoodStep
    <3> QED
      BY <1>8, <1>13, <2>2, <3>1, <3>2
  <2> QED
    BY <2>4, <2>5
<1>14. ASSUME RunUntimeout, UNCHANGED <<portVars, sendVars, lost>>
       PROVE  /\ One(tmo')
              /\ Good(job', mbox', none2)
              /\ todo' = <<Add(Uart)>> => Ready(job', mbox')
  <2>1. PICK h \in Handler : h = job.h /\ job = Del(h)
    BY <1>14, JobKinds DEF RunUntimeout, Runs
  <2>2. todo = <<>> /\ tmo' = Untimeout(tmo, h) /\ job' = Nothing /\ mbox' = mbox
    BY <1>2, <1>14, <2>1 DEF RunUntimeout, Runs
  <2>3. (Del(h) = Del(Uart) => h = Uart) /\ Nothing # Add(Uart)
    BY Kinds
  <2>4. One(tmo') /\ (none => none2) /\ (h = Uart => none2)
    BY <1>2, <1>4, <1>5, <1>6, <2>2, UntimeoutHandlers
  <2>5. Good(Nothing, mbox, none2)
    BY <1>2, <1>6, <2>1, <2>3, <2>4, GoodStep
  <2> QED
    BY <1>8, <1>14, <2>2, <2>4, <2>5
<1>15. ASSUME Tick, UNCHANGED <<portVars, sendVars, lost>>
       PROVE  /\ One(tmo')
              /\ Good(job', mbox', none2)
              /\ todo' = <<Add(Uart)>> => Ready(job', mbox')
  <2>1. /\ Len(tmo') = Len(tmo)
        /\ \A k \in 1 .. Len(tmo) : tmo'[k].h = tmo[k].h
    BY <1>2, <1>15, TickPoints DEF Tick, Aged
  <2>2. One(tmo') /\ (none => none2)
    BY <1>4, <1>5, <1>6, <2>1, SameHandlers
  <2>3. none = none2
    BY <1>4, <1>5, <2>1 DEF None
  <2> QED
    BY <1>6, <1>15, <2>2, <2>3 DEF Tick
<1>16. ASSUME PostCallback
       PROVE  /\ One(tmo')
              /\ Good(job', mbox', none2)
              /\ todo' = <<Add(Uart)>> => Ready(job', mbox')
  BY <1>16, <1>post, Kinds, MessageTypes DEF PostCallback
<1>17. ASSUME NEW n \in 1 .. FifoMax, RxIsr(n)
       PROVE  /\ One(tmo')
              /\ Good(job', mbox', none2)
              /\ todo' = <<Add(Uart)>> => Ready(job', mbox')
  <2>1. UNCHANGED <<tmo, job, todo>>
    BY <1>17 DEF RxIsr
  <2>2. UNCHANGED mbox \/ Posted([type |-> "static"])
    BY <1>17 DEF RxIsr, RxCallback
  <2> QED
    BY <1>post, <1>same, <2>1, <2>2, Kinds, MessageTypes
<1>18. ASSUME Request
       PROVE  /\ One(tmo')
              /\ Good(job', mbox', none2)
              /\ todo' = <<Add(Uart)>> => Ready(job', mbox')
  <2>1. /\ todo # <<>> /\ todo' = Tail(todo) /\ Posted(Head(todo))
        /\ UNCHANGED <<tmo, job>>
    BY <1>1, <1>18 DEF Request
  <2>2. PICK x : x = Head(todo)
    OBVIOUS
  <2>3. x \in Message
    BY <2>1, <2>2 DEF TaskInv
  <2>4. /\ x = Add(Uart) => todo = <<Add(Uart)>>
        /\ Tail(todo) = <<Add(Uart)>> => x = Del(Uart)
    BY <1>2, <2>1, <2>2, RequestKinds
  <2>5. none2 = none
    BY <1>4, <1>5, <2>1
  <2>6. mbox' = Append(mbox, x)
    BY <2>1, <2>2 DEF Posted
  <2>7. Good(job, Append(mbox, x), none)
    BY <1>2, <1>6, <2>3, <2>4, GoodAppend
  <2>8. x = Del(Uart) => Ready(job, Append(mbox, x))
    BY <1>2, <2>3, ReadyAppend
  <2> QED
    BY <1>6, <2>1, <2>4, <2>5, <2>6, <2>7, <2>8
<1>19. ASSUME Requested \/ Send
       PROVE  /\ One(tmo')
              /\ Good(job', mbox', none2)
              /\ todo' = <<Add(Uart)>> => Ready(job', mbox')
  BY <1>19, <1>same DEF Requested, Send, Calm
<1>20. ASSUME RunRx
       PROVE  /\ One(tmo')
              /\ Good(job', mbox', none2)
              /\ todo' = <<Add(Uart)>> => Ready(job', mbox')
  <2>1. UNCHANGED <<tmo, mbox>> /\ job.type = "static"
    BY <1>20 DEF RunRx, Calm, Runs
  <2>2. Then(<<Del(Uart)>>, "send") \/ Then(Restart(Uart), "again")
    BY <1>20 DEF RunRx
  <2> QED
    BY <1>8, <1>then, <2>1, <2>2, JobKinds
<1>21. ASSUME RunUartTimer
       PROVE  /\ One(tmo')
              /\ Good(job', mbox', none2)
              /\ todo' = <<Add(Uart)>> => Ready(job', mbox')
  <2>1. UNCHANGED <<tmo, mbox>> /\ job.type = "timer" /\ job' = Nothing /\ todo' = todo /\ todo = <<>>
    BY <1>2, <1>21 DEF RunUartTimer, Calm, Runs
  <2> QED
    BY <1>8, <1>idle, <2>1, JobKinds
<1>22. ASSUME SendWaits
       PROVE  /\ One(tmo')
              /\ Good(job', mbox', none2)
              /\ todo' = <<Add(Uart)>> => Ready(job', mbox')
  <2>1. UNCHANGED <<tmo, mbox>> /\ job = Nothing
    BY <1>2, <1>22 DEF SendWaits, Calm
  <2>2. Then(Restart(Uart), "again") \/ UNCHANGED <<job, todo>>
    BY <1>22 DEF SendWaits
  <2> QED
    BY <1>8, <1>9, <1>same, <1>then, <2>1, <2>2
<1>23. ASSUME Sent
       PROVE  /\ One(tmo')
              /\ Good(job', mbox', none2)
              /\ todo' = <<Add(Uart)>> => Ready(job', mbox')
  <2>1. UNCHANGED <<tmo, mbox>> /\ job = Nothing
    BY <1>2, <1>23 DEF Sent, Calm
  <2>2. \/ UNCHANGED <<job, todo>>
        \/ \E r \in {Restart(Uart), <<>>}, a \in {"fc", "again"} : Then(r, a)
    BY <1>23 DEF Sent
  <2> QED
    BY <1>8, <1>9, <1>same, <1>then, <2>1, <2>2
<1>24. ASSUME SentFlow
       PROVE  /\ One(tmo')
              /\ Good(job', mbox', none2)
              /\ todo' = <<Add(Uart)>> => Ready(job', mbox')
  <2>1. UNCHANGED <<tmo, mbox>> /\ job = Nothing
    BY <1>2, <1>24 DEF SentFlow, Calm
  <2>2. \E r \in {Restart(Uart), <<>>} : Then(r, "again")
    BY <1>24 DEF SentFlow
  <2> QED
    BY <1>8, <1>9, <1>then, <2>1, <2>2
<1>25. ASSUME RunApp
       PROVE  /\ One(tmo')
              /\ Good(job', mbox', none2)
              /\ todo' = <<Add(Uart)>> => Ready(job', mbox')
  <2>1. UNCHANGED <<tmo, mbox>> /\ job.type \in {"callback", "timer"}
    BY <1>25 DEF RunApp, Calm, Runs
  <2>2. PICK r \in AppRequests : Then(r, "again")
    BY <1>25 DEF RunApp
  <2>3. r # <<Add(Uart)>>
    BY <1>8 DEF AppRequests
  <2> QED
    BY <1>then, <2>1, <2>2, <2>3, JobKinds
<1> QED
  BY <1>10, <1>11, <1>12, <1>13, <1>14, <1>15, <1>16, <1>17, <1>18, <1>19, <1>20, <1>21, <1>22,
     <1>23, <1>24, <1>25
  DEF Next, Thread, TaskStep, PortStep, OsTick

\* The receive timer is never armed twice, whatever an application asks of the
\* task between its cancellation and its start and however the mailbox mixes
\* them: for any handlers, times and sizes, unless a request has been lost.
THEOREM OneTimerArmed == Spec => []OneUartTimer
<1>1. Init => TimerControl /\ TimerInv
  BY Kinds DEF Init, TaskInit, TimerControl, TimerInv, UartRequests, One, None, Good, Item
<1>2. TaskInv /\ TaskInv' /\ TimerControl /\ TimerInv /\ [Next]_vars => (TimerControl /\ TimerInv)'
  BY TimerControlNext, TimerInvNext
<1>3. TaskInv /\ TimerInv => OneUartTimer
  BY DEF TaskInv, TimerInv, OneUartTimer, One
<1> QED
  BY <1>1, <1>2, <1>3, TaskInvariant, PTL DEF Spec

-----------------------------------------------------------------------------
(* The ring. *)

Slots == 0 .. Size - 1
Bytes == 0 .. load.bytes

RingTypes ==
    /\ load \in Load /\ load.bytes \in Nat
    /\ rxOn \in BOOLEAN
    /\ buf \in [Slots -> Bytes]
    /\ head \in Slots /\ tail \in Slots /\ count \in Slots
    /\ rx \in Bytes /\ out \in Seq(Bytes)
    /\ errors \in 0 .. MaxErrors
    /\ overrun \in BOOLEAN /\ lost \in BOOLEAN

\* Where the k-th byte from t on is.
Slot(t, k) == (t + k - 1) % Size

\* Bytes that are with the socket and also still in the ring.
Sending == IF pc = "sent" THEN Buflen ELSE 0

\* What uart_net_send is about to send is in the ring; the socket has the first
\* bytes that arrived and the ring holds the next ones.
RingInv ==
    ~overrun =>
       /\ pc \in {"send", "sent"} \/ after = "send" => count <= CircCnt(head, tail)
       /\ Len(out) - Sending + CircCnt(head, tail) = rx
       /\ \A k \in 1 .. Len(out) : out[k] = k
       /\ \A k \in 1 .. CircCnt(head, tail) : buf[Slot(tail, k)] = Len(out) - Sending + k

LEMMA Sizes ==
    /\ Size \in Nat \ {0} /\ NetSize \in Nat \ {0}
    /\ CacheLimit \in 1 .. Size /\ FifoMax \in 1 .. CacheLimit
    /\ MaxErrors \in Nat /\ Start \in Slots
  BY TransModeAssumption DEF Slots

LEMMA ModSize ==
    ASSUME NEW x \in Int
    PROVE  /\ x % Size \in Slots
           /\ x \in 0 - Size .. 0 - 1 => x % Size = x + Size
           /\ x \in Slots => x % Size = x
           /\ x \in Size .. 2 * Size - 1 => x % Size = x - Size
<1>1. Size \in Nat \ {0}
  BY Sizes
<1>2. x % Size \in 0 .. Size - 1
  BY <1>1
<1>3. ASSUME x \in 0 - Size .. 0 - 1 PROVE x % Size = x + Size
  BY <1>1, <1>3
<1>4. ASSUME x \in 0 .. Size - 1 PROVE x % Size = x
  BY <1>1, <1>4
<1>5. ASSUME x \in Size .. 2 * Size - 1 PROVE x % Size = x - Size
  BY <1>1, <1>5
<1> QED
  BY <1>2, <1>3, <1>4, <1>5 DEF Slots

\* CIRC_CNT.
LEMMA CircCntIs ==
    ASSUME NEW h \in Slots, NEW t \in Slots
    PROVE  /\ CircCnt(h, t) \in Slots
           /\ CircCnt(h, t) = IF t <= h THEN h - t ELSE h - t + Size
<1>1. Size \in Nat \ {0} /\ h \in Int /\ t \in Int
  BY Sizes DEF Slots
<1>2. h - t \in Int /\ (t <= h => h - t \in Slots) /\ (t > h => h - t \in 0 - Size .. 0 - 1)
  BY <1>1 DEF Slots
<1> QED
  BY <1>1, <1>2, ModSize DEF CircCnt

LEMMA SlotIs ==
    ASSUME NEW t \in Slots, NEW k \in 1 .. Size
    PROVE  /\ Slot(t, k) \in Slots
           /\ Slot(t, k) = IF t + k - 1 < Size THEN t + k - 1 ELSE t + k - 1 - Size
<1>1. Size \in Nat \ {0} /\ t \in Int /\ k \in Int
  BY Sizes DEF Slots
<1>2. t + k - 1 \in Int /\ (t + k - 1 < Size => t + k - 1 \in Slots)
      /\ (~(t + k - 1 < Size) => t + k - 1 \in Size .. 2 * Size - 1)
  BY <1>1 DEF Slots
<1> QED
  BY <1>1, <1>2, ModSize DEF Slot

\* The tail moves on over the first b bytes.
LEMMA RingDrop ==
    ASSUME NEW h \in Slots, NEW t \in Slots, NEW b \in 0 .. CircCnt(h, t),
           NEW u, u = (t + b) % Size
    PROVE  /\ u \in Slots
           /\ CircCnt(h, u) = CircCnt(h, t) - b
           /\ \A k \in 1 .. CircCnt(h, t) - b : Slot(u, k) = Slot(t, b + k)
<1>1. Size \in Nat \ {0} /\ h \in 0 .. Size - 1 /\ t \in 0 .. Size - 1
  BY Sizes DEF Slots
<1>2. PICK c : c = CircCnt(h, t)
  OBVIOUS
<1>3. c \in 0 .. Size - 1 /\ c = IF t <= h THEN h - t ELSE h - t + Size
  BY <1>2, CircCntIs DEF Slots
<1>4. b \in 0 .. c
  BY <1>2
<1>5. u \in 0 .. Size - 1 /\ u = IF t + b < Size THEN t + b ELSE t + b - Size
  <2>1. PICK x \in Int : x = t + b
    BY <1>1, <1>3, <1>4
  <2>2. x < Size => x \in Slots
    BY <1>1, <1>3, <1>4, <2>1 DEF Slots
  <2>3. ~(x < Size) => x \in Size .. 2 * Size - 1
    BY <1>1, <1>3, <1>4, <2>1
  <2>4. u = x % Size
    BY <2>1
  <2>5. u \in Slots /\ u = IF x < Size THEN x ELSE x - Size
    BY <2>2, <2>3, <2>4, ModSize
  <2> QED
    BY <1>1, <1>3, <1>4, <2>1, <2>5 DEF Slots
<1>6. u \in Slots
  BY <1>5 DEF Slots
<1>7. CircCnt(h, u) = IF u <= h THEN h - u ELSE h - u + Size
  BY <1>6, CircCntIs
<1>8. CircCnt(h, u) = c - b
  BY <1>1, <1>3, <1>4, <1>5, <1>7
<1>9. ASSUME NEW k \in 1 .. c - b PROVE Slot(u, k) = Slot(t, b + k)
  <2>1. k \in 1 .. Size /\ b + k \in 1 .. Size
    BY <1>1, <1>3, <1>4
  <2>2. Slot(u, k) = IF u + k - 1 < Size THEN u + k - 1 ELSE u + k - 1 - Size
    BY <1>6, <2>1, SlotIs
  <2>3. Slot(t, b + k) = IF t + (b + k) - 1 < Size THEN t + (b + k) - 1 ELSE t + (b + k) - 1 - Size
    BY <2>1, SlotIs
  <2> QED
    BY <1>1, <1>3, <1>4, <1>5, <2>1, <2>2, <2>3
<1> QED
  BY <1>2, <1>6, <1>8, <1>9

\* The head moves on by n bytes for which there is room.
LEMMA RingFill ==
    ASSUME NEW h \in Slots, NEW t \in Slots, NEW n \in Nat \ {0}, CircCnt(h, t) + n < Size,
           NEW g, g = (h + n) % Size
    PROVE  /\ g \in Slots
           /\ CircCnt(g, t) = CircCnt(h, t) + n
           /\ \A k \in 1 .. CircCnt(h, t) : CircCnt(Slot(t, k), h) >= n
           /\ \A k \in CircCnt(h, t) + 1 .. CircCnt(h, t) + n :
                 CircCnt(Slot(t, k), h) = k - 1 - CircCnt(h, t)
<1>1. Size \in Nat \ {0} /\ h \in 0 .. Size - 1 /\ t \in 0 .. Size - 1
  BY Sizes DEF Slots
<1>2. PICK c : c = CircCnt(h, t)
  OBVIOUS
<1>3. c \in 0 .. Size - 1 /\ c = (IF t <= h THEN h - t ELSE h - t + Size) /\ c + n < Size
  BY <1>2, CircCntIs DEF Slots
<1>4. g \in 0 .. Size - 1 /\ g = IF h + n < Size THEN h + n ELSE h + n - Size
  <2>1. PICK x \in Int : x = h + n
    BY <1>1
  <2>2. x < Size => x \in Slots
    BY <1>1, <1>3, <2>1 DEF Slots
  <2>3. ~(x < Size) => x \in Size .. 2 * Size - 1
    BY <1>1, <1>3, <2>1
  <2>4. g = x % Size
    BY <2>1
  <2>5. g \in Slots /\ g = IF x < Size THEN x ELSE x - Size
    BY <2>2, <2>3, <2>4, ModSize
  <2> QED
    BY <1>1, <1>3, <2>1, <2>5 DEF Slots
<1>5. g \in Slots
  BY <1>4 DEF Slots
<1>6. CircCnt(g, t) = IF t <= g THEN g - t ELSE g - t + Size
  BY <1>5, CircCntIs
<1>7. CircCnt(g, t) = c + n
  BY <1>1, <1>3, <1>4, <1>6
<1>8. ASSUME NEW k \in 1 .. c + n
      PROVE  CircCnt(Slot(t, k), h) = IF k <= c THEN k - 1 - c + Size ELSE k - 1 - c
  <2>1. k \in 1 .. Size
    BY <1>1, <1>3
  <2>2. PICK s : s = Slot(t, k)
    OBVIOUS
  <2>3. s \in Slots /\ s = IF t + k - 1 < Size THEN t + k - 1 ELSE t + k - 1 - Size
    BY <2>1, <2>2, SlotIs
  <2>4. CircCnt(s, h) = IF h <= s THEN s - h ELSE s - h + Size
    BY <2>3, CircCntIs
  <2>5. s \in 0 .. Size - 1
    BY <2>3 DEF Slots
  <2> QED
    BY <1>1, <1>3, <2>1, <2>2, <2>3, <2>4, <2>5
<1>9. ASSUME NEW k \in 1 .. c PROVE CircCnt(Slot(t, k), h) >= n
  <2>1. k \in 1 .. c + n
    BY <1>3
  <2>2. CircCnt(Slot(t, k), h) = k - 1 - c + Size
    BY <1>8, <2>1
  <2> QED
    BY <1>1, <1>3, <2>2
<1>10. ASSUME NEW k \in c + 1 .. c + n PROVE CircCnt(Slot(t, k), h) = k - 1 - c
  <2>1. k \in 1 .. c + n /\ ~(k <= c)
    BY <1>3
  <2> QED
    BY <1>8, <2>1
<1> QED
  BY <1>2, <1>5, <1>7, <1>9, <1>10

LEMMA BuflenIs ==
    ASSUME RingTypes
    PROVE  Buflen \in 0 .. count /\ (count > 0 => Buflen > 0) /\ Buflen \in Slots
           /\ count - Buflen \in Slots
<1>1. count \in 0 .. Size - 1 /\ Size \in Nat \ {0} /\ NetSize \in Nat \ {0}
  BY Sizes DEF RingTypes, Slots
<1> QED
  BY <1>1 DEF Buflen, Slots

\* What uart_net_send reads.
Read == [k \in 1 .. Buflen |-> buf[Slot(tail, k)]]

LEMMA ReadIs ==
    ASSUME RingTypes
    PROVE  /\ Read \in Seq(Bytes) /\ Len(Read) = Buflen
           /\ \A k \in 1 .. Buflen : Read[k] = buf[Slot(tail, k)]
<1>1. PICK b \in Nat : b = Buflen /\ b < Size
  BY BuflenIs, Sizes DEF Slots
<1>2. ASSUME NEW k \in 1 .. b PROVE buf[Slot(tail, k)] \in Bytes
  <2>1. k \in 1 .. Size /\ tail \in Slots
    BY <1>1, Sizes DEF RingTypes
  <2>2. Slot(tail, k) \in Slots
    BY <2>1, SlotIs
  <2> QED
    BY <2>2 DEF RingTypes
<1>3. Read = [k \in 1 .. b |-> buf[Slot(tail, k)]]
  BY <1>1 DEF Read
<1> QED
  BY <1>1, <1>2, <1>3

LEMMA RingTypesNext ==
    ASSUME RingTypes, [Next]_vars
    PROVE  RingTypes'
<1> USE DEF portVars, sendVars
<1>1. 0 \in Slots
  BY Sizes DEF Slots
<1>2. 0 \in Slots /\ CircCnt(head, tail) \in Slots
  BY <1>1, CircCntIs DEF RingTypes
<1>3. CASE UNCHANGED vars
  BY <1>3 DEF vars, RingTypes, Bytes
<1>4. CASE UNCHANGED <<portVars, sendVars, lost>>
  BY <1>4 DEF RingTypes, Bytes
<1>5. CASE PostCallback \/ Requested
  BY <1>5 DEF PostCallback, Requested, RingTypes, Bytes
<1>6. ASSUME NEW n \in 1 .. FifoMax, RxIsr(n) PROVE RingTypes'
  <2>1. rx \in Nat /\ load.bytes \in Nat /\ rx + n <= load.bytes /\ n \in Nat /\ head \in Int /\ tail \in Int
    BY <1>6, Sizes DEF RxIsr, RingTypes, Bytes, Slots
  <2>2. load' = load /\ Bytes' = Bytes
    BY <1>6 DEF RxIsr, Bytes
  <2>3. rx' \in Bytes
    BY <1>6, <2>1 DEF RxIsr, Bytes
  <2>4. head' \in Slots
    <3>1. PICK x \in Int : x = head + n
      BY <2>1
    <3>2. head' = x % Size
      BY <1>6, <3>1 DEF RxIsr
    <3> QED
      BY <3>2, ModSize
  <2>5. tail' \in Slots
    <3>1. PICK x \in Int : x = tail + CacheLimit
      BY <2>1, Sizes
    <3>2. tail' = x % Size \/ tail' = tail
      BY <1>6, <3>1 DEF RxIsr
    <3> QED
      BY <3>2, ModSize DEF RingTypes
  <2>6. buf' \in [Slots -> Bytes]
    <3>1. buf \in [Slots -> Bytes] /\ DOMAIN buf = Slots
      BY DEF RingTypes
    <3>2. ASSUME NEW i \in Slots
          PROVE  (IF CircCnt(i, head) < n THEN rx + 1 + CircCnt(i, head) ELSE buf[i]) \in Bytes
      <4>1. CircCnt(i, head) \in Slots
        BY CircCntIs DEF RingTypes
      <4>2. CircCnt(i, head) \in Nat
        BY <4>1, Sizes DEF Slots
      <4>3. CircCnt(i, head) < n => rx + 1 + CircCnt(i, head) \in Bytes
        BY <2>1, <4>2 DEF Bytes
      <4> QED
        BY <3>1, <4>3
    <3>3. buf' = [i \in Slots |->
                    IF CircCnt(i, head) < n THEN rx + 1 + CircCnt(i, head) ELSE buf[i]]
      BY <1>6, <3>1 DEF RxIsr
    <3> QED
      BY <3>2, <3>3
  <2>7. overrun' \in BOOLEAN /\ lost' \in BOOLEAN
    BY <1>6 DEF RxIsr, RxCallback, RingTypes
  <2> QED
    BY <1>6, <2>2, <2>3, <2>4, <2>5, <2>6, <2>7 DEF RxIsr, RingTypes
<1>7. CASE Request
  BY <1>7 DEF Request, RingTypes, Bytes
<1>8. CASE RunRx
  <2>1. count' \in Slots
    BY <1>2, <1>8 DEF RunRx
  <2> QED
    BY <1>8, <2>1 DEF RunRx, Calm, RingTypes, Bytes
<1>9. CASE RunUartTimer
  BY <1>2, <1>9 DEF RunUartTimer, Calm, RingTypes, Bytes
<1>10. CASE Send
  <2>1. out' = out \o Read
    BY <1>10 DEF Send, Read, Slot
  <2>2. out' \in Seq(Bytes)
    BY <2>1, ReadIs DEF RingTypes
  <2> QED
    BY <1>10, <2>2 DEF Send, Calm, RingTypes, Bytes
<1>11. CASE SendWaits
  <2>1. errors' \in 0 .. MaxErrors
    BY <1>11, Sizes DEF SendWaits, RingTypes
  <2>2. count' \in Slots /\ rxOn' \in BOOLEAN
    BY <1>2, <1>11 DEF SendWaits, RingTypes
  <2> QED
    BY <1>11, <2>1, <2>2 DEF SendWaits, Calm, RingTypes, Bytes
<1>12. CASE Sent
  <2>1. PICK x \in Int : x = tail + Buflen
    BY BuflenIs, Sizes DEF RingTypes, Slots
  <2>2. tail' \in Slots
    BY <1>12, <2>1, ModSize DEF Sent
  <2>3. count' \in Slots
    BY <1>2, <1>12, BuflenIs DEF Sent
  <2> QED
    BY <1>12, <2>2, <2>3 DEF Sent, Calm, RingTypes, Bytes
<1>13. CASE SentFlow
  <2>1. rxOn' \in BOOLEAN
    BY <1>13 DEF SentFlow, RingTypes
  <2> QED
    BY <1>13, <2>1 DEF SentFlow, Calm, RingTypes, Bytes
<1>14. CASE RunApp
  BY <1>14 DEF RunApp, Calm, RingTypes, Bytes
<1> QED
  BY <1>3, <1>4, <1>5, <1>6, <1>7, <1>8, <1>9, <1>10, <1>11, <1>12, <1>13, <1>14
  DEF Next, Thread, PortStep, OsTick

LEMMA RingInvNext ==
    ASSUME TaskInv, RingTypes, RingTypes', RingInv, [Next]_vars
    PROVE  RingInv'
<1> USE DEF portVars, sendVars
<1>1. SUFFICES ASSUME ~overrun' PROVE RingInv'
  BY DEF RingInv
<1>2. ~overrun
  BY <1>1 DEF Next, vars, Thread, PortStep, OsTick, PostCallback, RxIsr,
              Request, Requested, RunRx, RunUartTimer, Send, SendWaits, Sent, SentFlow, RunApp, Calm
<1>3. PICK c \in Slots : c = CircCnt(head, tail)
  BY CircCntIs DEF RingTypes
<1>4. PICK l \in Nat : l = Len(out)
  BY DEF RingTypes
<1>5. PICK s \in Nat : s = Sending
  BY BuflenIs, Sizes DEF Sending, Slots
<1>6. /\ pc \in {"send", "sent"} \/ after = "send" => count <= c
      /\ l - s + c = rx
      /\ \A k \in 1 .. l : out[k] = k
      /\ \A k \in 1 .. c : buf[Slot(tail, k)] = l - s + k
  BY <1>2, <1>3, <1>4, <1>5 DEF RingInv
<1>7. c \in Nat /\ c < Size /\ Size \in Nat
  BY Sizes DEF Slots
<1>8. ASSUME NEW cn, cn = CircCnt(head', tail'), NEW sn, sn = Sending', out' = out,
             pc' \in {"send", "sent"} \/ after' = "send" => count' <= cn,
             l - sn + cn = rx', \A k \in 1 .. cn : buf'[Slot(tail', k)] = l - sn + k
      PROVE  RingInv'
  BY <1>4, <1>6, <1>8 DEF RingInv
\* Nothing of the ring changes.
<1>9. ASSUME UNCHANGED <<buf, head, tail, rx, out>>, pc # "sent", pc' # "sent",
             pc' = "send" \/ after' = "send" => count' <= c
      PROVE  RingInv'
  <2>1. s = 0 /\ Sending' = 0
    BY <1>5, <1>9 DEF Sending
  <2> QED
    BY <1>3, <1>6, <1>8, <1>9, <2>1
<1>10. CASE UNCHANGED <<pc, buf, head, tail, rx, out, count, after>>
  <2>1. Sending' = s
    BY <1>5, <1>10 DEF Sending, Buflen
  <2> QED
    BY <1>3, <1>6, <1>8, <1>10, <2>1
<1>11. CASE TaskStep /\ UNCHANGED <<portVars, sendVars, lost>>
  <2>1. pc \notin {"send", "sent"} /\ pc' \notin {"send", "sent"}
    BY <1>11 DEF TaskStep, Fetch, Receive, Fire, RunTimeout, RunUntimeout, Runs
  <2> QED
    BY <1>6, <1>9, <1>11, <2>1
<1>12. ASSUME NEW n \in 1 .. FifoMax, RxIsr(n) PROVE RingInv'
  <2>1. CircSpace(head, tail) > CacheLimit /\ tail' = tail
    <3>1. ~(CircSpace(head, tail) <= CacheLimit)
      BY <1>1, <1>12 DEF RxIsr
    <3>2. CircSpace(head, tail) \in Int /\ CacheLimit \in Int
      <4>1. PICK x \in Int : x = tail - (head + 1)
        BY Sizes DEF RingTypes, Slots
      <4>2. CircSpace(head, tail) = x % Size
        BY <4>1 DEF CircSpace, CircCnt
      <4>3. x % Size \in Slots
        BY ModSize
      <4> QED
        BY <4>2, <4>3, Sizes DEF Slots
    <3> QED
      BY <1>12, <3>1, <3>2 DEF RxIsr
  <2>2. n \in Nat \ {0} /\ n <= CacheLimit /\ CacheLimit \in Nat
    BY Sizes
  <2>3. CircSpace(head, tail) = Size - 1 - c
    <3>1. PICK h \in Int, t \in Int : h = head /\ t = tail /\ h \in 0 .. Size - 1 /\ t \in 0 .. Size - 1
      BY Sizes DEF RingTypes, Slots
    <3>2. c = IF t <= h THEN h - t ELSE h - t + Size
      BY <1>3, <3>1, CircCntIs DEF RingTypes
    <3>3. PICK x \in Int : x = t - (h + 1)
      OBVIOUS
    <3>4. CircSpace(head, tail) = x % Size
      BY <3>1, <3>3 DEF CircSpace, CircCnt
    <3>5. t <= h => x \in 0 - Size .. 0 - 1
      BY <1>7, <3>1, <3>3
    <3>6. ~(t <= h) => x \in Slots
      BY <1>7, <3>1, <3>3 DEF Slots
    <3> QED
      BY <1>7, <3>1, <3>2, <3>3, <3>4, <3>5, <3>6, ModSize
  <2>4. c + n < Size
    BY <1>7, <2>1, <2>2, <2>3
  <2>5. head' = (head + n) % Size
    BY <1>12 DEF RxIsr
  <2>6. /\ CircCnt(head', tail') = c + n
        /\ \A k \in 1 .. c : CircCnt(Slot(tail, k), head) >= n
        /\ \A k \in c + 1 .. c + n : CircCnt(Slot(tail, k), head) = k - 1 - c
    <3>1. head \in Slots /\ tail \in Slots /\ CircCnt(head, tail) + n < Size
      BY <1>3, <2>4 DEF RingTypes
    <3>2. CircCnt(head', tail) = c + n
      BY <1>3, <2>2, <2>5, <3>1, RingFill
    <3>3. \A k \in 1 .. c : CircCnt(Slot(tail, k), head) >= n
      BY <1>3, <2>2, <2>5, <3>1, RingFill
    <3>4. \A k \in c + 1 .. c + n : CircCnt(Slot(tail, k), head) = k - 1 - c
      BY <1>3, <2>2, <2>5, <3>1, RingFill
    <3> QED
      BY <2>1, <3>2, <3>3, <3>4
  <2>7. out' = out /\ rx' = rx + n /\ Sending' = s /\ UNCHANGED <<pc, after, count>>
    BY <1>5, <1>12 DEF RxIsr, Sending, Buflen
  <2>8. ASSUME NEW k \in 1 .. c + n PROVE buf'[Slot(tail', k)] = l - s + k
    <3>1. k \in 1 .. Size
      BY <1>7, <2>2, <2>4
    <3>2. PICK i \in Slots : i = Slot(tail, k)
      BY <3>1, SlotIs DEF RingTypes
    <3>3. buf'[i] = IF CircCnt(i, head) < n THEN rx + 1 + CircCnt(i, head) ELSE buf[i]
      BY <1>12 DEF RxIsr, RingTypes
    <3>4. CASE k \in 1 .. c
      <4>1. CircCnt(i, head) >= n /\ CircCnt(i, head) \in Int
        BY <2>6, <3>2, <3>4, CircCntIs, Sizes DEF RingTypes, Slots
      <4>2. buf'[i] = buf[i]
        BY <2>2, <3>3, <4>1
      <4> QED
        BY <1>6, <2>1, <3>2, <3>4, <4>2
    <3>5. CASE k \in c + 1 .. c + n
      <4>1. CircCnt(i, head) = k - 1 - c
        BY <2>6, <3>2, <3>5
      <4>2. buf'[i] = rx + 1 + (k - 1 - c)
        BY <1>7, <2>2, <3>3, <3>5, <4>1
      <4> QED
        BY <1>6, <1>7, <2>1, <2>2, <3>2, <4>2
    <3> QED
      BY <1>7, <2>2, <3>4, <3>5
  <2>9. pc' \in {"send", "sent"} \/ after' = "send" => count' <= c + n
    <3>1. count \in Int
      BY Sizes DEF RingTypes, Slots
    <3> QED
      BY <1>6, <1>7, <2>2, <2>7, <3>1
  <2>10. l - s + (c + n) = rx'
    BY <1>6, <1>7, <2>2, <2>7
  <2> QED
    BY <1>8, <2>6, <2>7, <2>8, <2>9, <2>10
<1>13. CASE Requested
  BY <1>6, <1>9, <1>13 DEF Requested, TaskInv
<1>14. CASE RunRx
  <2>1. /\ pc # "sent" /\ pc' = "post" /\ UNCHANGED <<buf, head, tail, rx, out>>
        /\ after' = "send" => count' = c
    BY <1>3, <1>14 DEF RunRx, Runs, Then
  <2> QED
    BY <1>7, <1>9, <2>1
<1>15. CASE RunUartTimer
  <2>1. pc # "sent" /\ pc' # "sent" /\ UNCHANGED <<buf, head, tail, rx, out>> /\ count' = c
    BY <1>3, <1>15 DEF RunUartTimer, Runs
  <2> QED
    BY <1>7, <1>9, <2>1
<1>16. CASE Send
  <2>1. /\ pc = "send" /\ pc' = "sent" /\ out' = out \o Read
        /\ UNCHANGED <<buf, head, tail, rx, count, after, overrun>>
    BY <1>16 DEF Send, Read, Slot
  <2>2. PICK b \in Nat : b = Buflen
    BY BuflenIs, Sizes DEF Slots
  <2>3. s = 0 /\ Sending' = b /\ b <= c
    <3>1. b <= count /\ count <= c /\ count \in Int
      BY <1>6, <2>1, <2>2, BuflenIs, Sizes DEF RingTypes, Slots
    <3> QED
      BY <1>5, <1>7, <2>1, <2>2, <3>1 DEF Sending, Buflen
  <2>4. PICK r \in Seq(Bytes) : r = Read /\ Len(r) = b /\ \A k \in 1 .. b : r[k] = buf[Slot(tail, k)]
    BY <2>2, ReadIs
  <2>5. out \in Seq(Bytes)
    BY DEF RingTypes
  <2>6. out' = out \o r /\ Len(out \o r) = Len(out) + Len(r)
    BY <2>1, <2>4, <2>5, ConcatProperties
  <2>7. Len(out') = l + b
    BY <1>4, <2>4, <2>6
  <2>8. ASSUME NEW k \in 1 .. l + b PROVE out'[k] = k
    <3>1. CASE k \in 1 .. l
      BY <1>4, <1>6, <2>1, <2>4, <2>5, <3>1
    <3>2. CASE k \in l + 1 .. l + b
      <4>1. k - l \in 1 .. b /\ k - l \in 1 .. c
        BY <1>7, <2>3, <3>2
      <4>2. out'[k] = r[k - l]
        BY <1>4, <2>1, <2>4, <2>5, <3>2
      <4>3. r[k - l] = l - s + (k - l)
        BY <1>6, <2>4, <4>1
      <4> QED
        BY <2>3, <3>2, <4>2, <4>3
    <3> QED
      BY <3>1, <3>2
  <2>9. (l + b) - b = l - s
    BY <2>3
  <2>10. CircCnt(head', tail') = c /\ count' <= c
    BY <1>3, <1>6, <2>1
  <2>11. ASSUME NEW k \in 1 .. c PROVE buf'[Slot(tail', k)] = (l + b) - b + k
    BY <1>6, <2>1, <2>9
  <2>12. (l + b) - b + c = rx'
    BY <1>6, <2>1, <2>9
  <2> QED
    BY <2>3, <2>7, <2>8, <2>10, <2>11, <2>12 DEF RingInv
<1>17. CASE SendWaits
  <2>1. CASE UNCHANGED <<pc, after, count>>
    BY <1>10, <1>17, <2>1 DEF SendWaits, Calm
  <2>2. CASE count' = 0 /\ Then(Restart(Uart), "again")
    BY <1>7, <1>9, <1>17, <2>2 DEF SendWaits, Calm, Then
  <2> QED
    BY <1>17, <2>1, <2>2 DEF SendWaits
<1>18. CASE Sent
  <2>1. PICK b \in Nat : b = Buflen
    BY BuflenIs, Sizes DEF Slots
  <2>2. s = b /\ b \in 0 .. c /\ count \in Nat /\ count <= c /\ b <= count
    <3>1. b <= count /\ count <= c /\ count \in Nat
      BY <1>6, <1>18, <2>1, BuflenIs, Sizes DEF Sent, RingTypes, Slots
    <3> QED
      BY <1>5, <1>7, <1>18, <2>1, <3>1 DEF Sent, Sending
  <2>3. tail' = (tail + b) % Size /\ UNCHANGED <<buf, head, rx, out>>
    BY <1>18, <2>1 DEF Sent
  <2>4. /\ CircCnt(head, tail') = c - b
        /\ \A k \in 1 .. c - b : Slot(tail', k) = Slot(tail, b + k)
    BY <1>3, <2>2, <2>3, RingDrop DEF RingTypes
  <2>5. Sending' = 0 /\ pc' # "sent"
    BY <1>18 DEF Sent, Then, Sending
  <2>6. pc' = "send" \/ after' = "send" => count' <= c - b
    <3>1. count' = count - b \/ count' = 0
      BY <1>18, <2>1 DEF Sent
    <3> QED
      BY <1>7, <2>2, <3>1
  <2>7. l - 0 + (c - b) = rx'
    BY <1>6, <1>7, <2>2, <2>3
  <2>8. ASSUME NEW k \in 1 .. c - b PROVE buf'[Slot(tail', k)] = l - 0 + k
    <3>1. b + k \in 1 .. c
      BY <1>7, <2>2
    <3>2. buf[Slot(tail, b + k)] = l - s + (b + k)
      BY <1>6, <3>1
    <3> QED
      BY <1>7, <2>2, <2>3, <2>4, <3>2
  <2>9. CircCnt(head', tail') = c - b /\ out' = out
    BY <2>3, <2>4
  <2> QED
    BY <1>8, <2>5, <2>6, <2>7, <2>8, <2>9
<1>19. CASE SentFlow
  BY <1>9, <1>19 DEF SentFlow, Then
<1>20. CASE RunApp
  BY <1>9, <1>20 DEF RunApp, Then, Runs
<1>21. CASE UNCHANGED vars \/ Request \/ PostCallback \/ OsTick
  BY <1>10, <1>21 DEF vars, taskVars, Request, PostCallback, OsTick, Tick
<1> QED
  BY <1>11, <1>12, <1>13, <1>14, <1>15, <1>16, <1>17, <1>18, <1>19, <1>20, <1>21
  DEF Next, Thread, PortStep

LEMMA RingInvariant == Spec => [](RingTypes /\ RingInv)
<1>1. Init => RingTypes /\ RingInv
  <2>1. SUFFICES ASSUME Init PROVE RingTypes /\ RingInv
    OBVIOUS
  <2>2. load.bytes \in Nat
    BY <2>1, TransModeAssumption DEF Init
  <2>3. RingTypes
    <3>1. 0 \in Slots /\ 0 \in Bytes /\ 0 \in 0 .. MaxErrors /\ Start \in Slots
      BY <2>2, Sizes DEF Slots, Bytes
    <3>2. buf \in [Slots -> Bytes]
      BY <2>1, <3>1 DEF Init, Slots
    <3>3. <<>> \in Seq(Bytes)
      OBVIOUS
    <3> QED
      BY <2>1, <2>2, <3>1, <3>2, <3>3 DEF Init, RingTypes
  <2>4. CircCnt(head, tail) = 0
    <3>1. CircCnt(Start, Start) = Start - Start /\ Start \in Int
      BY CircCntIs, Sizes DEF Slots
    <3> QED
      BY <2>1, <3>1 DEF Init
  <2>5. Sending = 0 /\ Len(out) = 0 /\ rx = 0 /\ after # "send" /\ pc \notin {"send", "sent"}
    BY <2>1 DEF Init, TaskInit, Sending
  <2>6. RingInv
    BY <2>4, <2>5 DEF RingInv
  <2> QED
    BY <2>3, <2>6
<1>2. TaskInv /\ RingTypes /\ RingInv /\ [Next]_vars => (RingTypes /\ RingInv)'
  BY RingTypesNext, RingInvNext
<1> QED
  BY <1>1, <1>2, TaskInvariant, PTL DEF Spec

\* As long as the handler throws nothing away, the socket gets every byte once
\* and in the order of arrival: for any ring, packet size and point in the ring
\* to begin at, with the interrupt filling the ring between any two steps of
\* uart_net_send.
THEOREM ForwardedOnce == Spec => []ForwardedInOrder
<1>1. ASSUME RingTypes, RingInv, ~overrun
      PROVE  out \o (IF pc = "sent" THEN SubSeq(Ring, Buflen + 1, Len(Ring)) ELSE Ring) =
               [k \in 1 .. rx |-> k]
  <2>1. PICK c \in Slots : c = CircCnt(head, tail)
    BY <1>1, CircCntIs DEF RingTypes
  <2>2. c \in Nat /\ c < Size /\ Size \in Nat
    BY Sizes DEF Slots
  <2>3. PICK l \in Nat : l = Len(out)
    BY <1>1 DEF RingTypes
  <2>4. PICK s \in Nat : s = Sending
    BY <1>1, BuflenIs, Sizes DEF Sending, Slots
  <2>5. /\ l - s + c = rx
        /\ \A k \in 1 .. l : out[k] = k
        /\ \A k \in 1 .. c : buf[Slot(tail, k)] = l - s + k
        /\ s <= c
    <3>1. pc = "sent" => s = Buflen /\ Buflen <= count /\ count <= c /\ count \in Int
      BY <1>1, <2>1, <2>4, BuflenIs, Sizes DEF RingInv, RingTypes, Slots, Sending
    <3>2. s <= c
      BY <2>2, <2>4, <3>1 DEF Sending
    <3> QED
      BY <1>1, <2>1, <2>3, <2>4, <3>2 DEF RingInv
  <2>6. out \in Seq(Int)
    BY <1>1 DEF RingTypes, Bytes
  <2>7. PICK q : q = Ring
    OBVIOUS
  <2>8. q = [k \in 1 .. c |-> l - s + k]
    BY <2>1, <2>5, <2>7 DEF Ring, Slot
  <2>9. q \in Seq(Int) /\ Len(q) = c /\ \A k \in 1 .. c : q[k] = l - s + k
    BY <2>2, <2>8
  <2>10. PICK w : w = IF pc = "sent" THEN SubSeq(q, Buflen + 1, Len(q)) ELSE q
    OBVIOUS
  <2>11. w \in Seq(Int) /\ Len(w) = c - s /\ \A k \in 1 .. c - s : w[k] = l + k
    <3>1. CASE pc = "sent"
      <4>1. w = SubSeq(q, s + 1, c)
        BY <2>4, <2>9, <2>10, <3>1 DEF Sending
      <4>2. Len(w) = c - s /\ w \in Seq(Int)
        BY <2>2, <2>5, <2>9, <4>1
      <4>3. ASSUME NEW k \in 1 .. c - s PROVE w[k] = l + k
        <5>1. w[k] = q[s + k] /\ s + k \in 1 .. c
          BY <2>2, <2>5, <2>9, <4>1
        <5> QED
          BY <2>9, <5>1
      <4> QED
        BY <4>2, <4>3
    <3>2. CASE pc # "sent"
      BY <2>2, <2>4, <2>9, <2>10, <3>2 DEF Sending
    <3> QED
      BY <3>1, <3>2
  <2>12. PICK z : z = out \o w
    OBVIOUS
  <2>13. z \in Seq(Int) /\ Len(z) = rx
    <3>1. out \o w \in Seq(Int) /\ Len(out \o w) = Len(out) + Len(w)
      BY <2>6, <2>11, ConcatProperties
    <3>2. l + (c - s) = rx
      BY <2>2, <2>5
    <3> QED
      BY <2>3, <2>11, <2>12, <3>1, <3>2
  <2>14. ASSUME NEW k \in 1 .. rx PROVE z[k] = k
    <3>1. CASE k \in 1 .. l
      BY <2>3, <2>5, <2>6, <2>11, <2>12, <3>1
    <3>2. CASE k \in l + 1 .. rx
      <4>1. k - l \in 1 .. c - s
        BY <2>2, <2>5, <3>2
      <4>2. z[k] = w[k - l]
        BY <2>3, <2>5, <2>6, <2>11, <2>12, <3>2, <4>1
      <4> QED
        BY <2>11, <3>2, <4>1, <4>2
    <3> QED
      BY <3>1, <3>2
  <2>15. z = [k \in 1 .. rx |-> k]
    BY <2>13, <2>14
  <2> QED
    BY <2>7, <2>10, <2>12, <2>15
<1>2. RingTypes /\ RingInv => ForwardedInOrder
  BY <1>1 DEF ForwardedInOrder
<1> QED
  BY <1>2, RingInvariant, PTL

-----------------------------------------------------------------------------
(* The message that wakes the task. *)

Wake == [type |-> "static"]

NoWake(m, box) == \A k \in 0 .. Len(box) : Item(m, box, k) # Wake
OneWake(m, box) ==
    \A i, j \in 0 .. Len(box) : Item(m, box, i) = Wake /\ Item(m, box, j) = Wake => i = j

\* The message is in the mailbox, or at work, at most once, and not at all when
\* the counter says so.
WakeInv ==
    /\ cnt \in {0, 1}
    /\ OneWake(job, mbox)
    /\ cnt = 0 => NoWake(job, mbox)

LEMMA WakeAppend ==
    ASSUME NEW box \in Seq(Message), NEW x \in Message, NEW m
    PROVE  /\ x # Wake /\ NoWake(m, box) => NoWake(m, Append(box, x))
           /\ x # Wake /\ OneWake(m, box) => OneWake(m, Append(box, x))
           /\ NoWake(m, box) => OneWake(m, Append(box, x))
<1>1. PICK n \in Nat : n = Len(box)
  OBVIOUS
<1>2. PICK new : new = Append(box, x)
  OBVIOUS
<1>3. Len(new) = n + 1 /\ \A k \in 1 .. n : new[k] = box[k]
  BY <1>1, <1>2
<1>4. new[n + 1] = x
  BY <1>1, <1>2
<1>5. \A k \in 0 .. n : Item(m, new, k) = Item(m, box, k)
  BY <1>3 DEF Item
<1>6. Item(m, new, n + 1) = x
  BY <1>4 DEF Item
<1>7. \A k \in 0 .. n + 1 : k = n + 1 \/ k \in 0 .. n
  OBVIOUS
<1>8. ASSUME x # Wake, NoWake(m, box) PROVE NoWake(m, new)
  BY <1>1, <1>3, <1>5, <1>6, <1>7, <1>8 DEF NoWake
<1>9. ASSUME x # Wake, OneWake(m, box) PROVE OneWake(m, new)
  BY <1>1, <1>3, <1>5, <1>6, <1>7, <1>9 DEF OneWake
<1>10. ASSUME NoWake(m, box) PROVE OneWake(m, new)
  BY <1>1, <1>3, <1>5, <1>7, <1>10 DEF NoWake, OneWake
<1> QED
  BY <1>2, <1>8, <1>9, <1>10

LEMMA WakeTake ==
    ASSUME NEW box \in Seq(Message), box # <<>>
    PROVE  /\ NoWake(Nothing, box) => NoWake(Head(box), Tail(box))
           /\ OneWake(Nothing, box) => OneWake(Head(box), Tail(box))
<1>1. PICK n \in Nat : n = Len(box) /\ n >= 1
  OBVIOUS
<1>2. PICK new : new = Tail(box)
  OBVIOUS
<1>3. PICK m : m = Head(box)
  OBVIOUS
<1>4. Len(new) = n - 1 /\ m = box[1] /\ \A k \in 1 .. n - 1 : new[k] = box[k + 1]
  BY <1>1, <1>2, <1>3
<1>5. \A k \in 0 .. n - 1 : Item(m, new, k) = Item(Nothing, box, k + 1)
  BY <1>1, <1>4 DEF Item
<1>6. \A k \in 0 .. n - 1 : k + 1 \in 0 .. n
  OBVIOUS
<1>7. ASSUME NoWake(Nothing, box) PROVE NoWake(m, new)
  BY <1>1, <1>4, <1>5, <1>6, <1>7 DEF NoWake
<1>8. ASSUME OneWake(Nothing, box) PROVE OneWake(m, new)
  <2>1. ASSUME NEW i \in 0 .. n - 1, NEW j \in 0 .. n - 1, Item(m, new, i) = Wake, Item(m, new, j) = Wake
        PROVE  i = j
    <3>1. i + 1 = j + 1
      BY <1>1, <1>5, <1>6, <1>8, <2>1 DEF OneWake
    <3> QED
      BY <3>1
  <2> QED
    BY <1>4, <2>1 DEF OneWake
<1> QED
  BY <1>2, <1>3, <1>7, <1>8

LEMMA WakeStep ==
    ASSUME NEW box \in Seq(Message), NEW m, NEW next, next # Wake
    PROVE  /\ NoWake(m, box) => NoWake(next, box)
           /\ OneWake(m, box) => OneWake(next, box)
           /\ m = Wake /\ OneWake(m, box) => NoWake(next, box)
<1>1. PICK n \in Nat : n = Len(box)
  OBVIOUS
<1>2. \A k \in 1 .. n : Item(next, box, k) = Item(m, box, k)
  BY <1>1 DEF Item
<1>3. Item(m, box, 0) = m /\ Item(next, box, 0) = next
  BY DEF Item
<1>4. \A k \in 0 .. n : k = 0 \/ k \in 1 .. n
  OBVIOUS
<1>5. 0 \in 0 .. n /\ \A k \in 1 .. n : k # 0 /\ k \in 0 .. n
  OBVIOUS
<1>6. ASSUME NoWake(m, box) PROVE NoWake(next, box)
  BY <1>1, <1>2, <1>3, <1>4, <1>5, <1>6 DEF NoWake
<1>7. ASSUME OneWake(m, box) PROVE OneWake(next, box)
  BY <1>1, <1>2, <1>3, <1>4, <1>5, <1>7 DEF OneWake
<1>8. ASSUME m = Wake, OneWake(m, box) PROVE NoWake(next, box)
  BY <1>1, <1>2, <1>3, <1>4, <1>5, <1>8 DEF NoWake, OneWake
<1> QED
  BY <1>6, <1>7, <1>8

LEMMA WakeInvNext ==
    ASSUME TaskInv, TimerControl, WakeInv, [Next]_vars
    PROVE  WakeInv'
<1> USE DEF portVars, sendVars
<1>1. mbox \in Seq(Message) /\ (pc # "run" => job = Nothing) /\ todo \in UartRequests
  BY DEF TaskInv, TimerControl
<1>2. /\ Nothing # Wake /\ [type |-> "callback"] # Wake
      /\ \A h : Add(h) # Wake /\ Del(h) # Wake /\ [type |-> "timer", h |-> h] # Wake
  BY DEF Nothing, Wake, Add, Del
<1>3. job.type = "static" => job = Wake
  BY DEF TaskInv, Message, Timer, Nothing, Wake
<1>4. CASE UNCHANGED <<cnt, job, mbox>>
  BY <1>4 DEF WakeInv
<1>5. CASE UNCHANGED <<cnt, mbox>> /\ job' # Wake
  <2>1. (NoWake(job, mbox) => NoWake(job', mbox)) /\ (OneWake(job, mbox) => OneWake(job', mbox))
    BY <1>1, <1>5, WakeStep
  <2> QED
    BY <1>5, <2>1 DEF WakeInv
<1>6. ASSUME NEW x \in Message, x # Wake, Posted(x), UNCHANGED <<cnt, job>> PROVE WakeInv'
  <2>1. mbox' = Append(mbox, x)
    BY <1>6 DEF Posted
  <2>2. /\ NoWake(job, mbox) => NoWake(job, Append(mbox, x))
        /\ OneWake(job, mbox) => OneWake(job, Append(mbox, x))
    BY <1>1, <1>6, WakeAppend
  <2> QED
    BY <1>6, <2>1, <2>2 DEF WakeInv
<1>7. CASE (Fetch \/ Tick) /\ UNCHANGED <<portVars, sendVars, lost>>
  BY <1>4, <1>7 DEF Fetch, Tick
<1>8. CASE Receive /\ UNCHANGED <<portVars, sendVars, lost>>
  <2>1. job = Nothing /\ mbox # <<>> /\ job' = Head(mbox) /\ mbox' = Tail(mbox) /\ cnt' = cnt
    BY <1>1, <1>8 DEF Receive
  <2>2. /\ NoWake(Nothing, mbox) => NoWake(Head(mbox), Tail(mbox))
        /\ OneWake(Nothing, mbox) => OneWake(Head(mbox), Tail(mbox))
    BY <1>1, <2>1, WakeTake
  <2> QED
    BY <2>1, <2>2 DEF WakeInv
<1>9. CASE (Fire \/ RunTimeout \/ RunUntimeout) /\ UNCHANGED <<portVars, sendVars, lost>>
  BY <1>2, <1>5, <1>9 DEF Fire, RunTimeout, RunUntimeout
<1>10. CASE PostCallback
  BY <1>2, <1>6, <1>10, MessageTypes DEF PostCallback
<1>11. ASSUME NEW n \in 1 .. FifoMax, RxIsr(n) PROVE WakeInv'
  <2>1. job' = job
    BY <1>11 DEF RxIsr
  <2>2. CASE UNCHANGED <<mbox, cnt>>
    BY <1>4, <2>1, <2>2
  <2>3. CASE cnt = 0 /\ Posted(Wake) /\ cnt' = 1
    <3>1. mbox' = Append(mbox, Wake) /\ Wake \in Message
      BY <2>3, MessageTypes DEF Posted, Wake
    <3>2. NoWake(job, mbox)
      BY <2>3 DEF WakeInv
    <3>3. OneWake(job, Append(mbox, Wake))
      BY <1>1, <3>1, <3>2, WakeAppend
    <3> QED
      BY <2>1, <2>3, <3>1, <3>3 DEF WakeInv
  <2> QED
    BY <1>11, <2>2, <2>3 DEF RxIsr, RxCallback, Wake
<1>12. CASE Request
  <2>1. todo # <<>> /\ UNCHANGED <<cnt, job>>
    BY <1>12 DEF Request
  <2>2. CASE UNCHANGED mbox
    BY <1>4, <2>1, <2>2
  <2>3. CASE Posted(Head(todo))
    <3>1. PICK x : x = Head(todo)
      OBVIOUS
    <3>2. x \in Message
      BY <2>1, <3>1 DEF TaskInv
    <3>3. x # Wake
      BY <1>1, <1>2, <2>1, <3>1 DEF UartRequests, Restart
    <3> QED
      BY <1>6, <2>1, <2>3, <3>1, <3>2, <3>3
  <2> QED
    BY <1>12, <2>2, <2>3 DEF Request
<1>13. CASE RunRx
  <2>1. job = Wake /\ job' = Nothing /\ mbox' = mbox /\ cnt' = cnt - 1
    BY <1>3, <1>13 DEF RunRx, Runs, Then, Calm
  <2>2. cnt = 1
    <3>1. Item(job, mbox, 0) = Wake /\ 0 \in 0 .. Len(mbox)
      BY <1>1, <2>1 DEF Item
    <3> QED
      BY <3>1 DEF WakeInv, NoWake
  <2>3. NoWake(Nothing, mbox) /\ OneWake(Nothing, mbox)
    BY <1>1, <1>2, <2>1, WakeStep DEF WakeInv
  <2> QED
    BY <2>1, <2>2, <2>3 DEF WakeInv
<1>14. CASE Requested \/ Send
  BY <1>4, <1>14 DEF Requested, Send, Calm
<1>15. CASE RunUartTimer \/ RunApp \/ SentFlow
  BY <1>2, <1>5, <1>15 DEF RunUartTimer, RunApp, SentFlow, Then, Calm
<1>16. CASE SendWaits \/ Sent
  <2>1. UNCHANGED <<cnt, mbox>> /\ (job' = job \/ job' = Nothing)
    BY <1>16 DEF SendWaits, Sent, Then, Calm
  <2> QED
    BY <1>2, <1>4, <1>5, <2>1
<1>17. CASE UNCHANGED vars
  BY <1>4, <1>17 DEF vars, taskVars
<1> QED
  BY <1>7, <1>8, <1>9, <1>10, <1>11, <1>12, <1>13, <1>14, <1>15, <1>16, <1>17
  DEF Next, Thread, TaskStep, PortStep, OsTick

\* Types; with them that the counter of the wakeup message is 0 or 1 and always
\* right about the mailbox, that tls_uart1_task_rx_cb therefore never posts it
\* twice, and that the ring's indices stay in it.
THEOREM TransTypes == Spec => []TransTypeOK
<1>1. Init => TimerControl /\ WakeInv
  <2>1. Init => TimerControl
    BY DEF Init, TaskInit, TimerControl, UartRequests
  <2>2. Init => WakeInv
    BY DEF Init, TaskInit, WakeInv, OneWake, NoWake, Item, Nothing, Wake
  <2> QED
    BY <2>1, <2>2
<1>2. TaskInv /\ TimerControl /\ WakeInv /\ [Next]_vars => (TimerControl /\ WakeInv)'
  BY TimerControlNext, WakeInvNext
<1>3. TaskInv /\ RingTypes /\ WakeInv => TransTypeOK
  BY DEF TaskInv, RingTypes, WakeInv, TransTypeOK, TaskTypeOK, Entry, Ages, Waits, Place, Slots, Bytes
<1> QED
  BY <1>1, <1>2, <1>3, TaskInvariant, RingInvariant, PTL DEF Spec

-----------------------------------------------------------------------------
(* Timers and the clock. *)

\* The time, in thousandths of a tick, that a timer has had, may have lost by
\* rounding and has yet to wait.
Weight(age, ahead, left) == age * 1000 + ahead * (1000 - Hz) + left * Hz

\* Unless the count of the ticks has reached its bound, they cover the time, and
\* each timer that was waited for took one.
Covers(age, ahead, left, time, w) ==
    \/ age = MaxAge
    \/ age >= ahead + w /\ Weight(age, ahead, left) >= time + w * 1000

Counted(list, k, w) ==
    Covers(list[k].age, list[k].ahead, TimeLeft(list)[k], Msecs[list[k].h] * Hz, w)

ClockInv ==
    /\ pc # "wait" => waited = 0
    /\ \A k \in 1 .. Len(tmo) : Counted(tmo, k, waited)

LEMMA WeightType ==
    ASSUME NEW a \in Nat, NEW b \in Nat, NEW l \in Int
    PROVE  Weight(a, b, l) \in Int
<1>1. Hz \in Int
  BY WlTaskAssumption
<1>2. b * (1000 - Hz) \in Int /\ l * Hz \in Int
  BY <1>1
<1> QED
  BY <1>2 DEF Weight

LEMMA WeightAge ==
    ASSUME NEW a \in Nat, NEW b \in Nat, NEW l \in Int
    PROVE  Weight(a + 1, b, l) = Weight(a, b, l) + 1000
<1>1. Hz \in Int
  BY WlTaskAssumption
<1>2. b * (1000 - Hz) \in Int /\ l * Hz \in Int
  BY <1>1
<1> QED
  BY <1>2 DEF Weight

LEMMA WeightAhead ==
    ASSUME NEW a \in Nat, NEW b \in Nat, NEW l \in Int
    PROVE  Weight(a, b + 1, l) = Weight(a, b, l) + 1000 - Hz
<1>1. Hz \in Int
  BY WlTaskAssumption
<1>2. b * (1000 - Hz) \in Int /\ l * Hz \in Int
  BY <1>1
<1>3. (b + 1) * (1000 - Hz) = b * (1000 - Hz) + 1000 - Hz
  BY <1>1
<1> QED
  BY <1>1, <1>2, <1>3 DEF Weight

LEMMA WeightLeft ==
    ASSUME NEW a \in Nat, NEW b \in Nat, NEW l \in Int, NEW d \in Int, NEW e \in Int, e = l - d,
           NEW x, x = d * Hz
    PROVE  Weight(a, b, e) = Weight(a, b, l) - x
<1>1. Hz \in Int
  BY WlTaskAssumption
<1>2. b * (1000 - Hz) \in Int /\ l * Hz \in Int /\ d * Hz \in Int
  BY <1>1
<1>3. e * Hz = l * Hz - d * Hz
  BY <1>1
<1> QED
  BY <1>1, <1>2, <1>3 DEF Weight

\* What rounding to ticks loses: less than a tick, and a tick is 1000 / Hz
\* milliseconds.
LEMMA RoundingLoss ==
    ASSUME WholeTicks, NEW t \in Nat
    PROVE  /\ InTimeout(t) \in Nat \ {0} /\ t * Hz \in Nat
           /\ InTimeout(t) * 1000 + 1000 - Hz >= t * Hz
<1>1. Hz \in 1 .. 1000
  BY WlTaskAssumption
<1>2. PICK q \in Int : q = 1000 \div Hz
  BY <1>1
<1>3. 1000 = Hz * q
  <2>1. 1000 = Hz * (1000 \div Hz) + (1000 % Hz)
    BY <1>1
  <2> QED
    BY <1>1, <1>2, <2>1 DEF WholeTicks
<1>4. PICK x \in Nat : x = t * Hz
  BY <1>1
<1>5. PICK n \in Int, r \in Int : n = x \div 1000 /\ r = x % 1000
  OBVIOUS
<1>6. x = 1000 * n + r /\ r \in 0 .. 999 /\ n >= 0
  <2>1. x = 1000 * (x \div 1000) + (x % 1000) /\ x % 1000 \in 0 .. 999
    OBVIOUS
  <2>2. x \div 1000 \in Nat
    BY DivNat
  <2> QED
    BY <1>5, <2>1, <2>2
<1>7. r = Hz * (t - q * n)
  <2>1. PICK y \in Int : y = q * n
    OBVIOUS
  <2>2. 1000 * n = Hz * y
    BY <1>1, <1>3, <2>1
  <2>3. r = t * Hz - Hz * y
    BY <1>1, <1>4, <1>6, <2>2
  <2> QED
    BY <1>1, <2>1, <2>3
<1>8. PICK z \in Int : z = t - q * n
  OBVIOUS
<1>9. r = Hz * z /\ r < Hz * q
  BY <1>3, <1>6, <1>7, <1>8
<1>10. z <= q - 1
  <2>1. ASSUME z >= q PROVE FALSE
    <3>1. Hz * (z - q) >= 0
      BY <1>1, <2>1
    <3>2. Hz * (z - q) = Hz * z - Hz * q
      BY <1>1
    <3>3. Hz * z \in Int /\ Hz * q \in Int
      BY <1>1
    <3> QED
      BY <1>9, <3>1, <3>2, <3>3
  <2> QED
    BY <2>1
<1>11. r <= 1000 - Hz
  <2>1. Hz * ((q - 1) - z) >= 0
    BY <1>1, <1>10
  <2>2. Hz * ((q - 1) - z) = Hz * q - Hz - Hz * z
    BY <1>1
  <2> QED
    BY <1>1, <1>3, <1>6, <1>9, <2>1, <2>2
<1>12. InTimeout(t) = IF n = 0 THEN 1 ELSE n
  BY <1>4, <1>5 DEF InTimeout
<1> QED
  BY <1>1, <1>4, <1>6, <1>11, <1>12

LEMMA ClockTypes ==
    ASSUME NEW list \in Seq(Entry), NEW k \in 1 .. Len(list)
    PROVE  /\ list[k].age \in Nat /\ list[k].ahead \in Nat /\ list[k].age <= MaxAge
           /\ list[k].ahead <= MaxAge
           /\ TimeLeft(list)[k] \in Int
           /\ list[k].h \in Handler /\ Msecs[list[k].h] \in Nat /\ Msecs[list[k].h] * Hz \in Nat
<1>1. Msecs \in [Handler -> Nat] /\ Hz \in Nat /\ MaxAge \in Nat
  BY WlTaskAssumption
<1>2. list[k].h \in Handler /\ list[k].age \in Ages /\ list[k].ahead \in Ages
  BY EntryFields
<1>3. TimeLeft(list)[k] \in Int
  BY TimeLeftSums
<1>4. PICK m \in Nat : m = Msecs[list[k].h]
  BY <1>1, <1>2
<1>5. m * Hz \in Nat
  BY <1>1
<1> QED
  BY <1>1, <1>2, <1>3, <1>4, <1>5 DEF Ages

\* An entry of which nothing that counts here has changed.
LEMMA CountedSame ==
    ASSUME NEW list, NEW new, NEW j, NEW k, NEW w, Counted(list, j, w),
           new[k].h = list[j].h, new[k].age = list[j].age, new[k].ahead = list[j].ahead,
           TimeLeft(new)[k] = TimeLeft(list)[j]
    PROVE  Counted(new, k, w)
  BY DEF Counted

\* A message arrives after w ticks.
LEMMA CountedWaited ==
    ASSUME NEW list \in Seq(Entry), list # <<>>, NEW d \in 0 .. list[1].time,
           NEW new, new = Less(list, d), NEW w \in Nat, d * Hz <= w * 1000,
           \A k \in 1 .. Len(list) : Counted(list, k, w)
    PROVE  \A k \in 1 .. Len(new) : Counted(new, k, 0)
<1>1. /\ Len(new) = Len(list)
      /\ \A k \in 1 .. Len(list) : /\ new[k].h = list[k].h /\ new[k].age = list[k].age
                                   /\ new[k].ahead = list[k].ahead
      /\ \A k \in 1 .. Len(list) : TimeLeft(new)[k] = TimeLeft(list)[k] - d
  BY WaitedPoints
<1>2. d \in Int
  BY EntryFields
<1>3. PICK x \in Int : x = d * Hz /\ x <= w * 1000
  BY <1>2, WlTaskAssumption
<1>4. ASSUME NEW k \in 1 .. Len(list) PROVE Counted(new, k, 0)
  <2>1. PICK a \in Nat : a = list[k].age /\ new[k].age = a
    BY <1>1, ClockTypes
  <2>2. PICK b \in Nat : b = list[k].ahead /\ new[k].ahead = b
    BY <1>1, ClockTypes
  <2>3. PICK l \in Int : l = TimeLeft(list)[k] /\ TimeLeft(new)[k] = l - d
    BY <1>1, ClockTypes
  <2>4. PICK m \in Nat : m = Msecs[list[k].h] * Hz /\ m = Msecs[new[k].h] * Hz
    BY <1>1, ClockTypes
  <2>5. Counted(list, k, w)
    OBVIOUS
  <2>cov. Covers(a, b, l, m, w)
    BY <2>1, <2>2, <2>3, <2>4, <2>5 DEF Counted
  <2>6. a = MaxAge \/ (a >= b + w /\ Weight(a, b, l) >= m + w * 1000)
    BY <2>cov DEF Covers
  <2>7. PICK e \in Int : e = l - d
    BY <1>2
  <2>8. Weight(a, b, e) = Weight(a, b, l) - x
    BY <1>2, <1>3, <2>7, WeightLeft
  <2>9. Weight(a, b, l) \in Int
    BY WeightType
  <2>10. Covers(a, b, e, m, 0)
    <3>1. a = MaxAge \/ (a >= b + 0 /\ Weight(a, b, e) >= m + 0 * 1000)
      BY <1>3, <2>6, <2>8, <2>9
    <3> QED
      BY <3>1, Zenon DEF Covers
  <2>11. TimeLeft(new)[k] = e
    BY <2>3, <2>7
  <2> QED
    BY <2>1, <2>2, <2>4, <2>10, <2>11 DEF Counted
<1> QED
  BY <1>1, <1>4

\* So many ticks are enough for a time, but for what rounding loses.
Enough(w, t) == w * 1000 + 1000 - Hz >= t * Hz

\* The first timer fires after w ticks.
LEMMA CountedFired ==
    ASSUME NEW list \in Seq(Entry), list # <<>>, NEW t \in Nat, t = list[1].time,
           NEW new, new = Fired(list), NEW w \in Nat,
           \/ pc = "wait" /\ w >= 1 /\ Enough(w, t)
           \/ pc # "wait" /\ t = 0,
           \A k \in 1 .. Len(list) : Counted(list, k, w)
    PROVE  \A k \in 1 .. Len(new) : Counted(new, k, 0)
<1>1. Len(new) = Len(list) - 1 /\ Len(list) \in Nat /\ Len(list) >= 1
  BY FirePoints
<1>2. \A k \in 1 .. Len(list) - 1 : /\ new[k].h = list[k + 1].h
                                    /\ new[k].age = list[k + 1].age
                                    /\ new[k].ahead = Ahead(list[k + 1].ahead)
  BY FirePoints
<1>3. \A k \in 0 .. Len(list) - 1 : TimeLeft(new)[k] = TimeLeft(list)[k + 1] - TimeLeft(list)[1]
  BY FirePoints, Zenon
<1>4. TimeLeft(list)[1] = t
  <2>1. 1 \in 1 .. Len(list) /\ 1 - 1 = 0
    BY <1>1
  <2>2. TimeLeft(list)[0] = 0 /\ TimeLeft(list)[1] = TimeLeft(list)[1 - 1] + list[1].time
    BY <2>1, TimeLeftSums, Zenon
  <2> QED
    BY <2>1, <2>2
<1>5. PICK x \in Int : x = t * Hz
  BY WlTaskAssumption
<1>6. PICK y \in Int : y = w * 1000
  OBVIOUS
<1>7. Enough(w, t) => y + 1000 - Hz >= x
  BY <1>5, <1>6 DEF Enough
<1>8. ASSUME NEW k \in 1 .. Len(list) - 1 PROVE Counted(new, k, 0)
  <2>1. k + 1 \in 1 .. Len(list) /\ k \in 0 .. Len(list) - 1
    BY <1>1
  <2>2. PICK j \in 1 .. Len(list) : j = k + 1
    BY <2>1
  <2>types. /\ list[j].age \in Nat /\ list[j].ahead \in Nat /\ list[j].ahead <= MaxAge
            /\ TimeLeft(list)[j] \in Int
    BY ClockTypes
  <2>3. PICK a \in Nat : a = list[j].age /\ new[k].age = a
    BY <1>2, <2>2, <2>types
  <2>max. a <= MaxAge
    BY <2>3, ClockTypes
  <2>4. PICK b \in Nat : b = list[j].ahead /\ new[k].ahead = Ahead(b) /\ b <= MaxAge
    BY <1>2, <2>2, <2>types
  <2>5. PICK l \in Int : l = TimeLeft(list)[j] /\ TimeLeft(new)[k] = l - t
    <3>1. TimeLeft(new)[k] = TimeLeft(list)[j] - t
      BY <1>3, <1>4, <2>1, <2>2
    <3> QED
      BY <2>types, <3>1
  <2>6. PICK m \in Nat : m = Msecs[list[j].h] * Hz /\ m = Msecs[new[k].h] * Hz
    BY <1>2, <2>2, ClockTypes
  <2>7. Counted(list, j, w)
    OBVIOUS
  <2>cov. Covers(a, b, l, m, w)
    BY <2>3, <2>4, <2>5, <2>6, <2>7 DEF Counted
  <2>8. a = MaxAge \/ (a >= b + w /\ Weight(a, b, l) >= m + y)
    BY <1>6, <2>cov DEF Covers
  <2>9. PICK e \in Int : e = l - t
    OBVIOUS
  <2>10. Weight(a, b + 1, e) = Weight(a, b, e) + 1000 - Hz
    BY WeightAhead
  <2>11. Weight(a, b, e) = Weight(a, b, l) - x
    <3>1. PICK d \in Int : d = t
      OBVIOUS
    <3>2. e = l - d /\ x = d * Hz
      BY <1>5, <2>9, <3>1
    <3> QED
      BY <3>2, WeightLeft
  <2>12. Weight(a, b, l) \in Int
    BY WeightType
  <2>13. MaxAge \in Nat /\ Hz \in 1 .. 1000
    BY WlTaskAssumption
  <2>left. TimeLeft(new)[k] = e
    BY <2>5, <2>9
  <2>14. CASE a = MaxAge
    BY <2>3, <2>14 DEF Counted, Covers
  <2>15. CASE a # MaxAge /\ pc = "wait"
    <3>1. Enough(w, t) /\ w >= 1
      BY <2>15
    <3>2. b + 1 < MaxAge /\ a >= (b + 1) + 0
      BY <2>8, <2>13, <2>max, <2>15, <3>1
    <3>3. new[k].ahead = b + 1
      BY <2>4, <2>15, <3>2 DEF Ahead, CapAge
    <3>4. Weight(a, b + 1, e) >= m + 0 * 1000
      BY <1>7, <2>8, <2>10, <2>11, <2>12, <2>13, <2>15, <3>1
    <3>5. Covers(a, b + 1, e, m, 0)
      BY <3>2, <3>4, Zenon DEF Covers
    <3> QED
      BY <2>3, <2>6, <2>left, <3>3, <3>5 DEF Counted
  <2>16. CASE a # MaxAge /\ pc # "wait"
    <3>1. t = 0
      BY <2>16
    <3>2. new[k].ahead = b
      BY <2>4, <2>16 DEF Ahead
    <3>3. 0 * Hz = 0
      BY <2>13
    <3>4. x = 0
      BY <1>5, <3>1, <3>3, Zenon
    <3>5. a >= b + 0 /\ Weight(a, b, e) >= m + 0 * 1000
      BY <1>6, <2>8, <2>11, <2>12, <2>16, <3>4
    <3>6. Covers(a, b, e, m, 0)
      BY <3>5, Zenon DEF Covers
    <3> QED
      BY <2>3, <2>6, <2>left, <3>2, <3>6 DEF Counted
  <2> QED
    BY <2>14, <2>15, <2>16
<1> QED
  BY <1>1, <1>8

\* A tick, which the waiting task counts or not.
LEMMA CountedAged ==
    ASSUME NEW list \in Seq(Entry), NEW new, new = Aged(list), NEW w \in Nat, NEW v \in Nat, v <= w + 1,
           \A k \in 1 .. Len(list) : Counted(list, k, w)
    PROVE  \A k \in 1 .. Len(new) : Counted(new, k, v)
<1>1. /\ Len(new) = Len(list)
      /\ \A k \in 1 .. Len(list) : /\ new[k].h = list[k].h
                                   /\ new[k].age = CapAge(list[k].age + 1)
                                   /\ new[k].ahead = list[k].ahead
  BY TickPoints
<1>2. \A k \in 0 .. Len(list) : TimeLeft(new)[k] = TimeLeft(list)[k]
  BY TickPoints
<1>3. ASSUME NEW k \in 1 .. Len(list) PROVE Counted(new, k, v)
  <2>1. PICK a \in Nat : a = list[k].age /\ new[k].age = CapAge(a + 1) /\ a <= MaxAge
    BY <1>1, ClockTypes
  <2>2. PICK b \in Nat : b = list[k].ahead /\ new[k].ahead = b
    BY <1>1, ClockTypes
  <2>3. PICK l \in Int : l = TimeLeft(list)[k] /\ TimeLeft(new)[k] = l
    BY <1>2, ClockTypes
  <2>4. PICK m \in Nat : m = Msecs[list[k].h] * Hz /\ m = Msecs[new[k].h] * Hz
    BY <1>1, ClockTypes
  <2>5. Counted(list, k, w)
    OBVIOUS
  <2>cov. Covers(a, b, l, m, w)
    BY <2>1, <2>2, <2>3, <2>4, <2>5 DEF Counted
  <2>6. a = MaxAge \/ (a >= b + w /\ Weight(a, b, l) >= m + w * 1000)
    BY <2>cov DEF Covers
  <2>7. Weight(a + 1, b, l) = Weight(a, b, l) + 1000 /\ Weight(a, b, l) \in Int
    <3>1. Weight(a + 1, b, l) = Weight(a, b, l) + 1000
      BY WeightAge
    <3>2. Weight(a, b, l) \in Int
      BY WeightType
    <3> QED
      BY <3>1, <3>2
  <2>8. MaxAge \in Nat
    BY WlTaskAssumption
  <2>9. CASE a + 1 < MaxAge
    <3>1. CapAge(a + 1) = a + 1
      BY <2>9 DEF CapAge
    <3>2. a + 1 >= b + v /\ Weight(a + 1, b, l) >= m + v * 1000
      BY <2>6, <2>7, <2>8, <2>9
    <3>3. new[k].age = a + 1
      BY <2>1, <3>1
    <3>4. Covers(a + 1, b, l, m, v)
      BY <3>2, Zenon DEF Covers
    <3> QED
      BY <2>2, <2>3, <2>4, <3>3, <3>4 DEF Counted
  <2>10. CASE ~(a + 1 < MaxAge)
    BY <2>1, <2>10 DEF Counted, Covers, CapAge
  <2> QED
    BY <2>9, <2>10
<1> QED
  BY <1>1, <1>3

LEMMA CountedArmed ==
    ASSUME NEW list \in Seq(Entry), NEW h \in Handler, NEW new, new = Timeout(list, h),
           \A k \in 1 .. Len(list) : Counted(list, k, 0)
    PROVE  \A k \in 1 .. Len(new) : Counted(new, k, 0)
<1>1. PICK n \in Nat : n = Len(list)
  OBVIOUS
<1>2. PICK p : p = Passed(list, h)
  OBVIOUS
<1>3. p \in 0 .. n
  BY <1>1, <1>2, PassedAt
<1>4. PICK m : m = Msecs[h]
  OBVIOUS
<1>5. /\ new \in Seq(Entry) /\ Len(new) = n + 1
      /\ new[p + 1] = [h |-> h, time |-> m - TimeLeft(list)[p], age |-> 0, ahead |-> 0]
      /\ \A k \in 1 .. n + 1 :
            /\ k <= p => new[k] = list[k]
            /\ k = p + 2 => new[k] = [list[k - 1] EXCEPT !.time = @ - (m - TimeLeft(list)[p])]
            /\ k > p + 2 => new[k] = list[k - 1]
  BY <1>1, <1>2, <1>4, TimeoutPoints
<1>6. \A k \in 0 .. n + 1 : TimeLeft(new)[k] = IF k <= p THEN TimeLeft(list)[k]
                                               ELSE IF k = p + 1 THEN m ELSE TimeLeft(list)[k - 1]
  BY <1>1, <1>2, <1>4, TimeoutLeft
<1>7. ASSUME NEW k \in 1 .. n + 1 PROVE Counted(new, k, 0)
  <2>1. k \in 0 .. n + 1
    OBVIOUS
  <2>2. CASE k <= p
    <3>1. k \in 1 .. Len(list) /\ new[k] = list[k] /\ TimeLeft(new)[k] = TimeLeft(list)[k]
      BY <1>1, <1>3, <1>5, <1>6, <2>1, <2>2
    <3>2. Counted(list, k, 0)
      BY <3>1
    <3> QED
      BY <3>1, <3>2, CountedSame
  <2>3. CASE k = p + 1
    <3>1. new[k].h = h /\ new[k].age = 0 /\ new[k].ahead = 0
      BY <1>5, <2>3
    <3>2. ~(k <= p)
      BY <1>3, <2>3
    <3>3. TimeLeft(new)[k] = m
      BY <1>6, <2>1, <2>3, <3>2
    <3>4. Hz \in Nat /\ m \in Nat
      BY <1>4, WlTaskAssumption
    <3>5. m * Hz \in Nat /\ 0 * (1000 - Hz) = 0
      BY <3>4
    <3>6. Weight(0, 0, m) >= m * Hz + 0 * 1000
      BY <3>5 DEF Weight
    <3>7. 0 >= 0 + 0
      OBVIOUS
    <3> QED
      BY <1>4, <3>1, <3>3, <3>6, <3>7 DEF Counted, Covers
  <2>4. CASE k > p + 1
    <3>1. PICK j \in 1 .. n : j = k - 1
      BY <1>3, <2>4
    <3>2. new[k].h = list[j].h /\ new[k].age = list[j].age /\ new[k].ahead = list[j].ahead
      <4>1. list[j] \in Entry
        BY <1>1
      <4>2. CASE k = p + 2
        <5>1. PICK d : new[k] = [list[j] EXCEPT !.time = d]
          BY <1>5, <3>1, <4>2
        <5> QED
          BY <4>1, <5>1 DEF Entry
      <4>3. CASE k > p + 2
        BY <1>5, <3>1, <4>3
      <4> QED
        BY <1>3, <2>4, <4>2, <4>3
    <3>3. ~(k <= p) /\ k # p + 1
      BY <1>3, <2>4
    <3>4. TimeLeft(new)[k] = TimeLeft(list)[j]
      BY <1>6, <2>1, <3>1, <3>3
    <3>5. Counted(list, j, 0)
      BY <1>1
    <3> QED
      BY <3>2, <3>4, <3>5, CountedSame
  <2> QED
    BY <1>3, <2>2, <2>3, <2>4
<1>8. Len(new) = n + 1
  BY <1>5
<1> QED
  BY <1>7, <1>8

LEMMA CountedCancelled ==
    ASSUME NEW list \in Seq(Entry), NEW h \in Handler, NEW new, new = Untimeout(list, h),
           \A k \in 1 .. Len(list) : Counted(list, k, 0)
    PROVE  \A k \in 1 .. Len(new) : Counted(new, k, 0)
<1>1. PICK n \in Nat : n = Len(list)
  OBVIOUS
<1>2. PICK at : at = FirstOf(list, h)
  OBVIOUS
<1>3. at \in 0 .. n
  BY <1>1, <1>2, FirstOfAt
<1>4. CASE at = 0
  BY <1>2, <1>4 DEF Untimeout, FirstOf
<1>5. CASE at # 0
  <2>1. /\ Len(new) = n - 1
        /\ \A k \in 1 .. n - 1 :
              /\ k < at => new[k] = list[k]
              /\ k = at => new[k] = [list[k + 1] EXCEPT !.time = @ + list[at].time]
              /\ k > at => new[k] = list[k + 1]
    BY <1>1, <1>2, <1>5, UntimeoutPoints
  <2>2. \A k \in 0 .. n - 1 : TimeLeft(new)[k] = IF k < at THEN TimeLeft(list)[k] ELSE TimeLeft(list)[k + 1]
    BY <1>1, <1>2, <1>5, UntimeoutLeft
  <2>3. ASSUME NEW k \in 1 .. n - 1 PROVE Counted(new, k, 0)
    <3>1. PICK j \in 1 .. n : j = IF k < at THEN k ELSE k + 1
      BY <1>3
    <3>2. new[k].h = list[j].h /\ new[k].age = list[j].age /\ new[k].ahead = list[j].ahead
      <4>1. list[j] \in Entry
        BY <1>1
      <4>2. CASE k = at
        <5>1. j = k + 1
          BY <1>3, <3>1, <4>2
        <5>2. PICK d : new[k] = [list[j] EXCEPT !.time = d]
          BY <2>1, <4>2, <5>1
        <5> QED
          BY <4>1, <5>2 DEF Entry
      <4>3. CASE k # at
        BY <1>3, <2>1, <3>1, <4>3
      <4> QED
        BY <4>2, <4>3
    <3>3. k \in 0 .. n - 1
      OBVIOUS
    <3>4. TimeLeft(new)[k] = TimeLeft(list)[j]
      BY <2>2, <3>1, <3>3
    <3>5. Counted(list, j, 0)
      BY <1>1
    <3> QED
      BY <3>2, <3>4, <3>5, CountedSame
  <2> QED
    BY <2>1, <2>3
<1> QED
  BY <1>4, <1>5

LEMMA ClockInvNext ==
    ASSUME WholeTicks, TaskInv, ClockInv, [Next]_vars
    PROVE  ClockInv'
<1> USE DEF portVars, sendVars
<1>1. tmo \in Seq(Entry) /\ waited \in Nat
  BY WlTaskAssumption DEF TaskInv, Waits
<1>2. /\ pc # "wait" => waited = 0
      /\ \A k \in 1 .. Len(tmo) : Counted(tmo, k, waited)
  BY DEF ClockInv
<1>3. ASSUME UNCHANGED <<tmo, waited>>, pc # "wait" \/ pc' = "wait" PROVE ClockInv'
  BY <1>2, <1>3 DEF ClockInv
<1>4. CASE Fetch
  BY <1>2, <1>4 DEF Fetch, ClockInv
<1>5. CASE Receive
  <2>1. CASE tmo = <<>>
    <3>1. tmo' = <<>> /\ waited' = 0
      BY <1>5, <2>1 DEF Receive, Waited
    <3> QED
      BY <3>1 DEF ClockInv
  <2>2. CASE tmo # <<>>
    <3>1. PICK d \in 0 .. tmo[1].time : d <= Elapsed /\ Waited(tmo) = Less(tmo, d)
      BY <2>2, WaitedList
    <3>2. d \in Nat
      BY <1>1, <2>2, EntryFields
    <3>3. PICK x \in Nat : x = Elapsed
      BY ElapsedType
    <3>4. Hz * x <= waited * 1000 /\ Hz \in Nat /\ d <= x
      BY <3>1, <3>3, ElapsedType, WlTaskAssumption
    <3>5. d * Hz <= waited * 1000
      <4>1. Hz * (x - d) >= 0
        BY <3>2, <3>4
      <4>2. Hz * (x - d) = Hz * x - d * Hz
        BY <3>2, <3>4
      <4>3. Hz * x \in Int /\ d * Hz \in Int
        BY <3>2, <3>4
      <4> QED
        BY <1>1, <3>4, <4>1, <4>2, <4>3
    <3>6. tmo' = Less(tmo, d) /\ waited' = 0
      BY <1>5, <3>1 DEF Receive
    <3>7. \A k \in 1 .. Len(tmo') : Counted(tmo', k, 0)
      BY <1>1, <1>2, <2>2, <3>5, <3>6, CountedWaited
    <3> QED
      BY <3>6, <3>7 DEF ClockInv
  <2> QED
    BY <2>1, <2>2
<1>6. CASE Fire
  <2>1. tmo # <<>> /\ tmo' = Fired(tmo) /\ waited' = 0
    BY <1>6 DEF Fire, Fired
  <2>2. PICK t \in Nat : t = tmo[1].time
    BY <1>1, <2>1, EntryFields
  <2>3. \/ pc = "wait" /\ waited >= 1 /\ Enough(waited, t)
        \/ pc # "wait" /\ t = 0
    <3>1. Hz \in 1 .. 1000
      BY WlTaskAssumption
    <3>2. CASE pc # "wait"
      BY <1>6, <2>1, <2>2, <3>2 DEF Fire
    <3>3. CASE pc = "wait"
      <4>1. waited >= InTimeout(t)
        BY <1>1, <1>6, <2>1, <2>2, <3>3 DEF Fire, TimesOut
      <4>2. /\ InTimeout(t) \in Nat \ {0} /\ t * Hz \in Nat
            /\ InTimeout(t) * 1000 + 1000 - Hz >= t * Hz
        BY RoundingLoss
      <4> QED
        BY <1>1, <3>1, <3>3, <4>1, <4>2 DEF Enough
    <3> QED
      BY <3>2, <3>3
  <2>4. \A k \in 1 .. Len(tmo') : Counted(tmo', k, 0)
    BY <1>1, <1>2, <2>1, <2>2, <2>3, CountedFired
  <2> QED
    BY <2>1, <2>4 DEF ClockInv
<1>7. CASE RunTimeout
  <2>1. PICK h \in Handler : h = job.h
    BY <1>7, JobHandler DEF RunTimeout, Runs
  <2>2. tmo' = Timeout(tmo, h) /\ waited' = waited /\ waited = 0
    BY <1>2, <1>7, <2>1 DEF RunTimeout, Runs
  <2>3. \A k \in 1 .. Len(tmo') : Counted(tmo', k, 0)
    BY <1>1, <1>2, <2>2, CountedArmed
  <2> QED
    BY <2>2, <2>3 DEF ClockInv
<1>8. CASE RunUntimeout
  <2>1. PICK h \in Handler : h = job.h
    BY <1>8, JobHandler DEF RunUntimeout, Runs
  <2>2. tmo' = Untimeout(tmo, h) /\ waited' = waited /\ waited = 0
    BY <1>2, <1>8, <2>1 DEF RunUntimeout, Runs
  <2>3. \A k \in 1 .. Len(tmo') : Counted(tmo', k, 0)
    BY <1>1, <1>2, <2>2, CountedCancelled
  <2> QED
    BY <2>2, <2>3 DEF ClockInv
<1>9. CASE Tick
  <2>1. tmo' = Aged(tmo) /\ pc' = pc
    BY <1>9 DEF Tick, Aged
  <2>2. waited' \in Nat /\ waited' <= waited + 1 /\ (pc # "wait" => waited' = waited)
    BY <1>1, <1>9 DEF Tick
  <2>3. \A k \in 1 .. Len(tmo') : Counted(tmo', k, waited')
    BY <1>1, <1>2, <2>1, <2>2, CountedAged
  <2> QED
    BY <1>2, <2>1, <2>2, <2>3 DEF ClockInv
<1>10. \/ UNCHANGED <<tmo, waited>> /\ (pc # "wait" \/ pc' = "wait")
      \/ Fetch \/ Receive \/ Fire \/ RunTimeout \/ RunUntimeout \/ Tick
  BY DEF Next, vars, taskVars, Thread, TaskStep, PortStep, OsTick, PostCallback, RxIsr, Runs, Then,
         Request, Requested, RunRx, RunUartTimer, Send, SendWaits, Sent, SentFlow, RunApp, Calm
<1> QED
  BY <1>3, <1>4, <1>5, <1>6, <1>7, <1>8, <1>9, <1>10

\* A timer fires no sooner than the time it was armed for, less what rounding
\* loses at it and at the timers before it, under a tick each: for any timers
\* and any tick rate that divides a second into whole milliseconds, however
\* often the tick counter wraps and messages interrupt the wait.
THEOREM FiresInTime ==
    ASSUME WholeTicks, CountedFar
    PROVE  Spec => NeverEarly
<1>1. Init => ClockInv
  BY DEF Init, TaskInit, ClockInv
<1>2. TaskInv /\ ClockInv /\ [Next]_vars => ClockInv'
  BY ClockInvNext
<1>3. ASSUME TaskInv, ClockInv, Fire
      PROVE  Head(tmo).age * 1000 + (Head(tmo).ahead + 1) * (1000 - Hz) >= Msecs[Head(tmo).h] * Hz
  <2>1. tmo \in Seq(Entry) /\ waited \in Nat /\ tmo # <<>> /\ Head(tmo) = tmo[1]
    BY <1>3, WlTaskAssumption DEF TaskInv, Waits, Fire
  <2>2. 1 \in 1 .. Len(tmo)
    BY <2>1
  <2>3. PICK t \in Nat : t = tmo[1].time
    BY <2>1, <2>2, EntryFields
  <2>4. Hz \in 1 .. 1000 /\ MaxAge \in Nat
    BY WlTaskAssumption
  <2>5. PICK x \in Int : x = t * Hz
    BY <2>4
  <2>6. waited * 1000 + 1000 - Hz >= x
    <3>1. CASE t = 0
      BY <2>1, <2>4, <2>5, <3>1
    <3>2. CASE t # 0
      <4>1. waited >= InTimeout(t)
        BY <1>3, <2>1, <2>3, <3>2 DEF Fire, TimesOut
      <4>2. /\ InTimeout(t) \in Nat
            /\ InTimeout(t) * 1000 + 1000 - Hz >= t * Hz
        BY RoundingLoss
      <4> QED
        BY <2>1, <2>4, <2>5, <4>1, <4>2
    <3> QED
      BY <3>1, <3>2
  <2>7. TimeLeft(tmo)[1] = t
    <3>1. TimeLeft(tmo)[0] = 0 /\ TimeLeft(tmo)[1] = TimeLeft(tmo)[1 - 1] + tmo[1].time
      BY <2>1, <2>2, TimeLeftSums
    <3> QED
      BY <2>3, <3>1
  <2>8. PICK a \in Nat : a = tmo[1].age /\ a <= MaxAge
    BY <2>1, <2>2, ClockTypes
  <2>9. PICK b \in Nat : b = tmo[1].ahead /\ b <= MaxAge
    BY <2>1, <2>2, ClockTypes
  <2>10. PICK ms \in Nat :
            ms = Msecs[tmo[1].h] /\ ms * Hz <= MaxAge * 1000
    BY <2>1, <2>2, ClockTypes DEF CountedFar
  <2>11. a = MaxAge \/ Weight(a, b, t) >= ms * Hz + waited * 1000
    <3>1. Counted(tmo, 1, waited)
      BY <1>3, <2>2 DEF ClockInv
    <3> QED
      BY <2>7, <2>8, <2>9, <2>10, <3>1 DEF Counted, Covers
  <2>12. a * 1000 + (b + 1) * (1000 - Hz) >= ms * Hz
    <3>1. (b + 1) * (1000 - Hz) >= 0 /\ (b + 1) * (1000 - Hz) \in Int
      BY <2>4
    <3>2. ms * Hz \in Int
      BY <2>4
    <3>3. CASE a = MaxAge
      BY <2>4, <2>10, <3>1, <3>2, <3>3
    <3>4. CASE Weight(a, b, t) >= ms * Hz + waited * 1000
      <4>1. Weight(a, b, t) = a * 1000 + b * (1000 - Hz) + x
        BY <2>5 DEF Weight
      <4>2. (b + 1) * (1000 - Hz) = b * (1000 - Hz) + 1000 - Hz /\ b * (1000 - Hz) \in Int
        BY <2>4
      <4> QED
        BY <2>1, <2>4, <2>6, <3>2, <3>4, <4>1, <4>2
    <3> QED
      BY <2>11, <3>3, <3>4
  <2> QED
    BY <2>1, <2>8, <2>9, <2>10, <2>12
<1>4. TaskInv /\ ClockInv =>
        (Fire => LET t == Head(tmo) IN
                 t.age * 1000 + (t.ahead + 1) * (1000 - Hz) >= Msecs[t.h] * Hz)
  BY <1>3
<1> QED
  BY <1>1, <1>2, <1>4, TaskInvariant, PTL DEF Spec, NeverEarly
-----------------------------------------------------------------------------
(* Who looks after the bytes in the ring. *)

\* Armable, for a list of which only matters whether the timer is in it.
Arm(m, box, armed) ==
    \/ \E k \in 0 .. Len(box) : /\ Item(m, box, k) = Add(Uart)
                               /\ \A j \in k + 1 .. Len(box) : Item(m, box, j) # Del(Uart)
    \/ armed /\ \A j \in 0 .. Len(box) : Item(m, box, j) # Del(Uart)

LEMMA ArmableIs ==
    ASSUME NEW m, NEW box, NEW list \in Seq(Entry)
    PROVE  Armable(m, box, list) <=> Arm(m, box, ~None(list))
<1>1. (\E k \in DOMAIN list : list[k].h = Uart) <=> ~None(list)
  BY DEF None
<1> QED
  BY <1>1 DEF Armable, Arm

LEMMA ArmAppend ==
    ASSUME NEW box \in Seq(Message), NEW x \in Message, NEW m, NEW armed,
           x = Add(Uart) \/ (Arm(m, box, armed) /\ x # Del(Uart))
    PROVE  Arm(m, Append(box, x), armed)
<1>1. PICK n \in Nat : n = Len(box)
  OBVIOUS
<1>2. PICK new : new = Append(box, x)
  OBVIOUS
<1>3. Len(new) = n + 1 /\ \A k \in 1 .. n : new[k] = box[k]
  BY <1>1, <1>2
<1>4. new[n + 1] = x
  BY <1>1, <1>2
<1>5. \A k \in 0 .. n : Item(m, new, k) = Item(m, box, k)
  BY <1>3 DEF Item
<1>6. Item(m, new, n + 1) = x
  BY <1>4 DEF Item
<1>7. CASE x = Add(Uart)
  <2>1. n + 1 \in 0 .. Len(new) /\ \A j \in (n + 1) + 1 .. Len(new) : FALSE
    BY <1>3
  <2> QED
    BY <1>2, <1>6, <1>7, <2>1 DEF Arm
<1>8. CASE Arm(m, box, armed) /\ x # Del(Uart)
  <2>1. ASSUME NEW k \in 0 .. n, Item(m, box, k) = Add(Uart),
               \A j \in k + 1 .. n : Item(m, box, j) # Del(Uart)
        PROVE  Arm(m, new, armed)
    <3>1. k \in 0 .. Len(new) /\ Item(m, new, k) = Add(Uart)
      BY <1>3, <1>5, <2>1
    <3>2. ASSUME NEW j \in k + 1 .. Len(new) PROVE Item(m, new, j) # Del(Uart)
      <4>1. CASE j = n + 1
        BY <1>6, <1>8, <4>1
      <4>2. CASE j # n + 1
        <5>1. j \in k + 1 .. n /\ j \in 0 .. n
          BY <1>3, <4>2
        <5> QED
          BY <1>5, <2>1, <5>1
      <4> QED
        BY <4>1, <4>2
    <3> QED
      BY <3>1, <3>2 DEF Arm
  <2>2. ASSUME armed, \A j \in 0 .. n : Item(m, box, j) # Del(Uart)
        PROVE  Arm(m, new, armed)
    <3>1. ASSUME NEW j \in 0 .. Len(new) PROVE Item(m, new, j) # Del(Uart)
      <4>1. j = n + 1 \/ j \in 0 .. n
        BY <1>3
      <4> QED
        BY <1>5, <1>6, <1>8, <2>2, <4>1
    <3> QED
      BY <2>2, <3>1 DEF Arm
  <2> QED
    BY <1>1, <1>2, <1>8, <2>1, <2>2 DEF Arm
<1> QED
  BY <1>7, <1>8

LEMMA ArmTake ==
    ASSUME NEW box \in Seq(Message), box # <<>>, NEW armed, Arm(Nothing, box, armed)
    PROVE  Arm(Head(box), Tail(box), armed)
<1>1. PICK n \in Nat : n = Len(box) /\ n >= 1
  OBVIOUS
<1>2. PICK new : new = Tail(box)
  OBVIOUS
<1>3. PICK m : m = Head(box)
  OBVIOUS
<1>4. Len(new) = n - 1 /\ m = box[1] /\ \A k \in 1 .. n - 1 : new[k] = box[k + 1]
  BY <1>1, <1>2, <1>3
<1>5. \A k \in 0 .. n - 1 : Item(m, new, k) = Item(Nothing, box, k + 1)
  BY <1>1, <1>4 DEF Item
<1>6. Item(Nothing, box, 0) = Nothing
  BY DEF Item
<1>7. ASSUME NEW k \in 0 .. n, Item(Nothing, box, k) = Add(Uart),
             \A j \in k + 1 .. n : Item(Nothing, box, j) # Del(Uart)
      PROVE  Arm(m, new, armed)
  <2>1. k # 0
    BY <1>6, <1>7, Kinds
  <2>2. k - 1 \in 0 .. n - 1 /\ (k - 1) + 1 = k
    BY <2>1
  <2>3. Item(m, new, k - 1) = Add(Uart) /\ k - 1 \in 0 .. Len(new)
    BY <1>4, <1>5, <1>7, <2>2
  <2>4. ASSUME NEW j \in (k - 1) + 1 .. Len(new) PROVE Item(m, new, j) # Del(Uart)
    <3>1. j \in 0 .. n - 1 /\ j + 1 \in k + 1 .. n
      BY <1>4, <2>2
    <3> QED
      BY <1>5, <1>7, <3>1
  <2> QED
    BY <2>3, <2>4 DEF Arm
<1>8. ASSUME armed, \A j \in 0 .. n : Item(Nothing, box, j) # Del(Uart)
      PROVE  Arm(m, new, armed)
  <2>1. ASSUME NEW j \in 0 .. Len(new) PROVE Item(m, new, j) # Del(Uart)
    <3>1. j \in 0 .. n - 1 /\ j + 1 \in 0 .. n
      BY <1>1, <1>4
    <3> QED
      BY <1>5, <1>8, <3>1
  <2> QED
    BY <1>8, <2>1 DEF Arm
<1> QED
  BY <1>1, <1>2, <1>3, <1>7, <1>8 DEF Arm

\* The task is done with m, and works on next now.
LEMMA ArmStep ==
    ASSUME NEW box \in Seq(Message), NEW m, NEW next, NEW armed, NEW armed2,
           Arm(m, box, armed), next # Del(Uart),
           m = Add(Uart) => armed2, m # Del(Uart) /\ armed => armed2
    PROVE  Arm(next, box, armed2)
<1>1. PICK n \in Nat : n = Len(box)
  OBVIOUS
<1>2. \A k \in 1 .. n : Item(next, box, k) = Item(m, box, k)
  BY <1>1 DEF Item
<1>3. Item(m, box, 0) = m /\ Item(next, box, 0) = next
  BY DEF Item
<1>4. ASSUME NEW k \in 0 .. n, Item(m, box, k) = Add(Uart),
             \A j \in k + 1 .. n : Item(m, box, j) # Del(Uart)
      PROVE  Arm(next, box, armed2)
  <2>1. CASE k = 0
    <3>1. ASSUME NEW j \in 0 .. n PROVE Item(next, box, j) # Del(Uart)
      <4>1. j = 0 \/ (j \in k + 1 .. n /\ j \in 1 .. n)
        BY <2>1
      <4> QED
        BY <1>2, <1>3, <1>4, <4>1
    <3> QED
      BY <1>1, <1>3, <1>4, <2>1, <3>1 DEF Arm
  <2>2. CASE k # 0
    <3>1. k \in 1 .. n /\ Item(next, box, k) = Add(Uart)
      BY <1>2, <1>4, <2>2
    <3>2. ASSUME NEW j \in k + 1 .. n PROVE Item(next, box, j) # Del(Uart)
      <4>1. j \in 1 .. n
        BY <3>1
      <4> QED
        BY <1>2, <1>4, <4>1
    <3> QED
      BY <1>1, <1>4, <3>1, <3>2 DEF Arm
  <2> QED
    BY <2>1, <2>2
<1>5. ASSUME armed, \A j \in 0 .. n : Item(m, box, j) # Del(Uart)
      PROVE  Arm(next, box, armed2)
  <2>1. m # Del(Uart)
    BY <1>3, <1>5
  <2>2. ASSUME NEW j \in 0 .. n PROVE Item(next, box, j) # Del(Uart)
    <3>1. j = 0 \/ j \in 1 .. n
      OBVIOUS
    <3> QED
      BY <1>2, <1>3, <1>5, <3>1
  <2> QED
    BY <1>1, <1>5, <2>1, <2>2 DEF Arm
<1> QED
  BY <1>1, <1>4, <1>5 DEF Arm

LEMMA SomeWakeKept ==
    ASSUME NEW box \in Seq(Message)
    PROVE  /\ \A m, x : ~NoWake(m, box) \/ x = Wake => ~NoWake(m, Append(box, x))
           /\ \A m, next : ~NoWake(m, box) /\ m # Wake => ~NoWake(next, box)
           /\ box # <<>> /\ ~NoWake(Nothing, box) => ~NoWake(Head(box), Tail(box))
<1>1. PICK n \in Nat : n = Len(box)
  OBVIOUS
<1>2. ASSUME NEW m, NEW x, ~NoWake(m, box) \/ x = Wake PROVE ~NoWake(m, Append(box, x))
  <2>1. PICK new : new = Append(box, x)
    OBVIOUS
  <2>2. Len(new) = n + 1 /\ \A k \in 1 .. n : new[k] = box[k]
    BY <1>1, <2>1
  <2>3. new[n + 1] = x
    BY <1>1, <2>1
  <2>4. \A k \in 0 .. n : Item(m, new, k) = Item(m, box, k)
    BY <2>2 DEF Item
  <2>5. Item(m, new, n + 1) = x /\ n + 1 \in 0 .. n + 1 /\ \A k \in 0 .. n : k \in 0 .. n + 1
    BY <2>3 DEF Item
  <2> QED
    BY <1>1, <1>2, <2>1, <2>2, <2>4, <2>5 DEF NoWake
<1>3. ASSUME NEW m, NEW next, ~NoWake(m, box), m # Wake PROVE ~NoWake(next, box)
  <2>1. PICK k \in 0 .. n : Item(m, box, k) = Wake
    BY <1>1, <1>3 DEF NoWake
  <2>2. k # 0 /\ Item(next, box, k) = Wake
    BY <1>3, <2>1 DEF Item
  <2> QED
    BY <1>1, <2>1, <2>2 DEF NoWake
<1>4. ASSUME box # <<>>, ~NoWake(Nothing, box) PROVE ~NoWake(Head(box), Tail(box))
  <2>1. PICK new : new = Tail(box)
    OBVIOUS
  <2>2. PICK m : m = Head(box)
    OBVIOUS
  <2>3. Len(new) = n - 1 /\ n >= 1 /\ m = box[1] /\ \A k \in 1 .. n - 1 : new[k] = box[k + 1]
    BY <1>1, <1>4, <2>1, <2>2
  <2>4. PICK k \in 0 .. n : Item(Nothing, box, k) = Wake
    BY <1>1, <1>4 DEF NoWake
  <2>5. k # 0
    BY <2>4 DEF Item, Nothing, Wake
  <2>6. Item(m, new, k - 1) = Wake /\ k - 1 \in 0 .. Len(new)
    BY <2>3, <2>4, <2>5 DEF Item
  <2> QED
    BY <2>1, <2>2, <2>6 DEF NoWake
<1> QED
  BY <1>2, <1>3, <1>4
UartTimer == [type |-> "timer", h |-> Uart]

\* uart_net_send is at work or about to be.
Busy == pc \in {"send", "sent"} \/ after = "send"

\* A counter of 1 means that the message is really there; code that makes timer
\* requests goes on behind them; only flow control silences the port.
ServeControl ==
    /\ cnt = 1 => ~NoWake(job, mbox)
    /\ after # "again" => pc = "post"
    /\ ~rxOn => load.fc

\* uart_net_send knows of all bytes, or the message is there for those that came
\* later; what it left behind has the timer or the message; and a port is
\* silenced only with bytes in the ring, until they are sent and flow control
\* looks at it again.
ServeInv ==
    ~lost /\ ~overrun =>
        /\ Busy => count > 0 /\ (CircCnt(head, tail) > count => cnt = 1)
        /\ ~Busy /\ CircCnt(head, tail) > 0 =>
              cnt = 1 \/ TimerComing \/ job = UartTimer
        /\ ~rxOn => CircCnt(head, tail) > 0 \/ pc = "fc" \/ after = "fc"

\* An empty ring has room for more than half of its size.
LargeRing == Size >= 3

LEMMA TimerKinds ==
    /\ UartTimer # Nothing /\ UartTimer # Wake
    /\ Nothing # Wake /\ [type |-> "callback"] # Wake
    /\ [type |-> "callback"] # Del(Uart) /\ Wake # Del(Uart)
    /\ \A h : /\ Add(h) # Wake /\ Del(h) # Wake /\ UartTimer # Add(h) /\ UartTimer # Del(h)
              /\ [type |-> "timer", h |-> h] # Wake /\ [type |-> "timer", h |-> h] # Del(Uart)
              /\ [type |-> "timer", h |-> h] # Add(Uart)
  BY DEF UartTimer, Nothing, Wake, Add, Del

LEMMA ComingIs ==
    ASSUME TaskInv
    PROVE  TimerComing <=>
             \/ \E k \in DOMAIN todo : todo[k] = Add(Uart)
             \/ /\ \A k \in DOMAIN todo : todo[k] # Del(Uart)
                /\ Arm(job, mbox, ~None(tmo))
<1>1. Armable(job, mbox, tmo) <=> Arm(job, mbox, ~None(tmo))
  BY ArmableIs DEF TaskInv
<1> QED
  BY <1>1 DEF TimerComing

LEMMA ServeControlNext ==
    ASSUME TaskInv, TimerControl, ServeControl, WakeInv, RingTypes, [Next]_vars
    PROVE  ServeControl'
<1> USE DEF portVars, sendVars
<1>1. /\ mbox \in Seq(Message) /\ (pc # "run" => job = Nothing)
      /\ (job.type = "static" => job = Wake) /\ (job = Wake => job.type = "static")
  BY DEF TaskInv, TimerControl, Message, Timer, Nothing, Wake
<1>2. /\ cnt = 1 => ~NoWake(job, mbox)
      /\ after # "again" => pc = "post"
      /\ ~rxOn => load.fc
      /\ cnt \in {0, 1}
  BY DEF ServeControl, WakeInv
<1>3. after' # "again" => pc' = "post"
  <2>1. CASE Request \/ SendWaits \/ Sent \/ SentFlow \/ RunApp \/ RunRx \/ RunUartTimer \/ Send \/ Requested
    BY <1>2, <2>1 DEF Request, SendWaits, Sent, SentFlow, RunApp, RunRx, RunUartTimer,
       Send, Requested, Then, Runs
  <2>2. CASE TaskStep /\ UNCHANGED sendVars
    BY <1>2, <2>2 DEF TaskStep, Fetch, Receive, Fire, RunTimeout, RunUntimeout, Runs
  <2>3. CASE UNCHANGED <<pc, after>>
    BY <1>2, <2>3
  <2> QED
    BY <2>1, <2>2, <2>3
    DEF Next, Thread, PortStep, OsTick, Tick, PostCallback, RxIsr, vars, taskVars
<1>4. ~rxOn' => load'.fc
  <2>1. load' = load
    BY DEF Next, Thread, PortStep, OsTick, PostCallback, RxIsr, Request, Requested, RunRx,
       RunUartTimer, Send, SendWaits, Sent, SentFlow, RunApp, vars
  <2>2. rxOn' = rxOn \/ rxOn' = (rxOn /\ ~load.fc) \/ rxOn' = TRUE \/ (~rxOn' /\ ~rxOn)
    BY DEF Next, Thread, PortStep, OsTick, PostCallback, RxIsr, Request, Requested, RunRx,
       RunUartTimer, Send, SendWaits, Sent, SentFlow, RunApp, vars
  <2> QED
    BY <1>2, <2>1, <2>2
<1>5. cnt' = 1 => ~NoWake(job', mbox')
  <2> SUFFICES ASSUME cnt' = 1 PROVE ~NoWake(job', mbox')
    OBVIOUS
  <2>1. ASSUME cnt' = cnt, UNCHANGED mbox, job' = job \/ job # Wake PROVE ~NoWake(job', mbox')
    BY <1>1, <1>2, <2>1, SomeWakeKept
  <2>2. ASSUME cnt' = cnt, UNCHANGED job, NEW x, Posted(x) PROVE ~NoWake(job', mbox')
    BY <1>1, <1>2, <2>2, SomeWakeKept DEF Posted
  <2>3. CASE TaskStep /\ UNCHANGED portVars
    <3>1. CASE Receive
      BY <1>1, <1>2, <2>3, <3>1, SomeWakeKept DEF Receive
    <3>2. CASE ~Receive
      <4>1. UNCHANGED mbox /\ (job' = job \/ job # Wake)
        BY <1>1, <2>3, <3>2, TimerKinds DEF TaskStep, Fetch, Fire, RunTimeout, RunUntimeout, Runs
      <4> QED
        BY <2>1, <2>3, <4>1
    <3> QED
      BY <3>1, <3>2
  <2>4. CASE OsTick \/ Requested \/ Send \/ UNCHANGED vars
    BY <2>1, <2>4 DEF OsTick, Tick, Requested, Send, Calm, vars, taskVars
  <2>5. CASE PostCallback
    BY <2>2, <2>5 DEF PostCallback
  <2>6. ASSUME NEW n \in 1 .. FifoMax, RxIsr(n) PROVE ~NoWake(job', mbox')
    <3>1. job' = job
      BY <2>6 DEF RxIsr
    <3>2. CASE UNCHANGED <<mbox, cnt>>
      BY <2>1, <3>1, <3>2
    <3>3. CASE Posted(Wake)
      BY <1>1, <3>1, <3>3, SomeWakeKept DEF Posted
    <3> QED
      BY <2>6, <3>2, <3>3 DEF RxIsr, RxCallback, Wake
  <2>7. CASE Request
    BY <2>1, <2>2, <2>7 DEF Request
  <2>8. CASE RunRx
    BY <1>2, <2>8 DEF RunRx
  <2>9. CASE RunUartTimer \/ RunApp \/ SentFlow \/ SendWaits \/ Sent
    <3>1. job # Wake
      BY <1>1, <2>9, TimerKinds DEF RunUartTimer, RunApp, SentFlow, SendWaits, Sent, Runs
    <3>2. UNCHANGED <<cnt, mbox>>
      BY <2>9 DEF RunUartTimer, RunApp, SentFlow, SendWaits, Sent, Calm
    <3> QED
      BY <2>1, <3>1, <3>2
  <2> QED
    BY <2>3, <2>4, <2>5, <2>6, <2>7, <2>8, <2>9 DEF Next, Thread, PortStep
<1> QED
  BY <1>3, <1>4, <1>5 DEF ServeControl

\* The task's own steps: a timer that is coming still is, or it fires.
LEMMA ComingTask ==
    ASSUME TaskInv, TaskInv', TimerControl, TimerComing \/ job = UartTimer,
           TaskStep \/ Tick, UNCHANGED todo
    PROVE  TimerComing' \/ job' = UartTimer
<1>1. /\ tmo \in Seq(Entry) /\ mbox \in Seq(Message) /\ (pc # "run" => job = Nothing)
      /\ (todo # <<>> => pc = "post") /\ \A k \in DOMAIN todo : todo'[k] = todo[k]
  BY DEF TaskInv, TimerControl
<1>2. TimerComing' <=> \/ \E k \in DOMAIN todo' : todo'[k] = Add(Uart)
                       \/ /\ \A k \in DOMAIN todo' : todo'[k] # Del(Uart)
                          /\ Arm(job', mbox', ~None(tmo'))
  <2>1. Armable(job', mbox', tmo') <=> Arm(job', mbox', ~None(tmo'))
    BY ArmableIs DEF TaskInv
  <2> QED
    BY <2>1 DEF TimerComing
<1>3. PICK armed \in BOOLEAN : armed = ~None(tmo)
  BY DEF None
<1>4. PICK armed2 \in BOOLEAN : armed2 = ~None(tmo')
  BY DEF None
<1>5. CASE Tick
  <2>1. /\ Len(tmo') = Len(tmo) /\ \A k \in 1 .. Len(tmo) : tmo'[k].h = tmo[k].h
    BY <1>1, <1>5, TickPoints DEF Tick, Aged
  <2>2. None(tmo') <=> None(tmo)
    BY <2>1 DEF None
  <2>3. UNCHANGED <<job, mbox>>
    BY <1>5 DEF Tick
  <2> QED
    BY <1>2, <2>2, <2>3, ComingIs
<1>6. CASE TaskStep
  <2>1. todo = <<>> /\ todo' = <<>> /\ job # UartTimer
    BY <1>1, <1>6, TimerKinds
    DEF TaskStep, Fetch, Receive, Fire, RunTimeout, RunUntimeout, Runs, UartTimer
  <2>2. Arm(job, mbox, armed) /\ (TimerComing' <=> Arm(job', mbox', armed2))
    BY <1>2, <1>3, <1>4, <2>1, ComingIs
  <2>3. CASE Fetch
    BY <1>3, <1>4, <2>2, <2>3 DEF Fetch
  <2>4. CASE Receive
    <3>1. job = Nothing /\ mbox # <<>> /\ job' = Head(mbox) /\ mbox' = Tail(mbox)
      BY <1>1, <2>4 DEF Receive
    <3>2. None(tmo') <=> None(tmo)
      <4>1. CASE tmo = <<>>
        BY <2>4, <4>1 DEF Receive, Waited
      <4>2. CASE tmo # <<>>
        <5>1. PICK d \in 0 .. tmo[1].time : Waited(tmo) = Less(tmo, d)
          BY <4>2, WaitedList
        <5>2. /\ Len(tmo') = Len(tmo)
              /\ \A k \in 1 .. Len(tmo) : tmo'[k].h = tmo[k].h
          BY <1>1, <2>4, <4>2, <5>1, WaitedPoints DEF Receive
        <5> QED
          BY <5>2 DEF None
      <4> QED
        BY <4>1, <4>2
    <3>3. Arm(Nothing, mbox, armed2)
      BY <1>3, <1>4, <2>2, <3>1, <3>2
    <3> QED
      BY <1>1, <2>2, <3>1, <3>3, ArmTake
  <2>5. CASE Fire
    <3>1. job = Nothing /\ tmo # <<>> /\ mbox' = mbox /\ job' = [type |-> "timer", h |-> tmo[1].h]
      BY <1>1, <2>5 DEF Fire
    <3>2. CASE tmo[1].h = Uart
      BY <3>1, <3>2 DEF UartTimer
    <3>3. CASE tmo[1].h # Uart
      <4>1. /\ Len(tmo') = Len(tmo) - 1
            /\ \A k \in 1 .. Len(tmo) - 1 : tmo'[k].h = tmo[k + 1].h
        <5>1. tmo' = Fired(tmo)
          BY <2>5 DEF Fire, Fired
        <5> QED
          BY <1>1, <3>1, <5>1, FirePoints, Zenon
      <4>2. PICK n \in Nat : n = Len(tmo)
        BY <1>1
      <4>3. armed => armed2
        <5>1. ASSUME None(tmo') PROVE None(tmo)
          <6>1. ASSUME NEW k \in 1 .. n PROVE tmo[k].h # Uart
            <7>1. CASE k = 1
              BY <3>3, <7>1
            <7>2. CASE k # 1
              <8>1. k - 1 \in 1 .. n - 1 /\ (k - 1) + 1 = k
                BY <7>2
              <8> QED
                BY <4>1, <4>2, <5>1, <8>1 DEF None
            <7> QED
              BY <7>1, <7>2
          <6> QED
            BY <4>2, <6>1 DEF None
        <5> QED
          BY <1>3, <1>4, <5>1
      <4>4. Arm(job', mbox, armed2)
        BY <1>1, <2>2, <3>1, <4>3, ArmStep, TimerKinds, Kinds
      <4> QED
        BY <2>2, <3>1, <4>4
    <3> QED
      BY <3>2, <3>3
  <2>6. CASE RunTimeout
    <3>1. PICK h \in Handler : h = job.h /\ job = Add(h)
      BY <2>6, JobKinds DEF RunTimeout, Runs
    <3>2. tmo' = Timeout(tmo, h) /\ job' = Nothing /\ mbox' = mbox
      BY <2>6, <3>1 DEF RunTimeout
    <3>3. (armed => armed2) /\ (h = Uart => armed2)
      BY <1>1, <1>3, <1>4, <3>2, TimeoutHandlers
    <3>4. job = Add(Uart) => h = Uart
      BY <3>1, Kinds
    <3>5. Arm(Nothing, mbox, armed2)
      BY <1>1, <2>2, <3>3, <3>4, ArmStep, Kinds
    <3> QED
      BY <2>2, <3>2, <3>5
  <2>7. CASE RunUntimeout
    <3>1. PICK h \in Handler : h = job.h /\ job = Del(h)
      BY <2>7, JobKinds DEF RunUntimeout, Runs
    <3>2. tmo' = Untimeout(tmo, h) /\ job' = Nothing /\ mbox' = mbox
      BY <2>7, <3>1 DEF RunUntimeout
    <3>3. h # Uart /\ armed => armed2
      BY <1>1, <1>3, <1>4, <3>2, UntimeoutHandlers
    <3>4. job # Add(Uart) /\ (job # Del(Uart) => h # Uart)
      BY <3>1, Kinds
    <3>5. Arm(Nothing, mbox, armed2)
      BY <1>1, <2>2, <3>3, <3>4, ArmStep, Kinds
    <3> QED
      BY <2>2, <3>2, <3>5
  <2> QED
    BY <1>6, <2>3, <2>4, <2>5, <2>6, <2>7 DEF TaskStep
<1> QED
  BY <1>5, <1>6
\* A message that does not cancel the timer joins the mailbox.
LEMMA ComingPosted ==
    ASSUME TaskInv, TaskInv', TimerComing, NEW x \in Message, x # Del(Uart), Posted(x),
           UNCHANGED <<tmo, job, todo>>
    PROVE  TimerComing'
<1>1. tmo \in Seq(Entry) /\ mbox \in Seq(Message) /\ mbox' = Append(mbox, x)
  BY DEF TaskInv, Posted
<1>2. Arm(job, mbox, ~None(tmo)) => Arm(job, Append(mbox, x), ~None(tmo))
  BY <1>1, ArmAppend
<1>3. Armable(job, mbox, tmo) => Armable(job, Append(mbox, x), tmo)
  BY <1>1, <1>2, ArmableIs
<1> QED
  BY <1>1, <1>3 DEF TimerComing

\* A request leaves the running code for the mailbox.
LEMMA ComingRequest ==
    ASSUME TaskInv, TimerControl, TimerComing, Request, ~lost'
    PROVE  TimerComing'
<1>1. /\ todo # <<>> /\ todo' = Tail(todo) /\ mbox' = Append(mbox, Head(todo))
      /\ tmo \in Seq(Entry) /\ mbox \in Seq(Message) /\ todo \in UartRequests
      /\ UNCHANGED <<tmo, job>>
  BY DEF Request, TaskInv, TimerControl, Posted
<1>2. PICK x \in Message : x = Head(todo) /\ x = todo[1] /\ 1 \in DOMAIN todo
  BY <1>1 DEF TaskInv
<1>3. ASSUME todo' = <<>>, Arm(job, Append(mbox, x), ~None(tmo)) PROVE TimerComing'
  <2>1. Armable(job, Append(mbox, x), tmo)
    BY <1>1, <1>3, ArmableIs
  <2>2. \A k \in DOMAIN todo' : todo'[k] # Del(Uart)
    BY <1>3
  <2> QED
    BY <1>1, <1>2, <2>1, <2>2 DEF TimerComing
<1>4. CASE todo = Restart(Uart)
  <2>1. todo' = <<Add(Uart)>>
    BY <1>1, <1>4 DEF Restart
  <2>2. 1 \in DOMAIN todo' /\ todo'[1] = Add(Uart)
    BY <2>1
  <2> QED
    BY <2>2 DEF TimerComing
<1>5. CASE todo # Restart(Uart)
  <2>1. PICK y : todo = <<y>>
    BY <1>1, <1>5 DEF UartRequests
  <2>2. y = x /\ todo' = <<>> /\ DOMAIN todo = {1}
    <3>1. <<y>> \in Seq({y}) /\ Len(<<y>>) = 1 /\ Head(<<y>>) = y
      OBVIOUS
    <3>2. Tail(<<y>>) \in Seq({y}) /\ Len(Tail(<<y>>)) = 0
      BY <3>1
    <3>3. DOMAIN <<y>> = {1}
      OBVIOUS
    <3> QED
      BY <1>1, <1>2, <2>1, <3>1, <3>2, <3>3
  <2>3. x = Add(Uart) \/ (Arm(job, mbox, ~None(tmo)) /\ x # Del(Uart))
    BY <1>2, <2>2, ComingIs
  <2> QED
    BY <1>1, <1>3, <2>2, <2>3, ArmAppend
<1> QED
  BY <1>4, <1>5

\* Code that runs in the task and leaves its timer alone.
LEMMA ComingRun ==
    ASSUME TaskInv, TimerComing, todo = <<>>, job # Add(Uart), job # Del(Uart),
           UNCHANGED <<tmo, mbox>>, job' = Nothing, \A k \in DOMAIN todo' : todo'[k] # Del(Uart)
    PROVE  TimerComing'
<1>1. tmo \in Seq(Entry) /\ mbox \in Seq(Message)
  BY DEF TaskInv
<1>2. Arm(job, mbox, ~None(tmo))
  BY ComingIs
<1>3. Arm(Nothing, mbox, ~None(tmo))
  BY <1>1, <1>2, ArmStep, Kinds
<1>4. Armable(Nothing, mbox, tmo)
  BY <1>1, <1>3, ArmableIs
<1> QED
  BY <1>4 DEF TimerComing

\* One step per action; c is the number of bytes in the ring.
LEMMA ServeInvNext ==
    ASSUME LargeRing, TaskInv, TaskInv', TimerControl, RingTypes, RingTypes', RingInv,
           WakeInv, ServeControl, ServeInv, [Next]_vars
    PROVE  ServeInv'
<1> USE DEF portVars, sendVars
<1>1. SUFFICES ASSUME ~lost', ~overrun' PROVE ServeInv'
  BY DEF ServeInv
<1>2. ~lost /\ ~overrun
  <2>1. ~lost
    BY <1>1 DEF Next, vars, Thread, TaskStep, PortStep, OsTick, Fetch, PostCallback, RxIsr,
                Request, Requested, RunRx, RunUartTimer, Send, SendWaits, Sent, SentFlow, RunApp, Calm,
                RxCallback
  <2>2. ~overrun
    BY <1>1 DEF Next, vars, Thread, PortStep, OsTick, PostCallback, RxIsr,
                Request, Requested, RunRx, RunUartTimer, Send, SendWaits, Sent, SentFlow, RunApp, Calm
  <2> QED
    BY <2>1, <2>2
<1>3. PICK c \in Slots : c = CircCnt(head, tail)
  BY CircCntIs DEF RingTypes
<1>4. PICK d \in Slots : d = CircCnt(head', tail')
  BY CircCntIs DEF RingTypes
<1>5. /\ Busy => count > 0 /\ (c > count => cnt = 1) /\ count <= c
      /\ ~Busy /\ c > 0 => cnt = 1 \/ TimerComing \/ job = UartTimer
      /\ ~rxOn => c > 0 \/ pc = "fc" \/ after = "fc"
  BY <1>2, <1>3 DEF ServeInv, RingInv, Busy
<1>6. /\ pc # "run" => job = Nothing
      /\ todo # <<>> => pc = "post"
      /\ after # "again" => pc = "post"
      /\ ~rxOn => load.fc
      /\ cnt \in {0, 1} /\ c \in Nat /\ d \in Nat /\ count \in Nat /\ NetSize \in Nat \ {0}
  BY Sizes DEF TimerControl, ServeControl, WakeInv, RingTypes, Slots
<1> DEFINE Goal == /\ Busy' => count' > 0 /\ (d > count' => cnt' = 1)
                   /\ ~Busy' /\ d > 0 => cnt' = 1 \/ TimerComing' \/ job' = UartTimer
                   /\ ~rxOn' => d > 0 \/ pc' = "fc" \/ after' = "fc"
<1>7. SUFFICES Goal
  BY <1>4 DEF ServeInv
<1> HIDE DEF Goal
\* The port, the ring and the code that runs are as they were.
<1>same. ASSUME UNCHANGED <<rxOn, head, tail, cnt, count, after>>, Busy' = Busy,
                pc = "fc" => pc' = "fc",
                TimerComing \/ job = UartTimer => TimerComing' \/ job' = UartTimer
         PROVE  Goal
  <2>1. d = c
    BY <1>3, <1>4, <1>same
  <2> QED
    BY <1>5, <1>same, <2>1 DEF Goal
\* The code that ran asks for the timer again.
<1>again. ASSUME Then(Restart(Uart), "again"), ~rxOn' => d > 0 PROVE Goal
  <2>1. todo' = Restart(Uart) /\ pc' = "post" /\ after' = "again"
    BY <1>again DEF Then
  <2>2. TimerComing'
    <3>1. 2 \in DOMAIN todo' /\ todo'[2] = Add(Uart)
      BY <2>1 DEF Restart
    <3> QED
      BY <3>1 DEF TimerComing
  <2> QED
    BY <1>again, <2>1, <2>2 DEF Goal, Busy
<1>8. CASE UNCHANGED vars
  <2>1. TimerComing' <=> TimerComing
    BY <1>8 DEF vars, taskVars, TimerComing, Armable, Item
  <2> QED
    BY <1>8, <1>same, <2>1 DEF vars, taskVars, Busy
<1>9. CASE TaskStep /\ UNCHANGED <<portVars, sendVars, lost>>
  <2>1. pc \notin {"send", "sent", "fc"} /\ pc' \notin {"send", "sent"}
    BY <1>9 DEF TaskStep, Fetch, Receive, Fire, RunTimeout, RunUntimeout, Runs
  <2>2. Busy' = Busy
    BY <1>9, <2>1 DEF Busy
  <2> QED
    BY <1>9, <1>same, <2>1, <2>2, ComingTask
<1>10. CASE OsTick
  <2>1. UNCHANGED <<pc, todo, rxOn, head, tail, cnt, count, after>> /\ Tick
    BY <1>10 DEF OsTick, Tick
  <2> QED
    BY <1>same, <2>1, ComingTask DEF Busy
<1>11. CASE PostCallback
  <2>1. /\ UNCHANGED <<pc, job, tmo, todo, rxOn, head, tail, cnt, count, after>>
        /\ Posted([type |-> "callback"])
    BY <1>11 DEF PostCallback
  <2>2. TimerComing => TimerComing'
    BY <2>1, ComingPosted, MessageTypes, TimerKinds
  <2> QED
    BY <1>same, <2>1, <2>2 DEF Busy
<1>12. ASSUME NEW n \in 1 .. FifoMax, RxIsr(n) PROVE Goal
  <2>1. rxOn' /\ UNCHANGED <<pc, after, count>>
    BY <1>12 DEF RxIsr
  <2>2. cnt' = 1
    BY <1>1, <1>6, <1>12 DEF RxIsr, RxCallback
  <2> QED
    BY <1>5, <2>1, <2>2 DEF Goal, Busy
<1>13. CASE Request
  <2>1. UNCHANGED <<pc, job, rxOn, head, tail, cnt, count, after>>
    BY <1>13 DEF Request
  <2>2. TimerComing => TimerComing'
    BY <1>1, <1>13, ComingRequest
  <2> QED
    BY <1>same, <2>1, <2>2 DEF Busy
<1>14. CASE Requested
  <2>1. /\ pc = "post" /\ pc' = after /\ after' = "again" /\ d = c
        /\ UNCHANGED <<job, todo, tmo, mbox, rxOn, cnt, count>>
    BY <1>3, <1>4, <1>14 DEF Requested
  <2>2. Busy' <=> Busy
    BY <2>1 DEF Busy, TaskInv
  <2>3. TimerComing => TimerComing'
    BY <2>1 DEF TimerComing, Armable, Item
  <2> QED
    BY <1>5, <2>1, <2>2, <2>3 DEF Goal
<1>15. CASE RunRx
  <2>1. d = c /\ rxOn' = rxOn /\ pc = "run" /\ after = "again"
    BY <1>3, <1>4, <1>6, <1>15 DEF RunRx, Runs
  <2>2. ~rxOn' => d > 0
    BY <1>5, <2>1
  <2>3. CASE c >= NetSize
    <3>1. count' = c /\ after' = "send" /\ pc' = "post"
      BY <1>3, <1>15, <2>3 DEF RunRx, Then
    <3> QED
      BY <1>6, <2>1, <2>2, <2>3, <3>1 DEF Goal, Busy
  <2>4. CASE ~(c >= NetSize)
    <3>1. Then(Restart(Uart), "again")
      BY <1>3, <1>15, <2>4 DEF RunRx
    <3> QED
      BY <1>again, <2>2, <3>1
  <2> QED
    BY <2>3, <2>4
<1>16. CASE RunUartTimer
  <2>1. /\ d = c /\ rxOn' = rxOn /\ count' = c /\ pc = "run" /\ after = "again" /\ after' = "again"
        /\ pc' = IF c > 0 THEN "send" ELSE "again"
    BY <1>3, <1>4, <1>6, <1>16 DEF RunUartTimer, Runs
  <2> QED
    BY <1>5, <1>6, <2>1 DEF Goal, Busy
<1>17. CASE Send
  <2>1. /\ pc = "send" /\ pc' = "sent"
        /\ UNCHANGED <<job, todo, tmo, mbox, rxOn, head, tail, cnt, count, after>>
    BY <1>17 DEF Send, Calm
  <2>2. Busy /\ Busy'
    BY <2>1 DEF Busy
  <2>3. d = c
    BY <1>3, <1>4, <2>1
  <2> QED
    BY <1>5, <2>1, <2>2, <2>3 DEF Goal
<1>18. CASE SendWaits
  <2>1. pc = "send" /\ d = c /\ cnt' = cnt /\ Busy
    BY <1>3, <1>4, <1>18 DEF SendWaits, Busy
  <2>2. c > 0
    BY <1>5, <1>6, <2>1
  <2>3. CASE Then(Restart(Uart), "again")
    BY <1>again, <2>1, <2>2, <2>3
  <2>4. CASE UNCHANGED <<pc, job, todo, after, count, rxOn>>
    BY <1>5, <2>1, <2>2, <2>4 DEF Goal, Busy
  <2> QED
    BY <1>18, <2>3, <2>4 DEF SendWaits
<1>19. CASE Sent
  <2>1. pc = "sent" /\ Busy /\ UNCHANGED <<head, cnt, rxOn>> /\ tail' = (tail + Buflen) % Size
    BY <1>19 DEF Sent, Busy
  <2>2. PICK b \in Nat : b = Buflen /\ b <= count
    BY BuflenIs, <1>6
  <2>3. d = c - b
    <3>1. b \in 0 .. CircCnt(head, tail) /\ head \in Slots /\ tail \in Slots
      BY <1>3, <1>5, <1>6, <2>1, <2>2 DEF RingTypes
    <3> QED
      BY <1>3, <1>4, <2>1, <2>2, <3>1, RingDrop
  <2>4. PICK rest \in Nat : rest = count - b
    BY <1>6, <2>2
  <2>5. count > 0 /\ (c > count => cnt = 1) /\ count <= c
    BY <1>5, <2>1
  <2>6. d >= rest /\ (d > rest => cnt' = 1)
    BY <1>6, <2>1, <2>3, <2>4, <2>5
  <2>7. CASE rest >= NetSize
    <3>1. count' = rest /\ pc' = "send"
      BY <1>19, <2>2, <2>4, <2>7 DEF Sent
    <3> QED
      BY <1>6, <2>6, <2>7, <3>1 DEF Goal, Busy
  <2>8. CASE ~(rest >= NetSize)
    <3>1. /\ todo' = (IF rest > 0 THEN Restart(Uart) ELSE <<>>) /\ pc' = "post"
          /\ after' = IF load.fc THEN "fc" ELSE "again"
      BY <1>19, <2>2, <2>4, <2>8 DEF Sent, Then
    <3>2. ~Busy' /\ (~rxOn' => after' = "fc")
      BY <1>6, <2>1, <3>1 DEF Busy
    <3>3. CASE rest > 0
      <4>1. 2 \in DOMAIN todo' /\ todo'[2] = Add(Uart)
        BY <3>1, <3>3 DEF Restart
      <4>2. TimerComing'
        BY <4>1 DEF TimerComing
      <4> QED
        BY <3>2, <4>2 DEF Goal
    <3>4. CASE ~(rest > 0)
      BY <1>6, <2>4, <2>6, <3>2, <3>4 DEF Goal
    <3> QED
      BY <3>3, <3>4
  <2> QED
    BY <2>7, <2>8
<1>20. CASE SentFlow
  <2>1. /\ pc = "fc" /\ todo = <<>> /\ job = Nothing /\ after = "again" /\ d = c
        /\ UNCHANGED <<cnt, tmo, mbox>> /\ ~Busy
    BY <1>3, <1>4, <1>6, <1>20 DEF SentFlow, Calm, Busy
  <2>2. CASE CircSpace(head, tail) > Size \div 2
    <3>1. rxOn' /\ todo' = <<>> /\ pc' = "post" /\ after' = "again" /\ job' = Nothing
      BY <1>20, <2>2 DEF SentFlow, Then
    <3>2. \A k \in DOMAIN todo' : todo'[k] # Del(Uart)
      BY <3>1
    <3>3. TimerComing => TimerComing'
      BY <2>1, <3>1, <3>2, ComingRun, Kinds
    <3> QED
      BY <1>5, <2>1, <3>1, <3>3, TimerKinds DEF Goal, Busy
  <2>3. CASE ~(CircSpace(head, tail) > Size \div 2)
    <3>1. Then(Restart(Uart), "again")
      BY <1>20, <2>3 DEF SentFlow
    <3>2. c # 0
      <4>1. SUFFICES ASSUME c = 0 PROVE FALSE
        OBVIOUS
      <4>2. Size \in Nat /\ Size >= 3 /\ head \in 0 .. Size - 1 /\ tail \in 0 .. Size - 1
        BY Sizes DEF LargeRing, RingTypes, Slots
      <4>3. 0 = IF tail <= head THEN head - tail ELSE head - tail + Size
        BY <1>3, <4>1, CircCntIs DEF RingTypes
      <4>4. head = tail
        BY <4>2, <4>3
      <4>5. tail - (head + 1) = -1 /\ -1 \in Int /\ -1 \in 0 - Size .. 0 - 1
        BY <4>2, <4>4
      <4>6. CircSpace(head, tail) = -1 + Size
        BY <4>5, ModSize DEF CircSpace, CircCnt
      <4>7. Size \div 2 < Size - 1
        BY <4>2
      <4> QED
        BY <2>3, <4>2, <4>6, <4>7
    <3> QED
      BY <1>6, <1>again, <2>1, <3>1, <3>2
  <2> QED
    BY <2>2, <2>3
<1>21. CASE RunApp
  <2>1. /\ pc = "run" /\ todo = <<>> /\ after = "again" /\ d = c
        /\ UNCHANGED <<cnt, tmo, mbox, rxOn, count>> /\ ~Busy
        /\ job.type \in {"callback", "timer"} /\ job # UartTimer
    BY <1>3, <1>4, <1>6, <1>21 DEF RunApp, Calm, Busy, Runs, App, UartTimer
  <2>2. PICK r \in AppRequests : Then(r, "again")
    BY <1>21 DEF RunApp
  <2>3. todo' = r /\ pc' = "post" /\ after' = "again" /\ job' = Nothing
    BY <2>2 DEF Then
  <2>4. \A k \in DOMAIN todo' : todo'[k] # Del(Uart)
    <3>1. r = <<>> \/ \E h \in App : r = <<Del(h)>> \/ r = <<Add(h)>>
      BY DEF AppRequests
    <3>2. \A h \in App : Del(h) # Del(Uart) /\ Add(h) # Del(Uart)
      BY Kinds DEF App
    <3>3. \A x : DOMAIN <<x>> = {1} /\ <<x>>[1] = x
      OBVIOUS
    <3> QED
      BY <2>3, <3>1, <3>2, <3>3
  <2>5. TimerComing => TimerComing'
    BY <2>1, <2>3, <2>4, ComingRun, JobKinds
  <2> QED
    BY <1>5, <2>1, <2>3, <2>5 DEF Goal, Busy
<1> QED
  BY <1>8, <1>9, <1>10, <1>11, <1>12, <1>13, <1>14, <1>15, <1>16, <1>17, <1>18, <1>19, <1>20, <1>21
  DEF Next, Thread, PortStep, Goal

\* No byte in the ring is forgotten and no port stays silent, for any handlers,
\* times, mailbox and packet size, and a ring of at least three bytes (an empty
\* smaller one has no room for more than half of its size, for which flow control
\* waits): while the handler threw nothing away and no message was lost,
\* uart_net_send is at work or the wakeup or the timer that makes it look again is
\* still to come, whatever an application cancels and arms meanwhile.
THEOREM BytesAreServed == ASSUME LargeRing PROVE Spec => []RxServed
<1>1. Init => TimerControl /\ WakeInv /\ ServeControl /\ ServeInv
  <2>1. Init => TimerControl
    BY DEF Init, TaskInit, TimerControl, UartRequests
  <2>2. Init => WakeInv
    BY DEF Init, TaskInit, WakeInv, OneWake, NoWake, Item, Nothing, Wake
  <2>3. Init => ServeControl
    BY DEF Init, ServeControl
  <2>4. ASSUME Init PROVE ServeInv
    <3>1. CircCnt(head, tail) = 0
      <4>1. CircCnt(Start, Start) = Start - Start /\ Start \in Int
        BY CircCntIs, Sizes DEF Slots
      <4> QED
        BY <2>4, <4>1 DEF Init
    <3> QED
      BY <2>4, <3>1 DEF Init, TaskInit, ServeInv, Busy
  <2> QED
    BY <2>1, <2>2, <2>3, <2>4
<1>2. /\ TaskInv /\ TaskInv' /\ RingTypes /\ RingTypes' /\ RingInv
      /\ TimerControl /\ WakeInv /\ ServeControl /\ ServeInv /\ [Next]_vars
      => (TimerControl /\ WakeInv /\ ServeControl /\ ServeInv)'
  BY TimerControlNext, WakeInvNext, ServeControlNext, ServeInvNext
<1>3. TaskInv /\ RingTypes /\ WakeInv /\ ServeControl /\ ServeInv => RxServed
  <2> SUFFICES ASSUME TaskInv, RingTypes, WakeInv, ServeControl, ServeInv, ~lost, ~overrun,
                      CircCnt(head, tail) > 0 \/ ~rxOn
               PROVE  \/ pc \in {"send", "sent", "fc"}
                      \/ pc = "post" /\ after # "again"
                      \/ \E k \in 0 .. Len(mbox) : Item(job, mbox, k).type = "static"
                      \/ job = [type |-> "timer", h |-> Uart]
                      \/ TimerComing
    BY DEF RxServed
  <2>1. CASE Busy \/ pc = "fc" \/ after = "fc"
    BY <2>1 DEF ServeControl, Busy
  <2>2. CASE ~Busy /\ CircCnt(head, tail) > 0
    <3>1. cnt = 1 \/ TimerComing \/ job = UartTimer
      BY <2>2 DEF ServeInv
    <3>2. cnt = 1 => \E k \in 0 .. Len(mbox) : Item(job, mbox, k).type = "static"
      BY DEF ServeControl, NoWake, Wake
    <3> QED
      BY <3>1, <3>2 DEF UartTimer
  <2> QED
    BY <2>1, <2>2 DEF ServeInv
<1> QED
  BY <1>1, <1>2, <1>3, TaskInvariant, RingInvariant, PTL DEF Spec
=============================================================================
