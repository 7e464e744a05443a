----------------------------- MODULE TuiProofs -----------------------------
(***************************************************************************)
(* Theorems about Tui, for all lists, sizes, keys and numbers of events:   *)
(* whatever message comes, the cursor is on the list, the page shows it,   *)
(* and open details are those of a device that is shown.                   *)
(***************************************************************************)
EXTENDS Tui, FiniteSetTheorems, SequenceTheorems, WellFoundedInduction, TLAPS

----------------------------------------------------------------------------
(* Induction, and the functions it defines *)

\* A set that holds 0 and every successor holds all numbers: induction without a parameter.
LEMMA SetInduction ==
    ASSUME NEW T, 0 \in T, \A n \in Nat : n \in T => n + 1 \in T
    PROVE  Nat \subseteq T
<1>. DEFINE less == OpToRel(<, Nat)
            rest == Nat \ T
<1>. SUFFICES ASSUME rest # {} PROVE FALSE
  OBVIOUS
<1>1. PICK n \in rest : \A k \in rest : ~(<<k, n>> \in less)
  BY NatLessThanWellFounded, WFMin, Zenon
<1>2. n \in Nat /\ n # 0 /\ n - 1 \in Nat
  OBVIOUS
<1>3. n - 1 \notin T
  <2>1. ASSUME n - 1 \in T PROVE FALSE
    <3>1. (n - 1) + 1 \in T
      BY <1>2, <2>1
    <3>. QED
      BY <1>2, <3>1
  <2>. QED
    BY <2>1
<1>4. <<n - 1, n>> \in less <=> n - 1 < n
  BY <1>2 DEF OpToRel
<1>5. n - 1 \in rest
  BY <1>2, <1>3
<1>. HIDE DEF less, rest
<1>. QED
  BY <1>1, <1>2, <1>4, <1>5

\* What is found among the first devices, as Shown's function says it.
Longer(g, list, f, n) ==
    IF n = 0 THEN <<>>
    ELSE IF list[n].name >= f THEN Append(g[n - 1], list[n]) ELSE g[n - 1]

IsAmong(g, list, f, n) == g = [k \in 0..n |-> Longer(g, list, f, k)]

Among(list, f, n) == CHOOSE g : IsAmong(g, list, f, n)

LEMMA AmongExists ==
    ASSUME NEW list, NEW f, NEW n \in Nat
    PROVE  IsAmong(Among(list, f, n), list, f, n)
<1>. DEFINE T == {k \in Nat : \E g : IsAmong(g, list, f, k)}
<1>1. 0 \in T
  <2>. DEFINE g == [k \in 0..0 |-> <<>>]
  <2>1. g = [k \in 0..0 |-> Longer(g, list, f, k)]
    BY DEF Longer
  <2>. QED
    BY <2>1 DEF IsAmong
<1>2. ASSUME NEW k \in Nat, k \in T PROVE k + 1 \in T
  <2>1. PICK g : IsAmong(g, list, f, k)
    BY <1>2
  <2>. DEFINE h == [j \in 0..(k + 1) |-> IF j <= k THEN g[j] ELSE Longer(g, list, f, k + 1)]
  <2>2. ASSUME NEW j \in 0..(k + 1) PROVE h[j] = Longer(h, list, f, j)
    <3>1. CASE j = 0
      <4>1. g[0] = Longer(g, list, f, 0)
        BY <2>1 DEF IsAmong
      <4>. QED
        BY <3>1, <4>1 DEF Longer
    <3>2. CASE j # 0
      <4>1. j - 1 \in 0..k /\ h[j - 1] = g[j - 1]
        BY <3>2
      <4>2. Longer(h, list, f, j) = Longer(g, list, f, j)
        BY <3>2, <4>1 DEF Longer
      <4>3. CASE j <= k
        <5>1. g[j] = Longer(g, list, f, j)
          BY <2>1, <4>3 DEF IsAmong
        <5>. QED
          BY <4>2, <4>3, <5>1
      <4>4. CASE j = k + 1
        BY <4>2, <4>4
      <4>. QED
        BY <4>3, <4>4
    <3>. QED
      BY <3>1, <3>2
  <2>3. h = [j \in 0..(k + 1) |-> Longer(h, list, f, j)]
    <3>. HIDE DEF h
    <3>1. h = [j \in 0..(k + 1) |-> h[j]]
      BY DEF h
    <3>. QED
      BY <2>2, <3>1
  <2>. HIDE DEF h
  <2>4. \E g_ : IsAmong(g_, list, f, k + 1)
    BY <2>3 DEF IsAmong
  <2>. QED
    BY <2>4
<1>3. n \in T
  <2>. HIDE DEF T
  <2>. QED
    BY <1>1, <1>2, SetInduction
<1>. QED
  BY <1>3 DEF Among

LEMMA ShownIs ==
    ASSUME NEW u
    PROVE  Shown(u) = Among(u.devices, u.filter, Len(u.devices))[Len(u.devices)]
BY DEF Shown, Among, IsAmong, Longer

\* Which of the first n devices s lists.
OnlyFound(s, list, f, n) == \A a \in DOMAIN s : \E j \in 1..n : s[a] = list[j] /\ list[j].name >= f
AllFound(s, list, f, n)  == \A j \in 1..n : list[j].name >= f => \E a \in DOMAIN s : s[a] = list[j]
Distinct(s)              == \A a, b \in DOMAIN s : s[a] = s[b] => a = b

\* Shown lists exactly the devices that the filter finds, each of them once.
LEMMA AmongIs ==
    ASSUME NEW S, NEW list \in Seq(S), Distinct(list), NEW f, NEW n \in 0..Len(list),
           NEW g, IsAmong(g, list, f, Len(list))
    PROVE  /\ g[n] \in Seq(S)
           /\ OnlyFound(g[n], list, f, n) /\ AllFound(g[n], list, f, n)
           /\ Distinct(g[n])
<1>. DEFINE Holds(k) == /\ g[k] \in Seq(S) /\ Distinct(g[k])
                        /\ OnlyFound(g[k], list, f, k) /\ AllFound(g[k], list, f, k)
            T == {k \in Nat : k <= Len(list) => Holds(k)}
<1>0. Len(list) \in Nat /\ DOMAIN list = 1..Len(list)
  OBVIOUS
<1>1. \A k \in 0..Len(list) : g[k] = Longer(g, list, f, k)
  BY <1>0 DEF IsAmong
<1>2. 0 \in T
  <2>1. g[0] = <<>>
    BY <1>0, <1>1 DEF Longer
  <2>2. DOMAIN g[0] = {} /\ 1..0 = {} /\ g[0] \in Seq(S)
    BY <2>1
  <2>. QED
    BY <2>2 DEF OnlyFound, AllFound, Distinct
<1>3. ASSUME NEW k \in Nat, k \in T PROVE k + 1 \in T
  <2>. SUFFICES ASSUME k + 1 <= Len(list) PROVE Holds(k + 1)
    OBVIOUS
  <2>1. Holds(k)
    BY <1>0, <1>3
  <2>2. g[k + 1] = IF list[k + 1].name >= f THEN Append(g[k], list[k + 1]) ELSE g[k]
    <3>1. k + 1 \in 0..Len(list) /\ k + 1 # 0 /\ (k + 1) - 1 = k
      BY <1>0
    <3>. QED
      BY <1>1, <3>1 DEF Longer
  <2>3. list[k + 1] \in S /\ 1..(k + 1) = (1..k) \cup {k + 1} /\ k + 1 \in DOMAIN list
    BY <1>0
  <2>4. CASE ~(list[k + 1].name >= f)
    <3>1. g[k + 1] = g[k]
      BY <2>2, <2>4
    <3>2. OnlyFound(g[k + 1], list, f, k + 1)
      BY <2>1, <2>3, <3>1 DEF OnlyFound
    <3>3. AllFound(g[k + 1], list, f, k + 1)
      BY <2>1, <2>3, <2>4, <3>1 DEF AllFound
    <3>. QED
      BY <2>1, <3>1, <3>2, <3>3
  <2>5. CASE list[k + 1].name >= f
    <3>1. g[k + 1] = Append(g[k], list[k + 1])
      BY <2>2, <2>5
    <3>2. Len(g[k]) \in Nat /\ DOMAIN g[k] = 1..Len(g[k])
      BY <2>1
    <3>3. /\ g[k + 1] \in Seq(S)
          /\ DOMAIN g[k + 1] = DOMAIN g[k] \cup {Len(g[k]) + 1}
          /\ \A a \in DOMAIN g[k] : g[k + 1][a] = g[k][a]
          /\ g[k + 1][Len(g[k]) + 1] = list[k + 1]
      BY <2>1, <2>3, <3>1, <3>2
    <3>4. ASSUME NEW a \in DOMAIN g[k]
          PROVE  \E j \in 1..k : g[k + 1][a] = list[j] /\ list[j].name >= f
      BY <2>1, <3>3 DEF OnlyFound
    <3>5. OnlyFound(g[k + 1], list, f, k + 1)
      BY <2>3, <2>5, <3>3, <3>4 DEF OnlyFound
    <3>6. ASSUME NEW j \in 1..k, list[j].name >= f
          PROVE  \E a \in DOMAIN g[k + 1] : g[k + 1][a] = list[j]
      BY <2>1, <3>3, <3>6 DEF AllFound
    <3>7. AllFound(g[k + 1], list, f, k + 1)
      BY <2>3, <3>3, <3>6 DEF AllFound
    <3>8. ASSUME NEW a \in DOMAIN g[k] PROVE g[k + 1][a] # list[k + 1]
      <4>1. PICK j \in 1..k : g[k + 1][a] = list[j]
        BY <3>4
      <4>2. j \in DOMAIN list /\ j # k + 1
        BY <1>0, <4>1
      <4>. QED
        BY <2>3, <4>1, <4>2 DEF Distinct
    <3>9. ASSUME NEW a \in DOMAIN g[k + 1], NEW b \in DOMAIN g[k + 1],
                 g[k + 1][a] = g[k + 1][b]
          PROVE  a = b
      <4>1. CASE a \in DOMAIN g[k] /\ b \in DOMAIN g[k]
        BY <2>1, <3>3, <3>9, <4>1 DEF Distinct
      <4>2. CASE a \notin DOMAIN g[k] \/ b \notin DOMAIN g[k]
        BY <3>3, <3>8, <3>9, <4>2
      <4>. QED
        BY <4>1, <4>2
    <3>. QED
      BY <3>3, <3>5, <3>7, <3>9 DEF Distinct
  <2>. QED
    BY <2>4, <2>5
<1>4. n \in T
  <2>. HIDE DEF T
  <2>. QED
    BY <1>0, <1>2, <1>3, SetInduction
<1>. QED
  BY <1>4

----------------------------------------------------------------------------
(* A finite set in its order *)

LEMMA AllButOne ==
    ASSUME NEW N \in Nat, NEW k \in 0..(N - 1)
    PROVE  /\ IsFiniteSet((0..(N - 1)) \ {k})
           /\ Cardinality((0..(N - 1)) \ {k}) < N
<1>1. 0 \in Int /\ N - 1 \in Int /\ ~(0 > N - 1)
  OBVIOUS
<1>2. IsFiniteSet(0..(N - 1)) /\ Cardinality(0..(N - 1)) = (N - 1) - 0 + 1
  BY <1>1, FS_Interval
<1>3. PICK all : all = 0..(N - 1)
  OBVIOUS
<1>4. IsFiniteSet(all) /\ Cardinality(all) = N /\ k \in all
  BY <1>2, <1>3
<1>5. IsFiniteSet(all \ {k}) /\ Cardinality(all \ {k}) = N - 1
  BY <1>4, FS_RemoveElement
<1>. QED
  BY <1>3, <1>5

\* The elements of S that R puts before d.
Below(S, R, d) == {e \in S : <<e, d>> \in R}

\* Some element has any given number of others before it.
LEMMA Ranking ==
    ASSUME NEW S, IsFiniteSet(S), NEW R, NEW n \in 1..Cardinality(S),
           \A d \in S : <<d, d>> \notin R,
           \A d, e, c \in S : <<d, e>> \in R /\ <<e, c>> \in R => <<d, c>> \in R,
           \A d, e \in S : d # e => <<d, e>> \in R \/ <<e, d>> \in R
    PROVE  \E d \in S : Cardinality(Below(S, R, d)) = n - 1
<1>. DEFINE N == Cardinality(S)
            rank == [d \in S |-> Cardinality(Below(S, R, d))]
            others == (0..(N - 1)) \ {n - 1}
<1>. SUFFICES ASSUME \A d \in S : Cardinality(Below(S, R, d)) # n - 1 PROVE FALSE
  OBVIOUS
<1>1. N \in Nat
  BY FS_CardinalityType
<1>2. \A d \in S : IsFiniteSet(Below(S, R, d)) /\ Cardinality(Below(S, R, d)) \in Nat
  BY FS_Subset, FS_CardinalityType DEF Below
<1>3. ASSUME NEW d \in S PROVE Cardinality(Below(S, R, d)) < N
  <2>1. Below(S, R, d) \in SUBSET S /\ d \notin Below(S, R, d)
    BY DEF Below
  <2>2. Cardinality(Below(S, R, d)) <= N /\ Cardinality(Below(S, R, d)) # N
    BY <2>1, FS_Subset
  <2>. QED
    BY <1>1, <1>2, <2>2
<1>4. ASSUME NEW d \in S, NEW e \in S, <<d, e>> \in R
      PROVE  Cardinality(Below(S, R, d)) < Cardinality(Below(S, R, e))
  <2>1. Below(S, R, d) \in SUBSET Below(S, R, e) /\ d \in Below(S, R, e) /\ d \notin Below(S, R, d)
    BY <1>4 DEF Below
  <2>2. /\ Cardinality(Below(S, R, d)) <= Cardinality(Below(S, R, e))
        /\ Cardinality(Below(S, R, d)) # Cardinality(Below(S, R, e))
    BY <1>2, <2>1, FS_Subset
  <2>. QED
    BY <1>2, <2>2
<1>5. rank \in [S -> others]
  <2>1. ASSUME NEW d \in S PROVE Cardinality(Below(S, R, d)) \in others
    <3>1. PICK c : c = Cardinality(Below(S, R, d))
      OBVIOUS
    <3>2. c \in Nat /\ c < N /\ c # n - 1
      BY <1>2, <1>3, <3>1
    <3>3. c \in others
      BY <1>1, <3>2
    <3>. QED
      BY <3>1, <3>3
  <2>. HIDE DEF others
  <2>. QED
    BY <2>1
<1>6. IsFiniteSet(others) /\ Cardinality(others) < N
  <2>1. n - 1 \in 0..(N - 1)
    BY <1>1
  <2>. QED
    BY <1>1, <2>1, AllButOne
<1>7. PICK d, e \in S : d # e /\ rank[d] = rank[e]
  <2>. HIDE DEF rank, others
  <2>. QED
    BY <1>5, <1>6, FS_PigeonHole
<1>8. <<d, e>> \in R \/ <<e, d>> \in R
  BY <1>7
<1>9. Cardinality(Below(S, R, d)) = Cardinality(Below(S, R, e))
  BY <1>7
<1>. QED
  BY <1>2, <1>4, <1>8, <1>9

USE InputAssumption, LinesAssumption

\* Before puts the devices of a snapshot in one order.
LEMMA SnapshotIsOrdered ==
    ASSUME NEW list \in Snapshot
    PROVE  /\ \A d \in list : ~Before(d, d)
           /\ \A d, e, c \in list : Before(d, e) /\ Before(e, c) => Before(d, c)
           /\ \A d, e \in list : d # e => Before(d, e) \/ Before(e, d)
<1>1. list \subseteq Device /\ WellFormed(list)
  OBVIOUS
<1>2. \A d \in list : d.mac \in Nat /\ d.ips \subseteq Nat
  BY <1>1 DEF Device
<1>3. \A d \in list : ~Before(d, d)
  BY <1>2 DEF Before
<1>4. ASSUME NEW d \in list, NEW e \in list, NEW c \in list, Before(d, e), Before(e, c)
      PROVE  Before(d, c)
  <2>1. CASE d.mac = e.mac /\ e.mac = c.mac
    <3>1. PICK i \in d.ips : \A j \in e.ips : i < j
      BY <1>2, <1>4, <2>1 DEF Before
    <3>2. PICK k \in e.ips : \A j \in c.ips : k < j
      BY <1>2, <1>4, <2>1 DEF Before
    <3>3. \A j \in c.ips : i < j
      <4>1. i < k /\ i \in Nat /\ k \in Nat /\ c.ips \subseteq Nat
        BY <1>2, <3>1, <3>2
      <4>. QED
        BY <3>2, <4>1
    <3>. QED
      BY <2>1, <3>1, <3>3 DEF Before
  <2>2. CASE ~(d.mac = e.mac /\ e.mac = c.mac)
    <3>1. d.mac <= e.mac /\ e.mac <= c.mac
      BY <1>2, <1>4 DEF Before
    <3>. QED
      BY <1>2, <2>2, <3>1 DEF Before
  <2>. QED
    BY <2>1, <2>2
<1>5. ASSUME NEW d \in list, NEW e \in list, d # e PROVE Before(d, e) \/ Before(e, d)
  <2>1. CASE d.mac # e.mac
    BY <1>2, <2>1 DEF Before
  <2>2. CASE d.mac = e.mac
    <3>1. d.mac = NoMAC /\ e.mac = NoMAC /\ d.ips \cap e.ips = {}
      BY <1>1, <1>5, <2>2 DEF WellFormed
    <3>2. PICK i \in d.ips : d.ips = {i}
      BY <1>1, <3>1 DEF WellFormed
    <3>3. PICK j \in e.ips : e.ips = {j}
      BY <1>1, <3>1 DEF WellFormed
    <3>4. i \in Nat /\ j \in Nat /\ i # j
      BY <1>2, <3>1, <3>2, <3>3
    <3>. QED
      BY <2>2, <3>2, <3>3, <3>4 DEF Before
  <2>. QED
    BY <2>1, <2>2
<1>. QED
  BY <1>3, <1>4, <1>5

\* The Model holds a snapshot's devices, each of them once.
LEMMA SortedIs ==
    ASSUME NEW list \in Snapshot
    PROVE  /\ Sorted[list] \in Seq(list)
           /\ Len(Sorted[list]) = Cardinality(list)
           /\ \A n, k \in DOMAIN Sorted[list] : Sorted[list][n] = Sorted[list][k] => n = k
<1>. DEFINE rank(d) == Cardinality({e \in list : Before(e, d)})
            R == {p \in list \X list : Before(p[1], p[2])}
<1>1. Cardinality(list) \in Nat
  BY FS_CardinalityType
<1>2. ASSUME NEW n \in 1..Cardinality(list) PROVE \E d \in list : rank(d) = n - 1
  <2>1. \A d, e \in list : <<d, e>> \in R <=> Before(d, e)
    OBVIOUS
  <2>. HIDE DEF R
  <2>2. PICK d \in list : Cardinality(Below(list, R, d)) = n - 1
    <3>1. \A d \in list : <<d, d>> \notin R
      BY <2>1, SnapshotIsOrdered
    <3>2. \A d, e, c \in list : <<d, e>> \in R /\ <<e, c>> \in R => <<d, c>> \in R
      BY <2>1, SnapshotIsOrdered
    <3>3. \A d, e \in list : d # e => <<d, e>> \in R \/ <<e, d>> \in R
      BY <2>1, SnapshotIsOrdered
    <3>4. IsFiniteSet(list)
      OBVIOUS
    <3>. QED
      BY <3>1, <3>2, <3>3, <3>4, Ranking
  <2>3. Below(list, R, d) = {e \in list : Before(e, d)}
    BY <2>1 DEF Below
  <2>. QED
    BY <2>2, <2>3
<1>3. Sorted[list] = [n \in 1..Cardinality(list) |-> CHOOSE d \in list : rank(d) = n - 1]
  BY DEF Sorted
<1>. HIDE DEF rank
<1>4. \A n \in 1..Cardinality(list) : Sorted[list][n] \in list /\ rank(Sorted[list][n]) = n - 1
  BY <1>2, <1>3
<1>5. DOMAIN Sorted[list] = 1..Cardinality(list)
  BY <1>3
<1>6. Sorted[list] \in Seq(list) /\ Len(Sorted[list]) = Cardinality(list)
  BY <1>1, <1>3, <1>4
<1>7. ASSUME NEW n \in DOMAIN Sorted[list], NEW k \in DOMAIN Sorted[list],
             Sorted[list][n] = Sorted[list][k]
      PROVE  n = k
  BY <1>1, <1>4, <1>5, <1>7
<1>. QED
  BY <1>6, <1>7

----------------------------------------------------------------------------
(* Lists, and what is shown of them *)

Lists == {<<>>} \cup {Sorted[list] : list \in Snapshot}

\* Devices as the merger publishes them, in some order.
Proper(list) ==
    /\ list \in Seq(Device)
    /\ \A n \in DOMAIN list : list[n].mac = NoMAC => \E i \in Nat : list[n].ips = {i}
    /\ \A n, k \in DOMAIN list : n # k =>
          /\ list[n].ips \cap list[k].ips = {}
          /\ list[n].mac # list[k].mac \/ list[n].mac = NoMAC

LEMMA ListIsProper ==
    ASSUME NEW list \in Lists
    PROVE  Proper(list) /\ Distinct(list)
<1>1. CASE list = <<>>
  BY <1>1 DEF Proper, Distinct
<1>2. CASE list # <<>>
  <2>1. PICK set \in Snapshot : list = Sorted[set]
    BY <1>2 DEF Lists
  <2>2. /\ list \in Seq(set)
        /\ \A n, k \in DOMAIN list : list[n] = list[k] => n = k
    BY <2>1, SortedIs
  <2>3. set \subseteq Device /\ WellFormed(set)
    OBVIOUS
  <2>4. \A n \in DOMAIN list : list[n] \in set
    BY <2>2
  <2>5. list \in Seq(Device)
    BY <2>2, <2>3
  <2>6. ASSUME NEW n \in DOMAIN list, list[n].mac = NoMAC
        PROVE  \E i \in Nat : list[n].ips = {i}
    <3>1. PICK i \in list[n].ips : list[n].ips = {i}
      BY <2>3, <2>4, <2>6 DEF WellFormed
    <3>. QED
      BY <2>3, <2>4, <3>1 DEF Device
  <2>7. ASSUME NEW n \in DOMAIN list, NEW k \in DOMAIN list, n # k
        PROVE  /\ list[n].ips \cap list[k].ips = {}
               /\ list[n].mac # list[k].mac \/ list[n].mac = NoMAC
    BY <2>2, <2>3, <2>4, <2>7 DEF WellFormed
  <2>. QED
    BY <2>2, <2>5, <2>6, <2>7 DEF Proper, Distinct
<1>. QED
  BY <1>1, <1>2

LEMMA ShownIsProper ==
    ASSUME NEW u, u.devices \in Lists
    PROVE  Proper(Shown(u)) /\ Len(Shown(u)) \in Nat /\ DOMAIN Shown(u) = 1..Len(Shown(u))
<1>. PICK list, f, g : /\ list = u.devices /\ f = u.filter
                       /\ g = Among(u.devices, u.filter, Len(u.devices))
  OBVIOUS
<1>1. list \in Lists /\ Proper(list)
  BY ListIsProper
<1>2. list \in Seq(Device) /\ Len(list) \in Nat /\ DOMAIN list = 1..Len(list)
  BY <1>1 DEF Proper
<1>3. IsAmong(g, list, f, Len(list)) /\ Shown(u) = g[Len(list)] /\ Len(list) \in 0..Len(list)
  BY <1>2, AmongExists, ShownIs
<1>. PICK shown : shown = Shown(u)
  OBVIOUS
<1>4. shown \in Seq(Device) /\ OnlyFound(shown, list, f, Len(list)) /\ Distinct(shown)
  <2>1. PICK n : n = Len(list)
    OBVIOUS
  <2>2. /\ IsAmong(g, list, f, Len(list)) /\ Distinct(list)
        /\ list \in Seq(Device) /\ n \in 0..Len(list)
    BY <1>1, <1>2, <1>3, <2>1, ListIsProper
  <2>3. g[n] \in Seq(Device) /\ OnlyFound(g[n], list, f, n) /\ Distinct(g[n])
    BY <2>2, AmongIs
  <2>. QED
    BY <1>3, <2>1, <2>3
<1>5. ASSUME NEW n \in DOMAIN shown PROVE \E j \in DOMAIN list : shown[n] = list[j]
  BY <1>2, <1>4 DEF OnlyFound
<1>6. ASSUME NEW n \in DOMAIN shown, shown[n].mac = NoMAC
      PROVE  \E i \in Nat : shown[n].ips = {i}
  <2>1. PICK j \in DOMAIN list : shown[n] = list[j]
    BY <1>5
  <2>. QED
    BY <1>1, <1>6, <2>1 DEF Proper
<1>7. ASSUME NEW n \in DOMAIN shown, NEW k \in DOMAIN shown, n # k
      PROVE  /\ shown[n].ips \cap shown[k].ips = {}
             /\ shown[n].mac # shown[k].mac \/ shown[n].mac = NoMAC
  <2>1. PICK i \in DOMAIN list : shown[n] = list[i]
    BY <1>5
  <2>2. PICK j \in DOMAIN list : shown[k] = list[j]
    BY <1>5
  <2>3. i # j
    BY <1>4, <1>7, <2>1, <2>2 DEF Distinct
  <2>. QED
    BY <1>1, <1>2, <2>1, <2>2, <2>3 DEF Proper
<1>8. Proper(shown)
  BY <1>4, <1>6, <1>7 DEF Proper
<1>. QED
  BY <1>4, <1>8

LEMMA SameShown ==
    ASSUME NEW u, NEW v, u.devices = v.devices, u.filter = v.filter
    PROVE  Shown(u) = Shown(v)
BY DEF Shown

----------------------------------------------------------------------------
(* The Model, and the lines it counts *)

Sizes == Size \cup {[height |-> 24, wrap |-> 1]}

\* The Model that update returns: clampViewport has yet to see its cursor and offsets.
Model == [tab : Tab, devices : Lists, events : Seq(Nat), size : Sizes, filter : Nat,
          filterMode : BOOLEAN, row : Int, scroll : [Tab -> Int], details : BOOLEAN,
          detailScroll : Int, help : BOOLEAN, quitting : BOOLEAN]

LEMMA SizeTypes ==
    ASSUME NEW s \in Sizes
    PROVE  s.height \in Nat /\ s.wrap \in Nat \ {0}
BY DEF Sizes

LEMMA LineTypes ==
    ASSUME NEW u \in Model
    PROVE  /\ ContentHeight(u) \in Nat /\ DetailPage(u) \in Nat \ {0}
           /\ Len(Shown(u)) \in Nat /\ (Shown(u) = <<>> <=> Len(Shown(u)) = 0)
           /\ Rows(u) \in Nat
           /\ ContentHeight(u) > 0 => Rows(u) > 0
<1>1. u.size.height \in Nat
  BY SizeTypes DEF Model
<1>2. ContentHeight(u) \in Nat
  BY <1>1 DEF ContentHeight, Greater
<1>3. DetailPage(u) \in Nat \ {0}
  BY <1>2 DEF DetailPage, Greater
<1>4. Len(Shown(u)) \in Nat /\ (Shown(u) = <<>> <=> Len(Shown(u)) = 0)
  BY ShownIsProper DEF Model, Proper
<1>. DEFINE known == Shown(u)[Lesser(u.row, Len(Shown(u)) - 1) + 1].mac # NoMAC
            rows == ContentHeight(u) - Lesser(2, Greater(0, ContentHeight(u) - 1))
            budget == rows - Lesser(5, Len(Shown(u)))
<1>5. PICK strip \in Nat \ {0} : strip = StripLines[known]
  BY DEF LinesAssumption
<1>6. Rows(u) = IF Shown(u) = <<>> \/ budget < 3 THEN rows
                ELSE rows - (Lesser(strip, budget - 1) + 1)
  BY <1>5 DEF Rows
<1>7. rows \in Nat /\ (ContentHeight(u) > 0 => rows > 0)
  BY <1>2 DEF Lesser, Greater
<1>8. budget \in Int /\ budget <= rows /\ (Len(Shown(u)) > 0 => budget < rows)
  BY <1>4, <1>7 DEF Lesser
<1>. HIDE DEF rows, budget
<1>9. Rows(u) \in Nat /\ (ContentHeight(u) > 0 => Rows(u) > 0)
  BY <1>4, <1>5, <1>6, <1>7, <1>8 DEF Lesser
<1>. QED
  BY <1>2, <1>3, <1>4, <1>9

\* A product of lines.
LEMMA Wrapped == ASSUME NEW a \in Nat, NEW b \in Nat PROVE a * b \in Nat
OBVIOUS

LEMMA TextTypes ==
    ASSUME NEW u \in Model
    PROVE  TabLines(u) \in Nat /\ DetailLines(u) \in Nat /\ PageSize(u) \in Nat
<1>1. u.size.wrap \in Nat /\ Len(u.events) \in Nat /\ Len(u.devices) \in Nat
  BY SizeTypes, ListIsProper DEF Model, Proper
<1>2. u.size.wrap * Len(u.events) \in Nat /\ u.size.wrap * Len(u.devices) \in Nat
      /\ u.size.wrap * GridLines \in Nat
  BY <1>1, Wrapped
<1>3. TabLines(u) \in Nat
  BY <1>2 DEF TabLines, EventLines, Greater
<1>4. DetailLines(u) \in Nat
  <2>. DEFINE known == Shown(u)[u.row + 1].mac # NoMAC
  <2>1. PICK strip \in Nat \ {0} : strip = StripLines[known]
    OBVIOUS
  <2>2. DetailLines(u) = IF Shown(u) = <<>> THEN 1 ELSE u.size.wrap * (3 + strip)
    BY <2>1 DEF DetailLines
  <2>3. u.size.wrap * (3 + strip) \in Nat
    BY <1>1, Wrapped
  <2>. QED
    BY <2>2, <2>3
<1>5. PageSize(u) \in Nat
  BY LineTypes DEF PageSize, Greater
<1>. QED
  BY <1>3, <1>4, <1>5

\* What lines and rows depend on.
LEMMA SameLines ==
    ASSUME NEW u, NEW v, u.devices = v.devices, u.filter = v.filter, u.size = v.size,
           u.filterMode = v.filterMode
    PROVE  /\ Shown(u) = Shown(v) /\ ContentHeight(u) = ContentHeight(v)
           /\ DetailPage(u) = DetailPage(v)
           /\ u.row = v.row => Rows(u) = Rows(v) /\ DetailLines(u) = DetailLines(v)
<1>1. Shown(u) = Shown(v)
  BY SameShown
<1>2. ContentHeight(u) = ContentHeight(v)
  BY DEF ContentHeight
<1>3. DetailPage(u) = DetailPage(v)
  BY <1>2 DEF DetailPage
<1>4. ASSUME u.row = v.row PROVE Rows(u) = Rows(v) /\ DetailLines(u) = DetailLines(v)
  BY <1>1, <1>2, <1>4 DEF Rows, DetailLines
<1>. QED
  BY <1>1, <1>2, <1>3, <1>4

----------------------------------------------------------------------------
(* clampViewport *)

OnList(u) == u.row \in 0..Greater(0, Len(Shown(u)) - 1)

OnPage(u) ==
    ContentHeight(u) > 0 /\ Len(Shown(u)) > 0 =>
        /\ u.row \in u.scroll["devices"]..(u.scroll["devices"] + Rows(u) - 1)
        /\ u.scroll["devices"] <= Greater(0, Len(Shown(u)) - Rows(u))

DetailsFit(u) ==
    u.details => /\ u.detailScroll \in Nat
                 /\ u.detailScroll <= Lesser(DetailLines(u), u.detailScroll + DetailPage(u))

\* u and v differ in the cursor, the offsets and open details at most.
SameBut(u, v) ==
    /\ u.tab = v.tab /\ u.devices = v.devices /\ u.events = v.events /\ u.size = v.size
    /\ u.filter = v.filter /\ u.filterMode = v.filterMode
    /\ u.help = v.help /\ u.quitting = v.quitting

\* Another row, or another offset of the details, is all that changes.
LEMMA OtherRow ==
    ASSUME NEW v \in Model, NEW r \in Int, NEW x, x = [v EXCEPT !.row = r]
    PROVE  /\ x \in Model /\ SameBut(x, v) /\ x.row = r
           /\ x.scroll = v.scroll /\ x.detailScroll = v.detailScroll /\ x.details = v.details
<1>1. x \in Model
  BY DEF Model
<1>2. /\ x.row = r
      /\ x.scroll = v.scroll /\ x.detailScroll = v.detailScroll /\ x.details = v.details
  BY DEF Model
<1>3. SameBut(x, v)
  BY DEF Model, SameBut
<1>. QED
  BY <1>1, <1>2, <1>3

LEMMA OtherDetails ==
    ASSUME NEW v \in Model, NEW r \in Int, NEW x, x = [v EXCEPT !.detailScroll = r]
    PROVE  /\ x \in Model /\ SameBut(x, v) /\ x.row = v.row
           /\ x.scroll = v.scroll /\ x.detailScroll = r /\ x.details = v.details
<1>1. x \in Model
  BY DEF Model
<1>2. /\ x.row = v.row
      /\ x.scroll = v.scroll /\ x.detailScroll = r /\ x.details = v.details
  BY DEF Model
<1>3. SameBut(x, v)
  BY DEF Model, SameBut
<1>. QED
  BY <1>1, <1>2, <1>3

\* Where a tab that is not the devices' begins once it is clamped.
Beginnings(v) == Greater(0, Lesser(v.scroll[v.tab], Greater(0, TabLines(v) - ContentHeight(v))))

\* The page of a list of n rows that clampViewport moves to the cursor.
LEMMA PageShowsRow ==
    ASSUME NEW n \in Nat \ {0}, NEW rows \in Nat \ {0}, NEW row \in 0..(n - 1), NEW scroll \in Int,
           NEW start, start = Lesser(scroll, Greater(0, n - rows)),
           NEW u, u.row = row, NEW first, first = Greater(0, Start(u, rows, start))
    PROVE  row \in first..(first + rows - 1) /\ first <= Greater(0, n - rows)
<1>1. start \in Int /\ start <= Greater(0, n - rows)
  BY DEF Lesser, Greater
<1>2. first = Greater(0, IF row < start THEN row
                        ELSE IF row >= start + rows THEN row - rows + 1 ELSE start)
  BY DEF Start
<1>. QED
  BY <1>1, <1>2 DEF Greater

\* Whatever update did to the cursor and the offsets, they are back on the list.
Clamps(v, w) ==
    /\ w \in Model /\ SameBut(w, v) /\ w.row = ClampedRow(v) /\ w.details = v.details
    /\ w.scroll["devices"] \in Nat /\ w.scroll[v.tab] \in Nat
    /\ \A t \in Tab \ {"devices", v.tab} : w.scroll[t] = v.scroll[t]
    /\ v.tab # "devices" => w.scroll[v.tab] = Beginnings(v)
    /\ ~v.details => w.detailScroll = v.detailScroll
    /\ OnList(w) /\ OnPage(w) /\ DetailsFit(w)

LEMMA ClampedFits ==
    ASSUME NEW v \in Model, NEW w, w = Clamped(v)
    PROVE  Clamps(v, w)
<1>. DEFINE n == Len(Shown(v))
            u == [v EXCEPT !.row = ClampedRow(v)]
            rows == Greater(1, Rows(u))
            start == Lesser(v.scroll["devices"], Greater(0, n - rows))
            last == Greater(0, TabLines(u) - ContentHeight(u))
            scroll == [t \in Tab |->
                CASE t = "devices" -> Greater(0, Start(u, rows, start))
                  [] t = v.tab /\ t # "devices" -> Greater(0, Lesser(v.scroll[t], last))
                  [] OTHER -> v.scroll[t]]
            detail == IF v.details THEN ClampedDetails(u) ELSE v.detailScroll
<1>1. n \in Nat
  BY LineTypes
<1>2. ClampedRow(v) \in 0..Greater(0, n - 1)
  BY <1>1 DEF ClampedRow, Lesser, Greater, Model
<1>3. u \in Model /\ u.row = ClampedRow(v) /\ SameBut(u, v) /\ u.scroll = v.scroll
      /\ u.detailScroll = v.detailScroll /\ u.details = v.details
  <2>1. ClampedRow(v) \in Int
    BY <1>1, <1>2 DEF Greater
  <2>. QED
    BY <2>1, OtherRow
<1>4. Shown(u) = Shown(v)
  BY <1>3, SameLines DEF SameBut
<1>5. w = [u EXCEPT !.scroll = scroll, !.detailScroll = detail]
  BY <1>3, <1>4 DEF Clamped, SameBut
<1>6. rows \in Nat \ {0} /\ last \in Nat /\ start \in Int
      /\ DetailLines(u) \in Nat /\ DetailPage(u) \in Nat \ {0}
      /\ (ContentHeight(u) > 0 => rows = Rows(u))
  <2>. HIDE DEF u
  <2>1. /\ Rows(u) \in Nat /\ (ContentHeight(u) > 0 => Rows(u) > 0) /\ ContentHeight(u) \in Nat
        /\ TabLines(u) \in Nat /\ DetailLines(u) \in Nat /\ DetailPage(u) \in Nat \ {0}
    BY <1>3, LineTypes, TextTypes
  <2>2. v.scroll["devices"] \in Int
    BY DEF Model, Tab
  <2>. QED
    BY <1>1, <2>1, <2>2 DEF Greater, Lesser
<1>7. /\ scroll \in [Tab -> Int] /\ scroll["devices"] \in Nat /\ scroll[v.tab] \in Nat
      /\ \A t \in Tab \ {"devices", v.tab} : scroll[t] = v.scroll[t]
      /\ v.tab # "devices" => scroll[v.tab] = Greater(0, Lesser(v.scroll[v.tab], last))
  <2>1. Greater(0, Start(u, rows, start)) \in Nat
    <3>1. u.row \in Int
      BY <1>3 DEF Model
    <3>. HIDE DEF u, rows, start
    <3>. QED
      BY <1>6, <3>1 DEF Greater, Start
  <2>2. v.scroll \in [Tab -> Int] /\ v.tab \in Tab
    BY DEF Model
  <2>3. Greater(0, Lesser(v.scroll[v.tab], last)) \in Nat
    <3>. HIDE DEF last
    <3>. QED
      BY <1>6, <2>2 DEF Greater, Lesser
  <2>. HIDE DEF u, rows, start, last
  <2>. QED
    BY <2>1, <2>2, <2>3 DEF Tab
<1>0. last = Greater(0, TabLines(v) - ContentHeight(v))
  <2>1. TabLines(u) = TabLines(v)
    BY <1>3 DEF SameBut, TabLines, EventLines
  <2>2. ContentHeight(u) = ContentHeight(v)
    BY <1>3, SameLines DEF SameBut
  <2>. QED
    BY <2>1, <2>2
<1>8. detail \in Int /\ (v.details => detail \in Nat /\ detail <= DetailLines(u))
  <2>1. v.detailScroll \in Int /\ v.details \in BOOLEAN /\ u.detailScroll = v.detailScroll
    BY <1>3 DEF Model
  <2>. HIDE DEF u
  <2>. QED
    BY <1>6, <2>1 DEF ClampedDetails, Greater, Lesser
<1>9. scroll["devices"] = Greater(0, Start(u, rows, start))
  BY DEF Tab
<1>. HIDE DEF scroll, detail, last
<1>10. w \in Model /\ SameBut(w, v) /\ w.row = ClampedRow(v) /\ w.scroll = scroll
       /\ w.detailScroll = detail /\ w.details = v.details
  BY <1>3, <1>5, <1>7, <1>8 DEF Model, SameBut
<1>11. /\ Shown(w) = Shown(v) /\ Rows(w) = Rows(u) /\ ContentHeight(w) = ContentHeight(u)
       /\ DetailLines(w) = DetailLines(u) /\ DetailPage(w) = DetailPage(u)
  <2>1. /\ w.devices = v.devices /\ w.filter = v.filter /\ w.size = v.size
        /\ w.filterMode = v.filterMode
    BY <1>10 DEF SameBut
  <2>2. /\ w.devices = u.devices /\ w.filter = u.filter /\ w.size = u.size
        /\ w.filterMode = u.filterMode
    BY <1>3, <2>1 DEF SameBut
  <2>3. w.row = u.row
    BY <1>3, <1>10
  <2>4. Shown(w) = Shown(v)
    BY <2>1, SameLines, Zenon
  <2>. HIDE DEF u
  <2>. QED
    BY <2>2, <2>3, <2>4, SameLines, Zenon
<1>. HIDE DEF u
<1>12. OnList(w)
  BY <1>2, <1>10, <1>11 DEF OnList
<1>13. OnPage(w)
  <2>. SUFFICES ASSUME ContentHeight(w) > 0, n > 0
                PROVE  /\ w.row \in scroll["devices"]..(scroll["devices"] + rows - 1)
                       /\ scroll["devices"] <= Greater(0, n - rows)
    BY <1>6, <1>10, <1>11 DEF OnPage
  <2>1. w.row = u.row /\ u.row \in 0..(n - 1)
    BY <1>1, <1>2, <1>3, <1>10 DEF Greater
  <2>2. v.scroll["devices"] \in Int
    BY DEF Model, Tab
  <2>. HIDE DEF n, rows
  <2>. QED
    BY <1>1, <1>6, <1>9, <2>1, <2>2, PageShowsRow
<1>14. DetailsFit(w)
  BY <1>6, <1>8, <1>10, <1>11 DEF DetailsFit, Lesser, SameBut
<1>15. v.details \in BOOLEAN
  BY DEF Model
<1>16. ~v.details => w.detailScroll = v.detailScroll
  BY <1>10 DEF detail
<1>17. v.tab # "devices" => w.scroll[v.tab] = Beginnings(v)
  <2>1. ASSUME v.tab # "devices"
        PROVE  w.scroll[v.tab] = Greater(0, Lesser(v.scroll[v.tab], last))
    BY <1>7, <1>10, <2>1
  <2>2. Beginnings(v) = Greater(0, Lesser(v.scroll[v.tab], last))
    BY <1>0 DEF Beginnings
  <2>. QED
    BY <2>1, <2>2
<1>18. w.scroll["devices"] \in Nat /\ w.scroll[v.tab] \in Nat
       /\ \A t \in Tab \ {"devices", v.tab} : w.scroll[t] = v.scroll[t]
  BY <1>7, <1>10
<1>. QED
  BY <1>10, <1>12, <1>13, <1>14, <1>16, <1>17, <1>18 DEF Clamps

----------------------------------------------------------------------------
(* Update *)

\* Rows have a first one.
LEMMA FirstRow ==
    ASSUME NEW rows \in SUBSET Nat, rows # {}
    PROVE  LET first == CHOOSE n \in rows : \A k \in rows : n <= k
           IN  first \in rows /\ \A k \in rows : first <= k
<1>. DEFINE less == OpToRel(<, Nat)
<1>1. PICK n \in rows : \A k \in rows : ~(<<k, n>> \in less)
  BY NatLessThanWellFounded, WFMin, Zenon
<1>2. ASSUME NEW k \in rows PROVE n <= k
  <2>1. n \in Nat /\ k \in Nat /\ (<<k, n>> \in less <=> k < n)
    BY DEF OpToRel
  <2>2. ~(<<k, n>> \in less)
    BY <1>1
  <2>. HIDE DEF less
  <2>. QED
    BY <2>1, <2>2
<1>. QED
  BY <1>2

\* The device is searched for among the rows of the new list, and is not found.
Sought(u, v, ticked) == Searches(u, v, ticked) /\ Selected(u) # Nothing
Candidates(u, v)     == RowsOf(Selected(u), Shown(v))
IsLost(u, v, ticked) == Sought(u, v, ticked) /\ Candidates(u, v) = {}

\* What Update makes of v: the cursor on the device it was on, or as near as there is.
Outcome(u, v, ticked, w) ==
    /\ w \in Model /\ OnList(w) /\ OnPage(w) /\ DetailsFit(w)
    /\ SameBut(w, v) /\ (w.details <=> v.details /\ ~IsLost(u, v, ticked))
    /\ w.scroll["devices"] \in Nat /\ w.scroll[v.tab] \in Nat
    /\ \A t \in Tab \ {"devices", v.tab} : w.scroll[t] = v.scroll[t]
    /\ v.tab # "devices" => w.scroll[v.tab] = Beginnings(v)
    /\ ~v.details => w.detailScroll \in {0, v.detailScroll}
    /\ v.details => w.detailScroll \in Nat
    /\ IF Sought(u, v, ticked) /\ ~IsLost(u, v, ticked)
       THEN w.row \in Candidates(u, v) ELSE w.row = ClampedRow(v)

LEMMA UpdatedIs ==
    ASSUME NEW u \in Model, NEW v \in Model, NEW ticked \in BOOLEAN,
           NEW w, w = Updated(u, v, ticked)
    PROVE  Outcome(u, v, ticked, w)
<1>. DEFINE first == CHOOSE n \in Candidates(u, v) : \A k \in Candidates(u, v) : n <= k
            x == IF ~Sought(u, v, ticked) THEN v
                 ELSE IF IsLost(u, v, ticked) THEN Lost(v) ELSE [v EXCEPT !.row = first]
            lost == IsLost(u, v, ticked)
<1>1. Candidates(u, v) \subseteq 0..(Len(Shown(v)) - 1)
  BY DEF Candidates, RowsOf
<1>2. Len(Shown(v)) \in Nat
  BY LineTypes
<1>3. ASSUME Candidates(u, v) # {} PROVE first \in Candidates(u, v) /\ first \in 0..(Len(Shown(v)) - 1)
  BY <1>1, <1>2, <1>3, FirstRow
<1>4. lost \in BOOLEAN /\ Sought(u, v, ticked) \in BOOLEAN
  BY DEF IsLost, Sought
<1>5. w = IF lost \/ ~Matches(Selected(u), Selected(Clamped(x)))
          THEN [Clamped(x) EXCEPT !.detailScroll = 0] ELSE Clamped(x)
  BY DEF Updated, Sought, Candidates, IsLost
<1>6. /\ x \in Model /\ SameBut(x, v) /\ x.scroll = v.scroll
      /\ x.detailScroll = v.detailScroll /\ (x.details <=> v.details /\ ~lost)
      /\ x.row = IF Sought(u, v, ticked) /\ ~lost THEN first ELSE v.row
  <2>1. CASE ~Sought(u, v, ticked)
    BY <2>1 DEF IsLost, Model, SameBut
  <2>2. CASE lost
    BY <2>2 DEF IsLost, Lost, Model, SameBut
  <2>3. CASE Sought(u, v, ticked) /\ ~lost
    <3>1. PICK r \in Int : r = first
      BY <1>2, <1>3, <2>3 DEF IsLost
    <3>2. x = [v EXCEPT !.row = r]
      BY <2>3, <3>1
    <3>3. /\ x \in Model /\ SameBut(x, v) /\ x.scroll = v.scroll
          /\ x.detailScroll = v.detailScroll /\ x.details = v.details /\ x.row = r
      BY <3>2, OtherRow
    <3>. QED
      BY <2>3, <3>1, <3>3
  <2>. QED
    BY <2>1, <2>2, <2>3
<1>. HIDE DEF x, lost, first
<1>. PICK c : c = Clamped(x)
  OBVIOUS
<1>7. /\ c \in Model /\ SameBut(c, x) /\ c.row = ClampedRow(x) /\ c.details = x.details
      /\ c.scroll["devices"] \in Nat /\ c.scroll[x.tab] \in Nat
      /\ \A t \in Tab \ {"devices", x.tab} : c.scroll[t] = x.scroll[t]
      /\ x.tab # "devices" => c.scroll[x.tab] = Beginnings(x)
      /\ ~x.details => c.detailScroll = x.detailScroll
      /\ OnList(c) /\ OnPage(c) /\ DetailsFit(c)
  <2>1. Clamps(x, c)
    BY <1>6, ClampedFits
  <2>. QED
    BY <2>1 DEF Clamps
<1>8. /\ w = c \/ w = [c EXCEPT !.detailScroll = 0]
      /\ lost => w = [c EXCEPT !.detailScroll = 0]
  BY <1>5
<1>9. /\ w \in Model /\ SameBut(w, c) /\ w.row = c.row /\ w.scroll = c.scroll
      /\ w.details = c.details
      /\ w.detailScroll \in {0, c.detailScroll} /\ (lost => w.detailScroll = 0)
  <2>1. CASE w = c
    BY <1>7, <1>8, <2>1, OtherDetails DEF SameBut
  <2>2. CASE w = [c EXCEPT !.detailScroll = 0]
    <3>. QED
      BY <1>7, <2>2, OtherDetails
  <2>. QED
    BY <1>8, <2>1, <2>2
<1>10. /\ Shown(w) = Shown(c) /\ Rows(w) = Rows(c) /\ ContentHeight(w) = ContentHeight(c)
       /\ DetailLines(w) = DetailLines(c) /\ DetailPage(w) = DetailPage(c)
  BY <1>9, SameLines DEF SameBut
<1>11. OnList(w) /\ OnPage(w)
  BY <1>7, <1>9, <1>10 DEF OnList, OnPage
<1>12. DetailsFit(w)
  <2>1. DetailLines(c) \in Nat /\ DetailPage(c) \in Nat
    BY <1>7, LineTypes, TextTypes
  <2>. QED
    BY <1>7, <1>9, <1>10, <2>1 DEF DetailsFit, Lesser
<1>13. SameBut(w, v)
  BY <1>6, <1>7, <1>9 DEF SameBut
<1>14. (w.details <=> v.details /\ ~lost) /\ v.details \in BOOLEAN
  BY <1>6, <1>7, <1>9 DEF Model
<1>15. /\ w.scroll["devices"] \in Nat /\ w.scroll[v.tab] \in Nat
       /\ \A t \in Tab \ {"devices", v.tab} : w.scroll[t] = v.scroll[t]
  BY <1>6, <1>7, <1>9 DEF SameBut
<1>16. ~v.details => w.detailScroll \in {0, v.detailScroll}
  BY <1>6, <1>7, <1>9
<1>19. v.tab # "devices" => w.scroll[v.tab] = Beginnings(v)
  <2>1. Beginnings(x) = Beginnings(v)
    BY <1>6 DEF Beginnings, TabLines, EventLines, ContentHeight, SameBut
  <2>. QED
    BY <1>6, <1>7, <1>9, <2>1 DEF SameBut
<1>17. v.details => w.detailScroll \in Nat
  BY <1>7, <1>9, <1>14 DEF DetailsFit
<1>18. IF Sought(u, v, ticked) /\ ~lost THEN w.row \in Candidates(u, v)
       ELSE w.row = ClampedRow(v)
  <2>1. CASE Sought(u, v, ticked) /\ ~lost
    <3>1. Shown(x) = Shown(v)
      BY <1>6, SameLines DEF SameBut
    <3>2. first \in Candidates(u, v) /\ first \in 0..(Len(Shown(v)) - 1) /\ x.row = first
      BY <1>3, <1>6, <2>1 DEF IsLost, lost
    <3>3. ClampedRow(x) = first
      BY <1>2, <3>1, <3>2 DEF ClampedRow, Greater, Lesser
    <3>. QED
      BY <1>7, <1>9, <2>1, <3>2, <3>3
  <2>2. CASE ~(Sought(u, v, ticked) /\ ~lost)
    <3>1. Shown(x) = Shown(v) /\ x.row = v.row
      BY <1>6, <2>2, SameLines DEF SameBut
    <3>. QED
      BY <1>7, <1>9, <2>2, <3>1 DEF ClampedRow
  <2>. QED
    BY <2>1, <2>2
<1>. QED
  BY <1>9, <1>11, <1>12, <1>13, <1>14, <1>15, <1>16, <1>17, <1>18, <1>19 DEF Outcome, lost

----------------------------------------------------------------------------
(* Keys *)

\* Open details are those of a shown device, and nothing is typed over them.
OpenOK(u) == u.details => u.tab = "devices" /\ ~u.filterMode /\ Len(Shown(u)) > 0

\* What a key makes of the Model: offsets may leave the list where clampViewport brings them
\* back, and open details keep the list they are on.
Handled(u, v, k) ==
    /\ v \in Model
    /\ v.devices = u.devices /\ v.events = u.events /\ v.size = u.size
    /\ \A t \in Tab \ {v.tab} : v.scroll[t] \in Nat
    /\ ~v.details => v.detailScroll \in Nat
    /\ v.details => v.tab = "devices" /\ ~v.filterMode /\ v.filter = u.filter /\ Len(Shown(u)) > 0
    /\ v.details \/ k \notin CursorKey => v.row = u.row
    /\ v.filter <= u.filter + 1
    /\ v.filter > u.filter => k \in Rune /\ u.filterMode

ScrollsNat(u) == u.detailScroll \in Nat /\ \A t \in Tab : u.scroll[t] \in Nat

\* A key that nothing takes, and one that quits.
LEMMA UnchangedHandled ==
    ASSUME NEW u \in Model, ScrollsNat(u), OpenOK(u), NEW k
    PROVE  Handled(u, u, k) /\ Handled(u, Quit(u), k)
<1>0. u.filter \in Nat /\ u.details \in BOOLEAN
  BY DEF Model
<1>1. Handled(u, u, k)
  BY <1>0 DEF Handled, ScrollsNat, OpenOK
<1>2. PICK v : v = Quit(u)
  OBVIOUS
<1>3. v \in Model
  BY <1>2 DEF Quit, Model
<1>4. /\ v.devices = u.devices /\ v.events = u.events /\ v.size = u.size /\ v.row = u.row
      /\ v.tab = u.tab /\ v.filter = u.filter /\ v.filterMode = u.filterMode
      /\ v.details = u.details /\ v.scroll = u.scroll /\ v.detailScroll = u.detailScroll
  BY <1>2 DEF Quit, Model
<1>5. Handled(u, v, k)
  BY <1>0, <1>3, <1>4 DEF Handled, ScrollsNat, OpenOK
<1>. QED
  BY <1>1, <1>2, <1>5

\* The filter takes every key.
LEMMA FilterKeyIs ==
    ASSUME NEW u \in Model, ScrollsNat(u), OpenOK(u), NEW k, u.filterMode
    PROVE  Handled(u, FilterKey(u, k), k)
<1>0. ~u.details /\ u.filter \in Nat
  BY DEF OpenOK, Model
<1>1. CASE k = "ctrl+c"
  BY <1>1, UnchangedHandled DEF FilterKey, Rune
<1>2. CASE k = "enter"
  <2>1. PICK v : v = [u EXCEPT !.filterMode = FALSE]
    OBVIOUS
  <2>2. v \in Model
    BY <1>0, <2>1 DEF Model
  <2>3. /\ v.devices = u.devices /\ v.events = u.events /\ v.size = u.size /\ v.row = u.row
        /\ v.tab = u.tab /\ v.filter = u.filter /\ v.details = u.details /\ v.scroll = u.scroll
        /\ v.detailScroll = u.detailScroll
        /\ v.filterMode = FALSE
    BY <2>1 DEF Model
  <2>4. FilterKey(u, k) = v
    BY <1>2, <2>1 DEF FilterKey, Rune
  <2>. QED
    BY <1>0, <1>2, <2>2, <2>3, <2>4 DEF Handled, ScrollsNat, OpenOK
<1>3. CASE k = "esc"
  <2>1. PICK v : v = [u EXCEPT !.filterMode = FALSE, !.filter = 0]
    OBVIOUS
  <2>2. v \in Model
    BY <1>0, <2>1 DEF Model
  <2>3. /\ v.devices = u.devices /\ v.events = u.events /\ v.size = u.size /\ v.row = u.row
        /\ v.tab = u.tab /\ v.details = u.details /\ v.scroll = u.scroll /\ v.detailScroll = u.detailScroll
        /\ v.filter = 0 /\ v.filterMode = FALSE
    BY <2>1 DEF Model
  <2>4. FilterKey(u, k) = v
    BY <1>3, <2>1 DEF FilterKey, Rune
  <2>. QED
    BY <1>0, <1>3, <2>2, <2>3, <2>4 DEF Handled, ScrollsNat, OpenOK
<1>4. CASE k = "backspace"
  <2>0. PICK f \in 0..u.filter : f = Greater(0, u.filter - 1)
    BY <1>0 DEF Greater
  <2>1. PICK v : v = [u EXCEPT !.filter = f]
    OBVIOUS
  <2>2. v \in Model
    <3>1. f \in Nat
      BY <1>0, <2>0
    <3>. QED
      BY <2>1, <3>1 DEF Model
  <2>3. /\ v.devices = u.devices /\ v.events = u.events /\ v.size = u.size /\ v.row = u.row
        /\ v.tab = u.tab /\ v.filterMode = u.filterMode /\ v.details = u.details /\ v.scroll = u.scroll
        /\ v.detailScroll = u.detailScroll
        /\ v.filter = f
    BY <2>1 DEF Model
  <2>4. FilterKey(u, k) = v
    BY <1>4, <2>0, <2>1 DEF FilterKey, Rune
  <2>. QED
    BY <1>0, <1>4, <2>0, <2>2, <2>3, <2>4 DEF Handled, ScrollsNat, OpenOK
<1>5. CASE k \in Rune
  <2>0. PICK f \in Nat : f = u.filter + 1
    BY <1>0
  <2>1. PICK v : v = [u EXCEPT !.filter = f]
    OBVIOUS
  <2>2. v \in Model
    BY <2>0, <2>1 DEF Model
  <2>3. /\ v.devices = u.devices /\ v.events = u.events /\ v.size = u.size /\ v.row = u.row
        /\ v.tab = u.tab /\ v.filterMode = u.filterMode /\ v.details = u.details /\ v.scroll = u.scroll
        /\ v.detailScroll = u.detailScroll
        /\ v.filter = f
    BY <2>1 DEF Model
  <2>4. FilterKey(u, k) = v
    BY <1>5, <2>0, <2>1 DEF FilterKey, Rune
  <2>. QED
    BY <1>0, <1>5, <2>0, <2>2, <2>3, <2>4 DEF Handled, ScrollsNat, OpenOK
<1>6. CASE k \notin Rune \cup {"ctrl+c", "enter", "esc", "backspace"}
  <2>1. FilterKey(u, k) = u
    BY <1>6 DEF FilterKey
  <2>. QED
    BY <2>1, UnchangedHandled
<1>. QED
  BY <1>1, <1>2, <1>3, <1>4, <1>5, <1>6

\* Open details take the keys that scroll and close them.
LEMMA DetailKeyIs ==
    ASSUME NEW u \in Model, ScrollsNat(u), OpenOK(u), NEW k, u.details, IsDetailKey(k)
    PROVE  Handled(u, DetailKey(u, k), k)
<1>0. /\ u.tab = "devices" /\ ~u.filterMode /\ Len(Shown(u)) > 0
      /\ u.filter \in Nat /\ u.detailScroll \in Nat
      /\ DetailPage(u) \in Nat /\ DetailLines(u) \in Nat
  BY LineTypes, TextTypes DEF OpenOK, ScrollsNat, Model
<1>1. CASE k \in {"esc", "enter"}
  <2>1. PICK v : v = [u EXCEPT !.details = FALSE]
    OBVIOUS
  <2>2. v \in Model
    BY <1>0, <2>1 DEF Model
  <2>3. /\ v.devices = u.devices /\ v.events = u.events /\ v.size = u.size /\ v.row = u.row
        /\ v.tab = u.tab /\ v.filter = u.filter /\ v.filterMode = u.filterMode /\ v.scroll = u.scroll
        /\ v.detailScroll = u.detailScroll
        /\ v.details = FALSE
    BY <2>1 DEF Model
  <2>4. DetailKey(u, k) = v
    BY <1>1, <2>1 DEF DetailKey
  <2>. QED
    BY <1>0, <1>1, <2>2, <2>3, <2>4 DEF Handled, ScrollsNat, OpenOK
<1>2. ASSUME NEW n \in Int PROVE Handled(u, [u EXCEPT !.detailScroll = n], k)
  <2>1. PICK v : v = [u EXCEPT !.detailScroll = n]
    OBVIOUS
  <2>2. /\ v \in Model /\ SameBut(v, u) /\ v.row = u.row
        /\ v.scroll = u.scroll /\ v.detailScroll = n /\ v.details = u.details
    <3>1. \A r \in Int : v = [u EXCEPT !.detailScroll = r] =>
              /\ v \in Model /\ SameBut(v, u) /\ v.row = u.row
              /\ v.scroll = u.scroll /\ v.detailScroll = r /\ v.details = u.details
      BY OtherDetails
    <3>. QED
      BY <1>2, <2>1, <3>1
  <2>3. Handled(u, v, k)
    BY <1>0, <2>2 DEF Handled, ScrollsNat, SameBut
  <2>. QED
    BY <2>1, <2>3
<1>3. CASE k = "up"
  <2>1. DetailKey(u, k) = [u EXCEPT !.detailScroll = u.detailScroll - 1]
    BY <1>3 DEF DetailKey
  <2>2. u.detailScroll - 1 \in Int
    BY <1>0
  <2>. QED
    BY <1>2, <2>1, <2>2
<1>4. CASE k = "down"
  <2>1. DetailKey(u, k) = [u EXCEPT !.detailScroll = u.detailScroll + 1]
    BY <1>4 DEF DetailKey
  <2>2. u.detailScroll + 1 \in Int
    BY <1>0
  <2>. QED
    BY <1>2, <2>1, <2>2
<1>5. CASE k = "pgup"
  <2>1. DetailKey(u, k) = [u EXCEPT !.detailScroll = u.detailScroll - DetailPage(u)]
    BY <1>5 DEF DetailKey
  <2>2. u.detailScroll - DetailPage(u) \in Int
    BY <1>0
  <2>. QED
    BY <1>2, <2>1, <2>2
<1>6. CASE k = "pgdown"
  <2>1. DetailKey(u, k) = [u EXCEPT !.detailScroll = u.detailScroll + DetailPage(u)]
    BY <1>6 DEF DetailKey
  <2>2. u.detailScroll + DetailPage(u) \in Int
    BY <1>0
  <2>. QED
    BY <1>2, <2>1, <2>2
<1>7. CASE k = "home"
  <2>1. DetailKey(u, k) = [u EXCEPT !.detailScroll = 0]
    BY <1>7 DEF DetailKey
  <2>2. 0 \in Int
    BY <1>0
  <2>. QED
    BY <1>2, <2>1, <2>2
<1>8. CASE k = "end"
  <2>1. DetailKey(u, k) = [u EXCEPT !.detailScroll = DetailLines(u)]
    BY <1>8 DEF DetailKey
  <2>2. DetailLines(u) \in Int
    BY <1>0
  <2>. QED
    BY <1>2, <2>1, <2>2
<1>. QED
  BY <1>1, <1>3, <1>4, <1>5, <1>6, <1>7, <1>8 DEF IsDetailKey

\* Keys move the cursor or an offset, of the tab that shows.
LEMMA MovedIs ==
    ASSUME NEW u \in Model, ScrollsNat(u), ~u.details, NEW k \in CursorKey, NEW n \in Int
    PROVE  /\ Handled(u, [u EXCEPT !.row = n], k)
           /\ Handled(u, [u EXCEPT !.scroll[u.tab] = n], k)
           /\ Handled(u, Moved(u, n), k)
<1>0. u.filter \in Nat /\ u.tab \in Tab /\ u.row \in Int /\ u.scroll \in [Tab -> Int]
  BY DEF Model
<1>1. ASSUME NEW r \in Int PROVE Handled(u, [u EXCEPT !.row = r], k)
  <2>1. PICK v : v = [u EXCEPT !.row = r]
    OBVIOUS
  <2>2. /\ v \in Model /\ SameBut(v, u) /\ v.row = r
        /\ v.scroll = u.scroll /\ v.detailScroll = u.detailScroll /\ v.details = u.details
    BY <1>1, <2>1, OtherRow
  <2>3. Handled(u, v, k)
    BY <1>0, <2>2 DEF Handled, ScrollsNat, SameBut
  <2>. QED
    BY <2>1, <2>3
<1>2. ASSUME NEW r \in Int PROVE Handled(u, [u EXCEPT !.scroll[u.tab] = r], k)
  <2>1. PICK v : v = [u EXCEPT !.scroll[u.tab] = r]
    OBVIOUS
  <2>2. PICK scroll : scroll = [u.scroll EXCEPT ![u.tab] = r]
    OBVIOUS
  <2>3. scroll \in [Tab -> Int] /\ \A t \in Tab \ {u.tab} : scroll[t] = u.scroll[t]
    BY <1>0, <1>2, <2>2
  <2>4. v = [u EXCEPT !.scroll = scroll]
    BY <2>1, <2>2
  <2>5. v \in Model
    BY <2>3, <2>4 DEF Model
  <2>6. /\ v.devices = u.devices /\ v.events = u.events /\ v.size = u.size /\ v.row = u.row
        /\ v.tab = u.tab /\ v.filter = u.filter /\ v.filterMode = u.filterMode
        /\ v.details = u.details /\ v.scroll = scroll /\ v.detailScroll = u.detailScroll
    BY <2>4 DEF Model
  <2>7. Handled(u, v, k)
    BY <1>0, <2>3, <2>5, <2>6 DEF Handled, ScrollsNat
  <2>. QED
    BY <2>1, <2>7
<1>3. Handled(u, Moved(u, n), k)
  <2>1. CASE u.tab = "devices"
    <3>1. Moved(u, n) = [u EXCEPT !.row = u.row + n]
      BY <2>1 DEF Moved
    <3>. QED
      BY <1>0, <1>1, <3>1
  <2>2. CASE u.tab # "devices"
    <3>1. Moved(u, n) = [u EXCEPT !.scroll[u.tab] = u.scroll[u.tab] + n]
      BY <2>2 DEF Moved
    <3>2. u.scroll[u.tab] + n \in Int
      BY <1>0
    <3>. QED
      BY <1>2, <3>1, <3>2
  <2>. QED
    BY <2>1, <2>2
<1>. QED
  BY <1>1, <1>2, <1>3

\* The tab takes the keys that nothing else takes.
LEMMA MainKeyIs ==
    ASSUME NEW u \in Model, ScrollsNat(u), OpenOK(u), NEW k, ~u.filterMode,
           u.details => ~IsDetailKey(k)
    PROVE  Handled(u, MainKey(u, k), k)
<1>0. /\ u.filter \in Nat /\ u.tab \in Tab /\ u.details \in BOOLEAN
      /\ u.detailScroll \in Nat /\ u.scroll \in [Tab -> Int]
  BY DEF Model, ScrollsNat
<1>1. ASSUME NEW tab \in Tab PROVE Handled(u, Opened(u, tab), k)
  <2>1. PICK v : v = Opened(u, tab)
    OBVIOUS
  <2>2. v \in Model
    BY <1>1, <2>1 DEF Model, Opened
  <2>3. /\ v.devices = u.devices /\ v.events = u.events /\ v.size = u.size /\ v.row = u.row
        /\ v.tab = tab /\ v.filter = u.filter /\ ~v.details
        /\ v.scroll = u.scroll /\ v.detailScroll = u.detailScroll
    BY <2>1 DEF Model, Opened
  <2>. QED
    BY <1>0, <2>1, <2>2, <2>3 DEF Handled, ScrollsNat
<1>2. CASE k \in {"1", "2", "3", "4"}
  <2>1. PICK tab \in Tab : MainKey(u, k) = Opened(u, tab)
    BY <1>2 DEF MainKey, Tab
  <2>. QED
    BY <1>1, <2>1
<1>3. CASE k \in {"q", "ctrl+c"} \/ (k = "esc" /\ u.filter = 0)
  <2>1. MainKey(u, k) = Quit(u)
    BY <1>3 DEF MainKey
  <2>. QED
    BY <2>1, UnchangedHandled
<1>4. CASE k = "esc" /\ u.filter # 0
  <2>1. PICK v : v = [u EXCEPT !.filter = 0]
    OBVIOUS
  <2>2. v \in Model
    BY <1>0, <2>1 DEF Model
  <2>3. /\ v.devices = u.devices /\ v.events = u.events /\ v.size = u.size /\ v.row = u.row
        /\ v.tab = u.tab /\ v.filterMode = u.filterMode /\ v.details = u.details /\ v.scroll = u.scroll
        /\ v.detailScroll = u.detailScroll
        /\ v.filter = 0
    BY <2>1 DEF Model
  <2>4. MainKey(u, k) = v
    BY <1>0, <1>4, <2>1 DEF MainKey
  <2>. QED
    BY <1>0, <1>4, <2>2, <2>3, <2>4 DEF Handled, ScrollsNat, IsDetailKey
<1>5. CASE k = "enter" /\ ~(u.tab = "devices" /\ Shown(u) # <<>>)
  <2>1. MainKey(u, k) = u
    BY <1>5 DEF MainKey
  <2>. QED
    BY <2>1, UnchangedHandled
<1>6. CASE k = "enter" /\ u.tab = "devices" /\ Shown(u) # <<>>
  <2>1. PICK v : v = [u EXCEPT !.details = TRUE, !.detailScroll = 0]
    OBVIOUS
  <2>2. v \in Model
    <3>1. v = [[u EXCEPT !.details = TRUE] EXCEPT !.detailScroll = 0]
      BY <2>1
    <3>2. PICK x \in Model : x = [u EXCEPT !.details = TRUE]
      BY DEF Model
    <3>3. v = [x EXCEPT !.detailScroll = 0]
      BY <3>1, <3>2
    <3>4. \A r \in Int : v = [x EXCEPT !.detailScroll = r] => v \in Model
      BY <3>2, OtherDetails
    <3>. QED
      BY <3>3, <3>4
  <2>3. /\ v.devices = u.devices /\ v.events = u.events /\ v.size = u.size /\ v.row = u.row
        /\ v.tab = u.tab /\ v.filter = u.filter /\ v.filterMode = u.filterMode /\ v.scroll = u.scroll
        /\ v.details = TRUE /\ v.detailScroll = 0
    BY <2>1 DEF Model
  <2>4. MainKey(u, k) = v
    BY <1>6, <2>1 DEF MainKey
  <2>. QED
    <3>1. Len(Shown(u)) > 0
      BY <1>6, LineTypes
    <3>2. v.row = u.row /\ v.tab = "devices" /\ ~v.filterMode
      BY <1>0, <1>6, <2>3
    <3>3. \A t \in Tab \ {v.tab} : v.scroll[t] \in Nat
      BY <2>3 DEF ScrollsNat
    <3>4. v.filter <= u.filter + 1 /\ ~(v.filter > u.filter)
      BY <1>0, <2>3
    <3>5. Handled(u, v, k)
      BY <2>2, <2>3, <3>1, <3>2, <3>3, <3>4 DEF Handled
    <3>. QED
      BY <2>4, <3>5
<1>7. CASE k = "/"
  <2>1. PICK v : v = [u EXCEPT !.details = FALSE, !.filterMode = TRUE, !.filter = 0]
    OBVIOUS
  <2>2. v \in Model
    BY <1>0, <2>1 DEF Model
  <2>3. /\ v.devices = u.devices /\ v.events = u.events /\ v.size = u.size /\ v.row = u.row
        /\ v.tab = u.tab /\ v.scroll = u.scroll /\ v.detailScroll = u.detailScroll
        /\ v.filter = 0 /\ v.filterMode = TRUE /\ v.details = FALSE
    BY <2>1 DEF Model
  <2>4. MainKey(u, k) = v
    BY <1>7, <2>1 DEF MainKey
  <2>. QED
    BY <1>0, <1>7, <2>2, <2>3, <2>4 DEF Handled, ScrollsNat, OpenOK
<1>8. CASE k = "?"
  <2>1. PICK v : v = [u EXCEPT !.help = TRUE]
    OBVIOUS
  <2>2. v \in Model
    BY <1>0, <2>1 DEF Model
  <2>3. /\ v.devices = u.devices /\ v.events = u.events /\ v.size = u.size /\ v.row = u.row
        /\ v.tab = u.tab /\ v.filter = u.filter /\ v.filterMode = u.filterMode /\ v.details = u.details
        /\ v.scroll = u.scroll /\ v.detailScroll = u.detailScroll
    BY <2>1 DEF Model
  <2>4. MainKey(u, k) = v
    BY <1>8, <2>1 DEF MainKey
  <2>. QED
    BY <1>0, <1>8, <2>2, <2>3, <2>4 DEF Handled, ScrollsNat, OpenOK
<1>9. CASE k = "up"
  <2>1. MainKey(u, k) = Moved(u, -1)
    BY <1>9 DEF MainKey
  <2>2. -1 \in Int /\ ~u.details /\ k \in CursorKey
    BY <1>0, <1>9, TextTypes DEF IsDetailKey, CursorKey
  <2>. QED
    BY <2>1, <2>2, MovedIs
<1>10. CASE k = "down"
  <2>1. MainKey(u, k) = Moved(u, 1)
    BY <1>10 DEF MainKey
  <2>2. 1 \in Int /\ ~u.details /\ k \in CursorKey
    BY <1>0, <1>10, TextTypes DEF IsDetailKey, CursorKey
  <2>. QED
    BY <2>1, <2>2, MovedIs
<1>11. CASE k = "pgup"
  <2>1. MainKey(u, k) = Moved(u, -PageSize(u))
    BY <1>11 DEF MainKey
  <2>2. -PageSize(u) \in Int /\ ~u.details /\ k \in CursorKey
    BY <1>0, <1>11, TextTypes DEF IsDetailKey, CursorKey
  <2>. QED
    BY <2>1, <2>2, MovedIs
<1>12. CASE k = "pgdown"
  <2>1. MainKey(u, k) = Moved(u, PageSize(u))
    BY <1>12 DEF MainKey
  <2>2. PageSize(u) \in Int /\ ~u.details /\ k \in CursorKey
    BY <1>0, <1>12, TextTypes DEF IsDetailKey, CursorKey
  <2>. QED
    BY <2>1, <2>2, MovedIs
<1>13. CASE k = "home"
  <2>1. PICK r \in Int : r = IF u.tab = "devices" THEN 0 ELSE u.row
    BY DEF Model
  <2>2. PICK scroll : scroll = [u.scroll EXCEPT ![u.tab] = 0]
    OBVIOUS
  <2>3. scroll \in [Tab -> Int] /\ \A t \in Tab : scroll[t] \in Nat
    BY <1>0, <2>2 DEF ScrollsNat
  <2>4. PICK v : v = [u EXCEPT !.row = r, !.scroll = scroll]
    OBVIOUS
  <2>5. v \in Model
    BY <2>1, <2>3, <2>4 DEF Model
  <2>6. /\ v.devices = u.devices /\ v.events = u.events /\ v.size = u.size
        /\ v.tab = u.tab /\ v.filter = u.filter /\ v.filterMode = u.filterMode
        /\ v.details = u.details /\ v.scroll = scroll /\ v.detailScroll = u.detailScroll
    BY <2>4 DEF Model
  <2>7. MainKey(u, k) = v
    BY <1>13, <2>1, <2>2, <2>4 DEF MainKey
  <2>8. ~u.details /\ k \in CursorKey
    BY <1>13 DEF IsDetailKey, CursorKey
  <2>. QED
    BY <1>0, <2>3, <2>5, <2>6, <2>7, <2>8 DEF Handled
<1>14. CASE k = "end"
  <2>1. Len(u.devices) \in Int /\ TabLines(u) \in Int /\ ~u.details /\ k \in CursorKey
    BY <1>14, TextTypes, ListIsProper DEF Model, Proper, IsDetailKey, CursorKey
  <2>2. CASE u.tab = "devices"
    <3>1. MainKey(u, k) = [u EXCEPT !.row = Len(u.devices)]
      BY <1>14, <2>2 DEF MainKey
    <3>. QED
      BY <2>1, <3>1, MovedIs
  <2>3. CASE u.tab # "devices"
    <3>1. PICK n \in Int : n = TabLines(u)
      BY <2>1
    <3>2. MainKey(u, k) = [u EXCEPT !.scroll[u.tab] = n]
      BY <1>14, <2>3, <3>1 DEF MainKey
    <3>3. Handled(u, [u EXCEPT !.scroll[u.tab] = n], k)
      BY <2>1, <3>1, MovedIs
    <3>. QED
      BY <3>2, <3>3
  <2>. QED
    BY <2>2, <2>3
<1>15. CASE k \notin {"esc", "q", "ctrl+c", "1", "2", "3", "4", "enter", "/", "?", "up", "down",
                     "pgup", "pgdown", "home", "end"}
  <2>1. MainKey(u, k) = u
    BY <1>15 DEF MainKey
  <2>. QED
    BY <2>1, UnchangedHandled
<1>. QED
  BY <1>2, <1>3, <1>4, <1>5, <1>6, <1>7, <1>8, <1>9, <1>10, <1>11, <1>12, <1>13, <1>14, <1>15

\* A key, whoever takes it.
LEMMA PressedIs ==
    ASSUME NEW u \in Model, ScrollsNat(u), OpenOK(u), NEW k
    PROVE  Handled(u, Pressed(u, k), k)
<1>0. u.filterMode \in BOOLEAN /\ u.help \in BOOLEAN /\ u.details \in BOOLEAN /\ u.filter \in Nat
  BY DEF Model
<1>1. CASE u.filterMode
  BY <1>1, FilterKeyIs DEF Pressed
<1>2. CASE ~u.filterMode /\ u.help
  <2>1. PICK v : v = [u EXCEPT !.help = FALSE]
    OBVIOUS
  <2>2. v \in Model
    BY <2>1 DEF Model
  <2>3. /\ v.devices = u.devices /\ v.events = u.events /\ v.size = u.size /\ v.row = u.row
        /\ v.tab = u.tab /\ v.filter = u.filter /\ v.filterMode = u.filterMode
        /\ v.details = u.details /\ v.scroll = u.scroll /\ v.detailScroll = u.detailScroll
    BY <2>1 DEF Model
  <2>4. Pressed(u, k) = v
    BY <1>2, <2>1 DEF Pressed
  <2>. QED
    BY <1>0, <2>2, <2>3, <2>4 DEF Handled, ScrollsNat, OpenOK
<1>3. CASE ~u.filterMode /\ ~u.help /\ u.details /\ u.tab = "devices" /\ IsDetailKey(k)
  BY <1>3, DetailKeyIs DEF Pressed
<1>4. CASE ~u.filterMode /\ ~u.help /\ ~(u.details /\ u.tab = "devices" /\ IsDetailKey(k))
  <2>1. Pressed(u, k) = MainKey(u, k)
    BY <1>4 DEF Pressed
  <2>2. u.details => ~IsDetailKey(k)
    BY <1>0, <1>4 DEF OpenOK
  <2>. QED
    BY <1>4, <2>1, <2>2, MainKeyIs
<1>. QED
  BY <1>0, <1>1, <1>2, <1>3, <1>4

----------------------------------------------------------------------------
(* Steps *)

\* What is the same list of devices under the same filter shows the same rows.
Listed(u, v) == v.devices = u.devices /\ v.filter = u.filter

\* A row of the list is a device.
LEMMA RowsAreDevices ==
    ASSUME NEW u \in Model, OnList(u), Len(Shown(u)) > 0
    PROVE  /\ Selected(u) # Nothing /\ Selected(u) = Identity(Shown(u)[u.row + 1])
           /\ u.row + 1 \in DOMAIN Shown(u) /\ Shown(u)[u.row + 1] \in Device
<1>. PICK list : list = Shown(u)
  OBVIOUS
<1>1. Proper(list) /\ Len(list) \in Nat /\ DOMAIN list = 1..Len(list)
  BY ShownIsProper DEF Model
<1>2. u.row \in 0..(Len(list) - 1) /\ u.row + 1 \in DOMAIN list
  BY <1>1 DEF OnList, Greater
<1>3. Selected(u) = Identity(list[u.row + 1])
  BY <1>2 DEF Selected
<1>. PICK d : d = list[u.row + 1]
  OBVIOUS
<1>4. d \in Device /\ (d.mac = NoMAC => \E i \in Nat : d.ips = {i})
  BY <1>1, <1>2 DEF Proper
<1>5. Identity(d) # Nothing
  BY <1>4 DEF Identity, Nothing
<1>. QED
  BY <1>2, <1>3, <1>4, <1>5

\* Whatever update does to a tab's offset or to open details, clampViewport and the search
\* for the device leave the rest as the invariant has it.
LEMMA UpdatedKeeps ==
    ASSUME NEW u \in Model, NEW v \in Model, NEW ticked \in BOOLEAN, OnList(u),
           \A t \in Tab \ {v.tab} : v.scroll[t] \in Nat,
           ~v.details => v.detailScroll \in Nat,
           v.details => /\ v.tab = "devices" /\ ~v.filterMode /\ Len(Shown(u)) > 0
                        /\ ticked \/ Listed(u, v)
    PROVE  ScrollsNat(Updated(u, v, ticked)) /\ OpenOK(Updated(u, v, ticked))
<1>0. PICK w : w = Updated(u, v, ticked)
  OBVIOUS
<1>1. /\ w \in Model /\ SameBut(w, v) /\ (w.details <=> v.details /\ ~IsLost(u, v, ticked))
      /\ w.scroll["devices"] \in Nat /\ w.scroll[v.tab] \in Nat
      /\ \A t \in Tab \ {"devices", v.tab} : w.scroll[t] = v.scroll[t]
      /\ ~v.details => w.detailScroll \in {0, v.detailScroll}
      /\ v.details => w.detailScroll \in Nat
  <2>1. Outcome(u, v, ticked, w)
    BY <1>0, UpdatedIs
  <2>. QED
    BY <2>1 DEF Outcome
<1>2. v.details \in BOOLEAN
  BY DEF Model
<1>3. ScrollsNat(w)
  BY <1>1, <1>2 DEF ScrollsNat
<1>4. Shown(w) = Shown(v) /\ Len(Shown(v)) \in Nat
  BY <1>1, SameLines, LineTypes DEF SameBut
<1>5. ASSUME w.details PROVE Len(Shown(v)) > 0
  <2>1. v.details /\ ~IsLost(u, v, ticked) /\ Len(Shown(u)) > 0
    BY <1>1, <1>5
  <2>2. CASE ticked
    <3>1. Selected(u) # Nothing
      BY <2>1, RowsAreDevices
    <3>2. Candidates(u, v) # {}
      BY <2>1, <2>2, <3>1 DEF IsLost, Sought, Searches
    <3>3. Candidates(u, v) \subseteq 0..(Len(Shown(v)) - 1)
      BY DEF Candidates, RowsOf
    <3>. QED
      BY <1>4, <3>2, <3>3
  <2>3. CASE Listed(u, v)
    BY <2>1, <2>3, SameShown DEF Listed
  <2>. QED
    BY <2>1, <2>2, <2>3
<1>6. OpenOK(w)
  BY <1>1, <1>4, <1>5 DEF OpenOK, SameBut
<1>. QED
  BY <1>0, <1>3, <1>6

\* The part of the invariant that is about one Model.
Usable(u) ==
    /\ u \in Model /\ OnList(u) /\ OnPage(u) /\ DetailsFit(u)
    /\ ScrollsNat(u) /\ OpenOK(u)

Inv ==
    /\ Usable(m)
    /\ m.filter <= Bound[session].runes
    /\ m.events \in Seq(1..arrived) /\ Len(m.events) <= EventCap
    /\ arrived \in 0..Bound[session].arrivals
    /\ session \in Session /\ request \in BOOLEAN

LEMMA Limits == ASSUME session \in Session
                PROVE  Bound[session].runes \in Nat /\ Bound[session].arrivals \in Nat
BY InputAssumption

LEMMA InitInv == Init => Inv
<1>. SUFFICES ASSUME Init PROVE Inv
  OBVIOUS
<1>1. PICK scroll : scroll = [t \in Tab |-> 0]
  OBVIOUS
<1>2. scroll \in [Tab -> Int] /\ \A t \in Tab : scroll[t] = 0
  BY <1>1
<1>3. PICK size : size = [height |-> 24, wrap |-> 1]
  OBVIOUS
<1>4. m = [tab |-> "devices", devices |-> <<>>, events |-> <<>>, size |-> size,
           filter |-> 0, filterMode |-> FALSE, row |-> 0, scroll |-> scroll,
           details |-> FALSE, detailScroll |-> 0, help |-> FALSE, quitting |-> FALSE]
  BY <1>1, <1>3 DEF Init
<1>5. /\ m.devices = <<>> /\ m.events = <<>> /\ m.filter = 0 /\ m.row = 0
      /\ m.scroll = scroll /\ ~m.details /\ m.detailScroll = 0
  BY <1>4
<1>6. m \in Model
  <2>1. size \in Sizes /\ <<>> \in Lists /\ <<>> \in Seq(Nat) /\ "devices" \in Tab
    BY <1>3 DEF Sizes, Lists, Tab
  <2>. HIDE DEF Sizes, Lists, Tab
  <2>. QED
    BY <1>2, <1>4, <2>1 DEF Model
<1>7. Len(Shown(m)) = 0
  <2>0. PICK list, f, n : list = m.devices /\ f = m.filter /\ n = Len(m.devices)
    OBVIOUS
  <2>. PICK g : g = Among(list, f, n)
    OBVIOUS
  <2>1. n = 0 /\ n = Len(list)
    BY <1>5, <2>0
  <2>2. IsAmong(g, list, f, n)
    BY <2>1, AmongExists
  <2>3. g[0] = <<>>
    BY <2>1, <2>2 DEF IsAmong, Longer
  <2>4. Shown(m) = g[n]
    BY <2>0, ShownIs
  <2>. QED
    BY <2>1, <2>3, <2>4
<1>8. Usable(m)
  BY <1>2, <1>5, <1>6, <1>7 DEF Usable, OnList, OnPage, DetailsFit, ScrollsNat, OpenOK, Greater
<1>9. arrived = 0 /\ request = FALSE /\ session \in Session
  BY DEF Init
<1>10. Bound[session].runes \in Nat /\ Bound[session].arrivals \in Nat /\ EventCap \in Nat
  BY <1>9, Limits DEF LinesAssumption
<1>11. m.events \in Seq(1..arrived) /\ Len(m.events) <= EventCap
  BY <1>5, <1>10
<1>12. m.filter <= Bound[session].runes /\ arrived \in 0..Bound[session].arrivals
  BY <1>5, <1>9, <1>10
<1>13. request \in BOOLEAN
  BY <1>9
<1>. QED
  BY <1>8, <1>9, <1>11, <1>12, <1>13 DEF Inv

\* What every message has made of the Model before Update looks for the device: the step
\* applies Update to v, and only the cursor's keys have moved the row by themselves.
Ready(v, ticked) ==
    /\ v \in Model /\ ticked \in BOOLEAN
    /\ m' = Updated(m, v, ticked) /\ session' = session /\ request' \in BOOLEAN
    /\ \A t \in Tab \ {v.tab} : v.scroll[t] \in Nat
    /\ ~v.details => v.detailScroll \in Nat
    /\ v.details => v.tab = "devices" /\ ~v.filterMode /\ Len(Shown(m)) > 0
    /\ v.details => ticked \/ Listed(m, v)
    /\ ticked \/ v.devices = m.devices
    /\ v.row = m.row \/ (~v.details /\ \E k \in CursorKey : Press(k))
    /\ v.filter <= Bound[session].runes
    /\ v.events \in Seq(1..arrived') /\ Len(v.events) <= EventCap
    /\ arrived' \in 0..Bound[session].arrivals

LEMMA UpdateKeeps == ASSUME Inv, NEW v, NEW ticked, Ready(v, ticked) PROVE Inv'
<1>0. /\ v \in Model /\ ticked \in BOOLEAN
      /\ m' = Updated(m, v, ticked) /\ session' = session /\ request' \in BOOLEAN
      /\ \A t \in Tab \ {v.tab} : v.scroll[t] \in Nat
      /\ ~v.details => v.detailScroll \in Nat
      /\ v.details => v.tab = "devices" /\ ~v.filterMode /\ Len(Shown(m)) > 0
      /\ v.details => ticked \/ Listed(m, v)
      /\ v.filter <= Bound[session].runes
      /\ v.events \in Seq(1..arrived') /\ Len(v.events) <= EventCap
      /\ arrived' \in 0..Bound[session].arrivals
  BY DEF Ready
<1>1. m \in Model /\ OnList(m)
  BY DEF Inv, Usable
<1>2. PICK w : w = Updated(m, v, ticked)
  OBVIOUS
<1>3. w \in Model /\ OnList(w) /\ OnPage(w) /\ DetailsFit(w) /\ SameBut(w, v)
  <2>1. Outcome(m, v, ticked, w)
    BY <1>0, <1>1, <1>2, UpdatedIs
  <2>. QED
    BY <2>1 DEF Outcome
<1>4. ScrollsNat(w) /\ OpenOK(w)
  BY <1>0, <1>1, <1>2, UpdatedKeeps
<1>5. Usable(w) /\ w = m'
  BY <1>0, <1>2, <1>3, <1>4 DEF Usable
<1>6. Usable(m)'
  BY <1>5 DEF Usable, OnList, OnPage, DetailsFit, ScrollsNat, OpenOK
<1>. QED
  BY <1>0, <1>3, <1>5, <1>6 DEF Inv, SameBut

LEMMA PressIs == ASSUME Inv, NEW k, Press(k) PROVE \E v : Ready(v, FALSE)
<1>. PICK v : v = Pressed(m, k)
  OBVIOUS
<1>1. m \in Model /\ ScrollsNat(m) /\ OpenOK(m) /\ session \in Session /\ request \in BOOLEAN
  BY DEF Inv, Usable
<1>2. Handled(m, v, k)
  BY <1>1, PressedIs
<1>3. /\ m' = Updated(m, v, FALSE) /\ session' = session /\ arrived' = arrived
      /\ request' \in BOOLEAN
      /\ ~(k \in Rune /\ m.filterMode /\ m.filter = Bound[session].runes)
  BY <1>1 DEF Press
<1>4. v.filter <= Bound[session].runes
  <2>1. v \in Model /\ v.filter <= m.filter + 1 /\ (v.filter > m.filter => k \in Rune /\ m.filterMode)
    BY <1>2 DEF Handled
  <2>2. v.filter \in Nat /\ m.filter \in Nat /\ Bound[session].runes \in Nat
    BY <1>1, <2>1, Limits DEF Model
  <2>3. m.filter <= Bound[session].runes
    BY DEF Inv
  <2>. QED
    BY <1>3, <2>1, <2>2, <2>3
<1>5. /\ v \in Model /\ v.devices = m.devices /\ v.events = m.events
      /\ \A t \in Tab \ {v.tab} : v.scroll[t] \in Nat
      /\ ~v.details => v.detailScroll \in Nat
      /\ v.details => v.tab = "devices" /\ ~v.filterMode /\ Len(Shown(m)) > 0
      /\ v.details => Listed(m, v)
      /\ v.details \/ k \notin CursorKey => v.row = m.row
  BY <1>2 DEF Handled, Listed
<1>6. /\ v.events \in Seq(1..arrived') /\ Len(v.events) <= EventCap
      /\ arrived' \in 0..Bound[session].arrivals
  BY <1>3, <1>5 DEF Inv
<1>7. v.row = m.row \/ (~v.details /\ \E c \in CursorKey : Press(c))
  BY <1>5
<1>. QED
  BY <1>3, <1>4, <1>5, <1>6, <1>7 DEF Ready

LEMMA ResizeIs ==
    ASSUME Inv, NEW s \in Bound[session].sizes, Resize(s) PROVE \E v : Ready(v, FALSE)
<1>1. m \in Model /\ ScrollsNat(m) /\ OpenOK(m) /\ session \in Session /\ request \in BOOLEAN
  BY DEF Inv, Usable
<1>2. s \in Sizes
  BY <1>1 DEF Sizes, Size
<1>. PICK v : v = [m EXCEPT !.size = s]
  OBVIOUS
<1>3. v \in Model
  <2>. HIDE DEF Sizes
  <2>. QED
    BY <1>1, <1>2 DEF Model
<1>4. /\ v.devices = m.devices /\ v.events = m.events /\ v.filter = m.filter /\ v.tab = m.tab
      /\ v.row = m.row
      /\ v.scroll = m.scroll /\ v.details = m.details /\ v.detailScroll = m.detailScroll
      /\ v.filterMode = m.filterMode
  BY <1>1 DEF Model
<1>5. /\ m' = Updated(m, v, FALSE) /\ session' = session /\ arrived' = arrived
      /\ request' \in BOOLEAN
  BY <1>1 DEF Resize
<1>6. /\ \A t \in Tab \ {v.tab} : v.scroll[t] \in Nat
      /\ ~v.details => v.detailScroll \in Nat
      /\ v.details => v.tab = "devices" /\ ~v.filterMode /\ Len(Shown(m)) > 0
      /\ Listed(m, v)
  BY <1>1, <1>4 DEF ScrollsNat, OpenOK, Listed
<1>7. /\ v.filter <= Bound[session].runes
      /\ v.events \in Seq(1..arrived') /\ Len(v.events) <= EventCap
      /\ arrived' \in 0..Bound[session].arrivals
  BY <1>4, <1>5 DEF Inv
<1>. QED
  BY <1>3, <1>4, <1>5, <1>6, <1>7 DEF Ready

LEMMA TickIs ==
    ASSUME Inv, NEW list \in Bound[session].snapshots, Tick(list) PROVE \E v : Ready(v, TRUE)
<1>1. m \in Model /\ ScrollsNat(m) /\ OpenOK(m) /\ session \in Session /\ request \in BOOLEAN
  BY DEF Inv, Usable
<1>2. Sorted[list] \in Lists
  BY <1>1 DEF Lists, Snapshot
<1>. PICK v : v = [m EXCEPT !.devices = Sorted[list]]
  OBVIOUS
<1>3. v \in Model
  <2>. PICK sorted \in Lists : sorted = Sorted[list]
    BY <1>2
  <2>. QED
    BY <1>1 DEF Model
<1>4. /\ v.events = m.events /\ v.filter = m.filter /\ v.tab = m.tab
      /\ v.scroll = m.scroll /\ v.details = m.details /\ v.detailScroll = m.detailScroll
      /\ v.filterMode = m.filterMode /\ v.row = m.row
  BY <1>1 DEF Model
<1>5. /\ m' = Updated(m, v, TRUE) /\ session' = session /\ arrived' = arrived
      /\ request' \in BOOLEAN
  BY <1>1 DEF Tick
<1>6. /\ \A t \in Tab \ {v.tab} : v.scroll[t] \in Nat
      /\ ~v.details => v.detailScroll \in Nat
      /\ v.details => v.tab = "devices" /\ ~v.filterMode /\ Len(Shown(m)) > 0
  BY <1>1, <1>4 DEF ScrollsNat, OpenOK
<1>7. /\ v.filter <= Bound[session].runes
      /\ v.events \in Seq(1..arrived') /\ Len(v.events) <= EventCap
      /\ arrived' \in 0..Bound[session].arrivals
  BY <1>4, <1>5 DEF Inv
<1>. QED
  BY <1>3, <1>4, <1>5, <1>6, <1>7 DEF Ready

\* The first entries of a sequence.
LEMMA Beginning ==
    ASSUME NEW S, NEW s \in Seq(S), NEW n \in 1..Len(s)
    PROVE  SubSeq(s, 1, n) \in Seq(S) /\ Len(SubSeq(s, 1, n)) = n
<1>1. n \in Int /\ 1 \in Int /\ n - 1 + 1 = n /\ 1 <= n
  OBVIOUS
<1>2. \A i \in 1..n : s[i] \in S
  OBVIOUS
<1>3. /\ SubSeq(s, 1, n) \in Seq(S)
      /\ Len(SubSeq(s, 1, n)) = IF 1 <= n THEN n - 1 + 1 ELSE 0
  BY <1>1, <1>2, SubSeqProperties
<1>. QED
  BY <1>1, <1>3

\* What an event does to the Model: it is the newest, and the reader of older ones is moved on.
Arrives(v) ==
    /\ v.tab = m.tab /\ v.size = m.size /\ v.filter = m.filter /\ v.filterMode = m.filterMode
    /\ v.events = SubSeq(<<arrived + 1>> \o m.events, 1,
                         Lesser(EventCap, Len(<<arrived + 1>> \o m.events)))
    /\ v.scroll["events"] = IF m.scroll["events"] > 0 THEN m.scroll["events"] + m.size.wrap
                            ELSE m.scroll["events"]

LEMMA EventIs == ASSUME Inv, Event PROVE \E v : Ready(v, FALSE) /\ Arrives(v)
<1>1. m \in Model /\ ScrollsNat(m) /\ OpenOK(m) /\ session \in Session /\ request \in BOOLEAN
  BY DEF Inv, Usable
<1>. PICK u : u = ReaderStays(m)
  OBVIOUS
<1>. DEFINE longer == <<arrived + 1>> \o m.events
            kept == SubSeq(longer, 1, Lesser(EventCap, Len(longer)))
            v == [u EXCEPT !.events = kept]
<1>2. /\ m' = Updated(m, v, FALSE) /\ session' = session /\ arrived' = arrived + 1
      /\ request' \in BOOLEAN /\ arrived < Bound[session].arrivals
  BY <1>1 DEF Event
<1>3. arrived \in Nat /\ arrived' \in 0..Bound[session].arrivals
  BY <1>1, <1>2, Limits DEF Inv
<1>4. kept \in Seq(1..(arrived + 1)) /\ Len(kept) <= EventCap /\ kept \in Seq(Nat)
  <2>1. m.events \in Seq(1..(arrived + 1)) /\ <<arrived + 1>> \in Seq(1..(arrived + 1))
    BY <1>3 DEF Inv
  <2>2. longer \in Seq(1..(arrived + 1)) /\ Len(longer) = Len(m.events) + 1
    BY <2>1, ConcatProperties
  <2>3. Len(m.events) \in Nat /\ EventCap \in Nat \ {0}
    BY <2>1 DEF LinesAssumption
  <2>. PICK n : n = Lesser(EventCap, Len(longer))
    OBVIOUS
  <2>4. n \in 1..Len(longer) /\ n <= EventCap
    BY <2>2, <2>3 DEF Lesser
  <2>. HIDE DEF longer
  <2>5. SubSeq(longer, 1, n) \in Seq(1..(arrived + 1)) /\ Len(SubSeq(longer, 1, n)) = n
    BY <2>2, <2>4, Beginning
  <2>. QED
    BY <1>3, <2>4, <2>5
<1>5. /\ u \in Model /\ \A t \in Tab : u.scroll[t] \in Nat
      /\ u.scroll["events"] = IF m.scroll["events"] > 0 THEN m.scroll["events"] + m.size.wrap
                              ELSE m.scroll["events"]
  <2>1. m.scroll \in [Tab -> Int] /\ \A t \in Tab : m.scroll[t] \in Nat
    BY <1>1 DEF Model, ScrollsNat
  <2>2. PICK n : n = IF m.scroll["events"] > 0 THEN m.scroll["events"] + m.size.wrap
                     ELSE m.scroll["events"]
    OBVIOUS
  <2>3. n \in Nat
    <3>1. m.size.wrap \in Nat
      BY <1>1, SizeTypes DEF Model
    <3>2. m.scroll["events"] \in Nat
      BY <2>1 DEF Tab
    <3>. QED
      BY <2>2, <3>1, <3>2
  <2>4. PICK scroll : scroll = [m.scroll EXCEPT !["events"] = n]
    OBVIOUS
  <2>5. scroll \in [Tab -> Int] /\ \A t \in Tab : scroll[t] \in Nat
    <3>1. scroll \in [Tab -> Int]
      <4>1. n \in Int
        BY <2>3
      <4>. QED
        BY <2>1, <2>4, <4>1
    <3>2. ASSUME NEW t \in Tab PROVE scroll[t] \in Nat
      <4>1. CASE t = "events"
        BY <2>1, <2>3, <2>4, <4>1
      <4>2. CASE t # "events"
        BY <2>1, <2>4, <3>2, <4>2
      <4>. QED
        BY <4>1, <4>2
    <3>. QED
      BY <3>1, <3>2
  <2>6. u = [m EXCEPT !.scroll = scroll]
    BY <2>2, <2>4 DEF ReaderStays
  <2>7. u \in Model
    BY <1>1, <2>5, <2>6 DEF Model
  <2>8. u.scroll = scroll
    BY <1>1, <2>6 DEF Model
  <2>9. scroll["events"] = n
    BY <2>1, <2>4 DEF Tab
  <2>. QED
    BY <2>2, <2>5, <2>7, <2>8, <2>9
<1>6. /\ u.devices = m.devices /\ u.filter = m.filter /\ u.tab = m.tab
      /\ u.details = m.details /\ u.detailScroll = m.detailScroll
      /\ u.filterMode = m.filterMode /\ u.row = m.row /\ u.size = m.size
  BY <1>1 DEF Model, ReaderStays
<1>. HIDE DEF kept
<1>7. v \in Model
  BY <1>4, <1>5 DEF Model
<1>8. /\ v.devices = u.devices /\ v.events = kept /\ v.filter = u.filter /\ v.tab = u.tab
      /\ v.scroll = u.scroll /\ v.details = u.details /\ v.detailScroll = u.detailScroll
      /\ v.filterMode = u.filterMode /\ v.row = u.row /\ v.size = u.size
  BY <1>5 DEF Model
<1>. HIDE DEF v
<1>9. /\ \A t \in Tab \ {v.tab} : v.scroll[t] \in Nat
      /\ ~v.details => v.detailScroll \in Nat
      /\ v.details => v.tab = "devices" /\ ~v.filterMode /\ Len(Shown(m)) > 0
      /\ Listed(m, v)
  BY <1>1, <1>5, <1>6, <1>8 DEF ScrollsNat, OpenOK, Listed
<1>10. /\ v.filter <= Bound[session].runes
       /\ v.events \in Seq(1..arrived') /\ Len(v.events) <= EventCap
  BY <1>2, <1>4, <1>6, <1>8 DEF Inv
<1>11. Arrives(v)
  BY <1>5, <1>6, <1>8 DEF Arrives, kept
<1>. QED
  BY <1>2, <1>3, <1>6, <1>7, <1>8, <1>9, <1>10, <1>11 DEF Ready

\* Every step that changes the Model is a message's.
LEMMA StepsAreUpdates ==
    ASSUME Inv, [Next]_vars
    PROVE  \/ m' = m /\ arrived' = arrived /\ session' = session /\ request' \in BOOLEAN
           \/ \E v, ticked : Ready(v, ticked)
<1>1. ASSUME NEW k \in Bound[session].keys, Press(k) PROVE \E v : Ready(v, FALSE)
  BY <1>1, PressIs
<1>2. ASSUME NEW s \in Bound[session].sizes, Resize(s) PROVE \E v : Ready(v, FALSE)
  BY <1>2, ResizeIs
<1>3. ASSUME NEW list \in Bound[session].snapshots, Tick(list) PROVE \E v : Ready(v, TRUE)
  BY <1>3, TickIs
<1>4. ASSUME Event PROVE \E v : Ready(v, FALSE)
  BY <1>4, EventIs
<1>5. CASE SweepStarts \/ Over \/ UNCHANGED vars
  BY <1>5 DEF SweepStarts, Over, vars, Inv
<1>. QED
  BY <1>1, <1>2, <1>3, <1>4, <1>5 DEF Next

LEMMA NextInv == Inv /\ [Next]_vars => Inv'
<1>. SUFFICES ASSUME Inv, [Next]_vars PROVE Inv'
  OBVIOUS
<1>1. ASSUME m' = m, arrived' = arrived, session' = session, request' \in BOOLEAN PROVE Inv'
  <2>1. Usable(m)'
    BY <1>1 DEF Inv, Usable, OnList, OnPage, DetailsFit, ScrollsNat, OpenOK
  <2>. QED
    BY <1>1, <2>1 DEF Inv
<1>2. ASSUME NEW v, NEW ticked, Ready(v, ticked) PROVE Inv'
  BY <1>2, UpdateKeeps
<1>. QED
  BY <1>1, <1>2, StepsAreUpdates

THEOREM Invariance == Spec => []Inv
<1>. QED
  BY InitInv, NextInv, PTL DEF Spec

----------------------------------------------------------------------------
(* What it says *)

\* tui.Model: whatever message comes and whatever it does to the cursor and the offsets, the
\* cursor is on the list and no offset is negative.
THEOREM ModelStaysTyped == Spec => []TypeOK
<1>1. Inv => TypeOK
  <2>. SUFFICES ASSUME Inv PROVE TypeOK
    OBVIOUS
  <2>1. /\ m \in Model /\ OnList(m) /\ ScrollsNat(m) /\ session \in Session
        /\ request \in BOOLEAN
    BY DEF Inv, Usable
  <2>2. /\ m.tab \in Tab /\ m.devices \in Lists /\ m.size \in Sizes /\ m.filter \in Nat
        /\ m.filterMode \in BOOLEAN /\ m.details \in BOOLEAN /\ m.help \in BOOLEAN
        /\ m.quitting \in BOOLEAN /\ m.scroll \in [Tab -> Int]
    BY <2>1 DEF Model
  <2>3. m.scroll \in [Tab -> Nat] /\ m.detailScroll \in Nat
    BY <2>1, <2>2 DEF ScrollsNat
  <2>4. m.filter \in 0..Bound[session].runes
    BY <2>1, <2>2, Limits DEF Inv
  <2>5. \A flag \in {m.filterMode, m.details, m.help, m.quitting, request} : flag \in BOOLEAN
    BY <2>1, <2>2
  <2>. QED
    BY <2>1, <2>2, <2>3, <2>4, <2>5 DEF TypeOK, Inv, OnList, Lists, Sizes
<1>. QED
  BY <1>1, Invariance, PTL

\* viewport.go:43-44, devices.go:247 and :264: the page shows the selected row and the
\* details that are open have a device, so nothing is drawn beyond the end of a list.
THEOREM PagesShowTheSelection == Spec => []PagesAreInRange
<1>1. Inv => PagesAreInRange
  <2>. SUFFICES ASSUME Inv PROVE PagesAreInRange
    OBVIOUS
  <2>1. OnPage(m) /\ DetailsFit(m) /\ OpenOK(m)
    BY DEF Inv, Usable
  <2>. QED
    BY <2>1 DEF PagesAreInRange, OnPage, DetailsFit, OpenOK
<1>. QED
  BY <1>1, Invariance, PTL

----------------------------------------------------------------------------
(* The selection follows its device *)

\* The rows searched for are rows of the device; when it is listed there is one.
LEMMA CandidatesAre ==
    ASSUME NEW u \in Model, NEW v \in Model, OnList(u), Len(Shown(u)) > 0
    PROVE  /\ \A n \in Candidates(u, v) :
                 n + 1 \in DOMAIN Shown(v) /\ IsStill(Selected(u), Identity(Shown(v)[n + 1]))
           /\ (\E n \in DOMAIN Shown(v) : IsStill(Selected(u), Shown(v)[n]))
                 => Candidates(u, v) # {}
<1>. PICK list, id, d : list = Shown(v) /\ id = Selected(u) /\ d = Shown(u)[u.row + 1]
  OBVIOUS
<1>1. Proper(list) /\ Len(list) \in Nat /\ DOMAIN list = 1..Len(list)
  BY ShownIsProper DEF Model
<1>2. id.mac \in Nat /\ (id.mac = NoMAC => \E i \in Nat : id.ips = {i})
  <2>1. id = Identity(d) /\ d \in Device /\ u.row + 1 \in DOMAIN Shown(u)
    BY RowsAreDevices
  <2>2. d.mac = NoMAC => \E i \in Nat : d.ips = {i}
    <3>1. Proper(Shown(u))
      BY ShownIsProper DEF Model
    <3>. QED
      BY <2>1, <3>1 DEF Proper
  <2>. QED
    BY <2>1, <2>2 DEF Identity, Device
<1>. DEFINE matching == {n \in 0..(Len(list) - 1) : Matches(id, Identity(list[n + 1]))}
            anonymous == {n \in matching : list[n + 1].mac = NoMAC}
<1>3. Candidates(u, v) = IF id.mac # NoMAC \/ Cardinality(matching) <= 1
                         THEN matching ELSE anonymous
  BY DEF Candidates, RowsOf
<1>4. ASSUME NEW n \in matching
      PROVE  n + 1 \in DOMAIN list /\ IsStill(id, Identity(list[n + 1]))
  <2>1. n \in 0..(Len(list) - 1) /\ Matches(id, Identity(list[n + 1])) /\ n + 1 \in DOMAIN list
    BY <1>1
  <2>2. CASE id.mac # NoMAC
    BY <2>1, <2>2 DEF Matches, IsStill
  <2>3. CASE id.mac = NoMAC
    BY <1>2, <2>1, <2>3 DEF Matches, IsStill
  <2>. QED
    BY <2>1, <2>2, <2>3
<1>5. ASSUME NEW n \in DOMAIN list, IsStill(id, list[n]) PROVE Candidates(u, v) # {}
  <2>1. n - 1 \in 0..(Len(list) - 1) /\ (n - 1) + 1 = n
    BY <1>1
  <2>2. Matches(id, Identity(list[n]))
    BY <1>2, <1>5 DEF Matches, IsStill, Identity
  <2>3. n - 1 \in matching
    BY <2>1, <2>2
  <2>4. CASE id.mac # NoMAC
    BY <1>3, <2>3, <2>4
  <2>5. CASE id.mac = NoMAC
    <3>1. PICK i \in Nat : id.ips = {i}
      BY <1>2, <2>5
    <3>2. ASSUME NEW k \in matching PROVE k = n - 1
      <4>1. k \in Int /\ k + 1 \in DOMAIN list /\ Matches(id, Identity(list[k + 1]))
        BY <1>1
      <4>2. i \in list[k + 1].ips /\ i \in list[n].ips
        BY <2>2, <2>5, <3>1, <4>1 DEF Matches, Identity
      <4>3. k + 1 = n
        BY <1>1, <4>1, <4>2 DEF Proper
      <4>. QED
        BY <4>1, <4>3
    <3>3. matching = {n - 1}
      BY <2>3, <3>2
    <3>4. Cardinality(matching) = 1
      BY <3>3, FS_Singleton
    <3>. HIDE DEF matching
    <3>. QED
      BY <1>3, <2>3, <3>4
  <2>. QED
    BY <2>4, <2>5
<1>6. ASSUME NEW n \in Candidates(u, v) PROVE n \in matching
  BY <1>3
<1>. QED
  BY <1>4, <1>5, <1>6

\* What Update returns has the device selected, when a list that has it is searched, and when
\* neither the list nor the cursor has changed.
LEMMA SelectionIsKept ==
    ASSUME NEW u \in Model, NEW v \in Model, NEW ticked \in BOOLEAN, NEW w,
           Outcome(u, v, ticked, w), OnList(u), Len(Shown(u)) > 0,
           v.row = u.row, ticked \/ v.devices = u.devices,
           \/ w.details
           \/ \E n \in DOMAIN Shown(w) : IsStill(Selected(u), Shown(w)[n])
    PROVE  IsStill(Selected(u), Selected(w))
<1>1. /\ w \in Model /\ SameBut(w, v) /\ (w.details => ~IsLost(u, v, ticked))
      /\ IF Sought(u, v, ticked) /\ ~IsLost(u, v, ticked)
         THEN w.row \in Candidates(u, v) ELSE w.row = ClampedRow(v)
  BY DEF Outcome
<1>2. Shown(w) = Shown(v) /\ Len(Shown(v)) \in Nat
  BY <1>1, SameLines, LineTypes DEF SameBut
<1>3. Selected(u) # Nothing
  BY RowsAreDevices
<1>4. CASE Searches(u, v, ticked)
  <2>1. Sought(u, v, ticked)
    BY <1>3, <1>4 DEF Sought
  <2>2. Candidates(u, v) # {}
    BY <1>1, <1>2, <2>1, CandidatesAre DEF IsLost
  <2>3. w.row \in Candidates(u, v)
    BY <1>1, <2>1, <2>2 DEF IsLost
  <2>4. /\ w.row + 1 \in DOMAIN Shown(w)
        /\ IsStill(Selected(u), Identity(Shown(w)[w.row + 1]))
    BY <1>2, <2>3, CandidatesAre
  <2>5. Candidates(u, v) \subseteq 0..(Len(Shown(v)) - 1)
    BY DEF Candidates, RowsOf
  <2>6. Selected(w) = Identity(Shown(w)[w.row + 1])
    BY <1>2, <2>3, <2>5 DEF Selected
  <2>. QED
    BY <2>4, <2>6
<1>5. CASE ~Searches(u, v, ticked)
  <2>1. u.filter = v.filter /\ v.devices = u.devices
    BY <1>5 DEF Searches
  <2>2. Shown(w) = Shown(u) /\ Shown(v) = Shown(u)
    BY <1>2, <2>1, SameShown
  <2>3. w.row = ClampedRow(v)
    BY <1>1, <1>5 DEF Sought
  <2>4. w.row = u.row
    BY <1>2, <2>2, <2>3 DEF ClampedRow, OnList, Greater, Lesser
  <2>5. Selected(w) = Selected(u)
    BY <2>2, <2>4 DEF Selected
  <2>. QED
    BY <2>5 DEF IsStill
<1>. QED
  BY <1>4, <1>5

\* One step, seen from the device that was selected.
LEMMA StepKeepsSelection ==
    ASSUME Inv, [Next]_vars, Len(Shown(m)) > 0,
           \/ m'.details
           \/ /\ \E n \in DOMAIN Shown(m') : IsStill(Selected(m), Shown(m')[n])
              /\ ~ \E k \in CursorKey : Press(k)
    PROVE  IsStill(Selected(m), Selected(m'))
<1>1. m \in Model /\ OnList(m)
  BY DEF Inv, Usable
<1>2. CASE m' = m
  BY <1>2 DEF IsStill
<1>3. ASSUME NEW v, NEW ticked, Ready(v, ticked) PROVE IsStill(Selected(m), Selected(m'))
  <2>. PICK w : w = m'
    OBVIOUS
  <2>1. /\ v \in Model /\ ticked \in BOOLEAN /\ w = Updated(m, v, ticked)
        /\ ticked \/ v.devices = m.devices
        /\ v.row = m.row \/ (~v.details /\ \E k \in CursorKey : Press(k))
    BY <1>3 DEF Ready
  <2>2. Outcome(m, v, ticked, w)
    BY <1>1, <2>1, UpdatedIs
  <2>3. v.row = m.row
    <3>1. w.details => v.details
      BY <2>2 DEF Outcome
    <3>. QED
      BY <2>1, <3>1
  <2>. QED
    BY <1>1, <2>1, <2>2, <2>3, SelectionIsKept
<1>. QED
  BY <1>2, <1>3, StepsAreUpdates

\* selection.go:41-42: whatever happens to the list, the selection stays on its device for as
\* long as the list shows it.
THEOREM SelectionStaysOnItsDevice == Spec => SelectionFollows
<1>1. ASSUME Inv, [Next]_vars, Selected(m) # Nothing,
             \E n \in DOMAIN Shown(m') : IsStill(Selected(m), Shown(m')[n]),
             ~ \E k \in CursorKey : Press(k)
      PROVE  IsStill(Selected(m), Selected(m'))
  <2>1. Len(Shown(m)) \in Nat /\ m.row \in 0..(Len(Shown(m)) - 1)
    BY <1>1, LineTypes DEF Inv, Usable, Selected
  <2>2. Len(Shown(m)) > 0
    BY <2>1
  <2>. QED
    BY <1>1, <2>2, StepKeepsSelection
<1>. QED
  BY <1>1, Invariance, PTL DEF Spec, SelectionFollows

\* model.go:114-116: open details never become those of another device.
THEOREM DetailsStayOnTheirDevice == Spec => DetailsKeepTheirDevice
<1>1. ASSUME Inv, [Next]_vars, m.details, m'.details
      PROVE  IsStill(Selected(m), Selected(m'))
  <2>1. Len(Shown(m)) > 0
    BY <1>1 DEF Inv, Usable, OpenOK
  <2>. QED
    BY <1>1, <2>1, StepKeepsSelection
<1>. QED
  BY <1>1, Invariance, PTL DEF Spec, DetailsKeepTheirDevice

----------------------------------------------------------------------------
(* A reader of older events *)

\* A page one event further down begins one event further down.
LEMMA OneFurther ==
    ASSUME NEW p \in Nat, NEW c \in Nat \ {0}
    PROVE  (p + c) \div c = (p \div c) + 1 /\ (p + c) % c = p % c /\ p \div c \in Nat
<1>1. (p + c) \div c = (p \div c) + 1 /\ p \div c \in Nat
  OBVIOUS
<1>2. /\ p = c * (p \div c) + (p % c) /\ p % c \in Nat
      /\ p + c = c * ((p + c) \div c) + ((p + c) % c) /\ (p + c) % c \in Nat
  OBVIOUS
<1>3. c * ((p \div c) + 1) = c * (p \div c) + c
  BY <1>1
<1>. QED
  BY <1>1, <1>2, <1>3

\* A line of n events is one of the n.
LEMMA OfTheEvents ==
    ASSUME NEW p \in Nat, NEW c \in Nat \ {0}, NEW n \in Nat, p < c * n
    PROVE  p \div c < n
OBVIOUS

\* Where the page of events begins when Update is through.
LEMMA PageAfter ==
    ASSUME NEW u \in Model, NEW v \in Model, NEW ticked \in BOOLEAN, NEW w,
           Outcome(u, v, ticked, w), v.scroll["events"] \in Nat
    PROVE  /\ EventLines(w) = EventLines(v) /\ ContentHeight(w) = ContentHeight(v)
           /\ PageOfEvents(w) = PageOfEvents(v)
<1>1. SameBut(w, v) /\ w \in Model
  BY DEF Outcome
<1>2. EventLines(w) = EventLines(v) /\ ContentHeight(w) = ContentHeight(v)
  BY <1>1, SameLines DEF SameBut, EventLines
<1>3. EventLines(v) \in Nat /\ ContentHeight(v) \in Nat
  <2>1. v.size.wrap \in Nat /\ Len(v.events) \in Nat
    <3>1. v.size \in Sizes /\ v.events \in Seq(Nat)
      BY DEF Model
    <3>. QED
      BY <3>1, SizeTypes
  <2>2. v.size.wrap * Len(v.events) \in Nat
    BY <2>1, Wrapped
  <2>. QED
    BY <2>2, LineTypes DEF EventLines, Greater
<1>4. CASE v.tab = "events"
  <2>1. w.scroll["events"] = Greater(0, Lesser(v.scroll["events"],
                                              Greater(0, EventLines(v) - ContentHeight(v))))
    BY <1>4 DEF Outcome, Beginnings, TabLines
  <2>. QED
    BY <1>2, <1>3, <2>1 DEF PageOfEvents, Greater, Lesser
<1>5. CASE v.tab # "events"
  <2>1. w.scroll["events"] = v.scroll["events"]
    BY <1>5 DEF Outcome, Tab
  <2>. QED
    BY <1>2, <2>1 DEF PageOfEvents
<1>. QED
  BY <1>2, <1>4, <1>5

\* The arithmetic of it, for a page p of h lines of wrapped events.
LEMMA PageMovesOn ==
    ASSUME NEW c \in Nat \ {0}, NEW h \in Nat \ {0}, NEW n \in Nat, NEW cap \in Nat \ {0},
           n <= cap, NEW scroll \in Nat,
           NEW p, p = Lesser(scroll, Greater(0, Greater(1, c * n) - h)), p > 0,
           NEW k, k = Lesser(cap, n + 1),
           NEW q, q = Lesser(scroll + c, Greater(0, Greater(1, c * k) - h))
    PROVE  /\ p \in Nat /\ p < c * n /\ scroll > 0
           /\ \/ q = p + c /\ q < c * k
              \/ n = cap /\ q = Greater(1, c * k) - h
<1>1. c * n \in Nat /\ c * k \in Nat /\ (n < cap => k = n + 1) /\ (n = cap => k = n)
  BY DEF Lesser
<1>2. n < cap => c * k = c * n + c
  BY <1>1
<1>3. n = cap => c * k = c * n
  BY <1>1
<1>. PICK a, b : a = c * n /\ b = c * k
  OBVIOUS
<1>4. /\ p = Lesser(scroll, Greater(0, Greater(1, a) - h))
      /\ q = Lesser(scroll + c, Greater(0, Greater(1, b) - h))
      /\ a \in Nat /\ b \in Nat /\ (n < cap => b = a + c) /\ (n = cap => b = a)
  BY <1>1, <1>2, <1>3
<1>5. p \in Nat /\ p < a /\ scroll > 0
  BY <1>4 DEF Lesser, Greater
<1>6. \/ q = p + c /\ q < b
      \/ n = cap /\ q = Greater(1, b) - h
  BY <1>4, <1>5 DEF Lesser, Greater
<1>. QED
  BY <1>5, <1>6

\* model.go:250-251: an arriving event does not move the page of a reader of older ones; only
\* when the oldest is dropped does a page at the very end move up.
THEOREM ReadersKeepTheirPlace == Spec => ReaderKeepsPlace
<1>1. ASSUME Inv, [Next]_vars, arrived' # arrived, PageOfEvents(m) > 0, ContentHeight(m) > 0
      PROVE  \/ LineAt(m', PageOfEvents(m')) = LineAt(m, PageOfEvents(m))
             \/ /\ Len(m.events) = EventCap
                /\ PageOfEvents(m') = EventLines(m') - ContentHeight(m')
  <2>1. Event
    BY <1>1 DEF Next, Press, Resize, Tick, SweepStarts, Over, vars
  <2>2. PICK v : Ready(v, FALSE) /\ Arrives(v)
    BY <1>1, <2>1, EventIs
  <2>. PICK w : w = m'
    OBVIOUS
  <2>3. m \in Model /\ ScrollsNat(m) /\ Len(m.events) <= EventCap /\ EventCap \in Nat \ {0}
    BY <1>1 DEF Inv, Usable, LinesAssumption
  <2>4. v \in Model /\ w = Updated(m, v, FALSE)
    BY <2>2 DEF Ready
  <2>5. Outcome(m, v, FALSE, w)
    BY <2>3, <2>4, UpdatedIs
  <2>0. PICK c, h, n, scroll, p, k, q :
          /\ c = m.size.wrap /\ h = ContentHeight(m) /\ n = Len(m.events)
          /\ scroll = m.scroll["events"] /\ p = PageOfEvents(m)
          /\ k = Lesser(EventCap, n + 1)
          /\ q = Lesser(scroll + c, Greater(0, Greater(1, c * k) - h))
    OBVIOUS
  <2>6. c \in Nat \ {0} /\ h \in Nat \ {0} /\ n \in Nat /\ scroll \in Nat
    BY <1>1, <2>0, <2>3, SizeTypes, LineTypes DEF Model, ScrollsNat, Tab
  <2>7. p = Lesser(scroll, Greater(0, Greater(1, c * n) - h)) /\ p > 0
    BY <1>1, <2>0 DEF PageOfEvents, EventLines
  <2>8. /\ p \in Nat /\ p < c * n /\ scroll > 0
        /\ \/ q = p + c /\ q < c * k
           \/ n = EventCap /\ q = Greater(1, c * k) - h
    <3>1. /\ n <= EventCap /\ k = Lesser(EventCap, n + 1)
          /\ q = Lesser(scroll + c, Greater(0, Greater(1, c * k) - h))
      BY <2>0, <2>3
    <3>. QED
      BY <2>3, <2>6, <2>7, <3>1, PageMovesOn
  <2>9. /\ Len(v.events) = k /\ k \in Nat
        /\ \A i \in 1..k : v.events[i] = IF i = 1 THEN arrived + 1 ELSE m.events[i - 1]
    <3>. PICK longer : longer = <<arrived + 1>> \o m.events
      OBVIOUS
    <3>1. /\ longer \in Seq(Nat) /\ Len(longer) = n + 1
          /\ \A i \in 1..(n + 1) : longer[i] = IF i = 1 THEN arrived + 1 ELSE m.events[i - 1]
      <4>1. m.events \in Seq(Nat) /\ arrived + 1 \in Nat
        BY <1>1, <2>3, Limits DEF Model, Inv
      <4>. QED
        BY <2>0, <4>1
    <3>2. v.events = SubSeq(longer, 1, k)
      BY <2>0, <2>2, <3>1 DEF Arrives
    <3>3. k \in 1..(n + 1)
      BY <2>0, <2>3, <2>6 DEF Lesser
    <3>. QED
      BY <2>6, <3>1, <3>2, <3>3
  <2>10. /\ EventLines(v) = Greater(1, c * k) /\ ContentHeight(v) = h
         /\ v.scroll["events"] = scroll + c /\ v.size.wrap = c
    BY <2>0, <2>2, <2>8, <2>9 DEF Arrives, EventLines, ContentHeight
  <2>11. /\ EventLines(w) = Greater(1, c * k) /\ ContentHeight(w) = h
         /\ PageOfEvents(w) = q /\ w.events = v.events /\ w.size.wrap = c
    <3>1. v.scroll["events"] \in Nat
      BY <2>6, <2>10
    <3>2. PageOfEvents(v) = q
      BY <2>0, <2>10 DEF PageOfEvents
    <3>3. SameBut(w, v)
      BY <2>5 DEF Outcome
    <3>4. /\ EventLines(w) = EventLines(v) /\ ContentHeight(w) = ContentHeight(v)
          /\ PageOfEvents(w) = PageOfEvents(v)
      BY <2>3, <2>4, <2>5, <3>1, PageAfter
    <3>. QED
      BY <2>10, <3>2, <3>3, <3>4 DEF SameBut
  <2>12. CASE q = p + c /\ q < c * k
    <3>1. q \div c = (p \div c) + 1 /\ q % c = p % c /\ p \div c \in Nat
      BY <2>6, <2>8, <2>12, OneFurther
    <3>2. q \div c < k /\ q \in Nat
      BY <2>6, <2>8, <2>9, <2>12, OfTheEvents
    <3>3. v.events[(q \div c) + 1] = m.events[(p \div c) + 1]
      <4>. PICK d, e : d = p \div c /\ e = q \div c
        OBVIOUS
      <4>1. d \in Nat /\ e = d + 1 /\ e < k
        BY <3>1, <3>2
      <4>2. e + 1 \in 1..k /\ e + 1 # 1 /\ (e + 1) - 1 = d + 1
        BY <2>9, <4>1
      <4>3. v.events[e + 1] = m.events[(e + 1) - 1]
        BY <2>9, <4>2
      <4>. QED
        BY <4>2, <4>3
    <3>4. LineAt(w, q) = LineAt(m, p)
      BY <2>0, <2>11, <3>1, <3>3 DEF LineAt
    <3>. QED
      BY <2>0, <2>11, <3>4
  <2>13. CASE n = EventCap /\ q = Greater(1, c * k) - h
    BY <2>0, <2>11, <2>13
  <2>. QED
    BY <2>8, <2>12, <2>13
<1>. QED
  BY <1>1, Invariance, PTL DEF Spec, ReaderKeepsPlace
=============================================================================
