-------------------------- MODULE ARPWorkerProofs --------------------------
(***************************************************************************)
(* Theorems about ARPWorker, for all values of its constants: no packet    *)
(* between the opening of the capture and the worker's return goes astray, *)
(* every update names the closest vendor of its MAC, and what the worker   *)
(* does is what runWorkers takes for granted of it.                        *)
(***************************************************************************)
EXTENDS ARPWorker, FiniteSetTheorems, WellFoundedInduction, TLAPS

USE CaptureAssumption

----------------------------------------------------------------------------
(* The inductive invariant *)

\* The updates that there can be; manuf never changes.
Updates == {Update(p) : p \in Packet}

TypeInv ==
    /\ run \in {"start", "opening", "filtering", "looping", "reading", "sending", "returned"}
    /\ result \in {"none", "nil", "failed"} /\ cancelled \in BOOLEAN
    /\ handle \in {"none", "open", "closed"}
    /\ captured \in Seq(Packet) /\ taken \in 0..Len(captured)
    /\ reported \in Seq(Updates) /\ queued \in 0..OutCap

\* The capture is open from its opening to the return, which alone sets the result.
Phases ==
    /\ handle = "open" <=> run \in {"filtering", "looping", "reading", "sending"}
    /\ result = "none" <=> run # "returned"
    /\ run = "sending" => taken > 0 /\ IsNeighbour(captured[taken])

Inv == TypeInv /\ Phases /\ EveryPacketReported

----------------------------------------------------------------------------
(* How many neighbours are among the first packets *)

\* One more if the next packet is a neighbour's, and the same if it is not.
LEMMA PlaceOfNext ==
    ASSUME NEW packets, NEW k \in Nat
    PROVE  /\ Place(packets, k) \in Nat
           /\ Place(packets, k + 1) =
                 Place(packets, k) + (IF IsNeighbour(packets[k + 1]) THEN 1 ELSE 0)
<1>. DEFINE upTo(n) == {j \in 1..n : IsNeighbour(packets[j])}
<1>1. IsFiniteSet(upTo(k)) /\ Cardinality(upTo(k)) \in Nat
  <2>1. upTo(k) \subseteq 1..k /\ IsFiniteSet(1..k)
    BY FS_Interval
  <2>. HIDE DEF upTo
  <2>. QED
    BY <2>1, FS_Subset, FS_CardinalityType
<1>2. upTo(k + 1) = IF IsNeighbour(packets[k + 1]) THEN upTo(k) \cup {k + 1} ELSE upTo(k)
  <2>1. 1..(k + 1) = (1..k) \cup {k + 1}
    OBVIOUS
  <2>. QED
    BY <2>1
<1>3. k + 1 \notin upTo(k)
  OBVIOUS
<1>. HIDE DEF upTo
<1>4. Cardinality(upTo(k) \cup {k + 1}) = Cardinality(upTo(k)) + 1
  BY <1>1, <1>3, FS_AddElement
<1>5. Place(packets, k) = Cardinality(upTo(k)) /\ Place(packets, k + 1) = Cardinality(upTo(k + 1))
  BY DEF Place, upTo
<1>. QED
  BY <1>1, <1>2, <1>4, <1>5

\* A neighbour's packet has a later place than every packet before it.
LEMMA PlacesDiffer ==
    ASSUME NEW packets, NEW n \in Nat, NEW k \in 1..(n - 1), IsNeighbour(packets[n])
    PROVE  Place(packets, k) < Place(packets, n)
<1>. DEFINE upTo(m) == {j \in 1..m : IsNeighbour(packets[j])}
<1>1. upTo(n) \subseteq 1..n /\ IsFiniteSet(1..n)
  BY FS_Interval
<1>2. upTo(k) \subseteq upTo(n) /\ n \in upTo(n) /\ n \notin upTo(k)
  OBVIOUS
<1>. HIDE DEF upTo
<1>3. Cardinality(upTo(k)) < Cardinality(upTo(n))
  <2>1. IsFiniteSet(upTo(n))
    BY <1>1, FS_Subset
  <2>2. upTo(k) # upTo(n)
    BY <1>2
  <2>3. IsFiniteSet(upTo(k)) /\ Cardinality(upTo(k)) <= Cardinality(upTo(n))
    BY <1>2, <2>1, FS_Subset
  <2>4. Cardinality(upTo(k)) # Cardinality(upTo(n))
    BY <1>2, <2>1, <2>2, FS_Subset
  <2>5. Cardinality(upTo(k)) \in Nat /\ Cardinality(upTo(n)) \in Nat
    BY <2>1, <2>3, FS_CardinalityType
  <2>. QED
    BY <2>3, <2>4, <2>5
<1>. QED
  BY <1>3 DEF Place, upTo

\* What is captured later changes no place.
LEMMA PlacesStay ==
    ASSUME captured \in Seq(Packet), NEW p \in Packet, NEW k \in 0..Len(captured)
    PROVE  Place(Append(captured, p), k) = Place(captured, k)
<1>1. \A j \in 1..k : Append(captured, p)[j] = captured[j]
  OBVIOUS
<1>2. {j \in 1..k : IsNeighbour(Append(captured, p)[j])} = {j \in 1..k : IsNeighbour(captured[j])}
  BY <1>1
<1>. QED
  BY <1>2 DEF Place

----------------------------------------------------------------------------
(* Every step preserves it *)

\* What run may do at each place.
RunStep == Setup \/ Loop \/ ReadFails \/ Send \/ GiveUp
OtherStep == (\E p \in Packet : Capture(p)) \/ Break \/ Receive \/ Cancel

LEMMA TypeStep ==
    ASSUME Inv, [Next]_vars
    PROVE  TypeInv' /\ Phases'
<1>. USE DEF Inv, TypeInv, Phases, capture, Return
<1>1. UNCHANGED manuf
  BY DEF Next, vars, Setup, Loop, CancelledBefore, Open, OpenFails, Opened, FilterFails,
         Filtered, LeaveLoop, NextPacket, Timeout, ReadPacket, ReadFails, Send, GiveUp, Capture,
         Break, Receive, Cancel, Over
<1>2. Updates' = Updates
  BY <1>1 DEF Updates, Update
<1>. HIDE DEF capture
<1>3. ASSUME Setup \/ ReadFails \/ GiveUp PROVE TypeInv' /\ Phases'
  BY <1>2, <1>3 DEF capture, Setup, CancelledBefore, Open, OpenFails, Opened, FilterFails, Filtered,
              ReadFails, GiveUp
<1>4. ASSUME Loop PROVE TypeInv' /\ Phases'
  <2>1. ASSUME ReadPacket PROVE TypeInv' /\ Phases'
    <3>1. taken + 1 \in 0..Len(captured)
      BY <2>1 DEF ReadPacket, Buffered
    <3>. QED
      BY <1>2, <2>1, <3>1 DEF ReadPacket
  <2>2. ASSUME LeaveLoop \/ NextPacket \/ Timeout PROVE TypeInv' /\ Phases'
    BY <1>2, <2>2 DEF capture, LeaveLoop, NextPacket, Timeout
  <2>. QED
    BY <1>4, <2>1, <2>2 DEF Loop
<1>5. ASSUME Send PROVE TypeInv' /\ Phases'
  <2>1. captured[taken] \in Packet /\ Update(captured[taken]) \in Updates
    BY <1>5 DEF Send, Updates
  <2>2. reported' \in Seq(Updates)
    BY <1>5, <2>1 DEF Send
  <2>. QED
    BY <1>2, <1>5, <2>2 DEF Send, capture
<1>6. ASSUME NEW p \in Packet, Capture(p) PROVE TypeInv' /\ Phases'
  BY <1>2, <1>6 DEF Capture
<1>7. ASSUME Break \/ Receive \/ Cancel PROVE TypeInv' /\ Phases'
  <2>1. UNCHANGED <<run, result, handle, captured, taken, reported>>
    BY <1>7 DEF capture, Break, Receive, Cancel
  <2>2. cancelled' \in BOOLEAN
    BY <1>7 DEF Break, Receive, Cancel
  <2>3. queued' \in 0..OutCap
    BY <1>7 DEF Break, Receive, Cancel
  <2>. QED
    BY <1>2, <2>1, <2>2, <2>3
<1>8. ASSUME UNCHANGED vars PROVE TypeInv' /\ Phases'
  BY <1>2, <1>8 DEF vars, capture
<1>. QED
  BY <1>3, <1>4, <1>5, <1>6, <1>7, <1>8 DEF Next, Over

LEMMA ReportedStep ==
    ASSUME Inv, [Next]_vars
    PROVE  EveryPacketReported'
<1>. USE DEF Inv, TypeInv, Phases
<1>1. \A k \in 0..Len(captured) : Place(captured, k) \in Nat
  BY PlaceOfNext
<1>2. ASSUME Setup \/ LeaveLoop \/ NextPacket \/ Timeout \/ ReadFails \/ GiveUp
             \/ Break \/ Receive \/ Cancel \/ UNCHANGED vars
      PROVE  EveryPacketReported'
  <2>1. UNCHANGED <<captured, taken, reported>>
    BY <1>2 DEF Setup, CancelledBefore, Open, OpenFails, Opened, FilterFails, Filtered,
                LeaveLoop, NextPacket, Timeout, ReadFails, GiveUp, Break, Receive, Cancel, vars,
                Return, capture
  <2>2. \/ run' = run
        \/ run # "sending" /\ run' # "sending"
        \/ run = "sending" /\ run' = "returned" /\ cancelled'
    BY <1>2 DEF Setup, CancelledBefore, Open, OpenFails, Opened, FilterFails, Filtered,
                LeaveLoop, NextPacket, Timeout, ReadFails, GiveUp, Break, Receive, Cancel, vars,
                Return, capture
  <2>3. run = "returned" => run' = "returned"
    BY <1>2 DEF Setup, CancelledBefore, Open, OpenFails, Opened, FilterFails, Filtered,
                LeaveLoop, NextPacket, Timeout, ReadFails, GiveUp, Break, Receive, Cancel, vars,
                Return, capture
  <2>4. cancelled => cancelled'
    BY <1>2 DEF Setup, CancelledBefore, Open, OpenFails, Opened, FilterFails, Filtered,
                LeaveLoop, NextPacket, Timeout, ReadFails, GiveUp, Break, Receive, Cancel, vars,
                Return, capture
  <2>. QED
    BY <2>1, <2>2, <2>3, <2>4 DEF EveryPacketReported
<1>3. ASSUME ReadPacket PROVE EveryPacketReported'
  <2>1. /\ run = "reading" /\ taken' = taken + 1 /\ UNCHANGED <<captured, reported>>
        /\ run' = IF IsNeighbour(captured[taken + 1]) THEN "sending" ELSE "looping"
        /\ taken + 1 \in 1..Len(captured)
    BY <1>3 DEF ReadPacket, Buffered
  <2>2. Len(reported) = Place(captured, taken)
    BY <2>1 DEF EveryPacketReported
  <2>3. Place(captured, taken + 1) =
            Place(captured, taken) + (IF IsNeighbour(captured[taken + 1]) THEN 1 ELSE 0)
    <3>1. taken \in Nat
      BY DEF TypeInv
    <3>. QED
      BY <3>1, PlaceOfNext, Zenon
  <2>4. ASSUME NEW k \in 1..(taken + 1), IsNeighbour(captured[k]), Place(captured, k) <= Len(reported)
        PROVE  /\ reported[Place(captured, k)].mac = captured[k].mac
               /\ reported[Place(captured, k)].ip = captured[k].ip
    <3>1. k # taken + 1
      BY <1>1, <2>2, <2>3, <2>4
    <3>. QED
      BY <2>4, <3>1 DEF EveryPacketReported
  <2>. QED
    BY <1>1, <2>1, <2>2, <2>3, <2>4 DEF EveryPacketReported
<1>4. ASSUME Send PROVE EveryPacketReported'
  <2>1. /\ run = "sending" /\ run' = "looping" /\ UNCHANGED <<captured, taken>>
        /\ reported' = Append(reported, Update(captured[taken]))
        /\ taken \in 1..Len(captured) /\ IsNeighbour(captured[taken])
    BY <1>4 DEF Send, capture
  <2>2. Len(reported) = Place(captured, taken) - 1
    BY <2>1 DEF EveryPacketReported
  <2>3. Update(captured[taken]) \in Updates
    BY <2>1 DEF Updates
  <2>4. /\ Len(reported') = Place(captured, taken)
        /\ reported'[Len(reported')] = Update(captured[taken])
        /\ \A n \in 1..Len(reported) : reported'[n] = reported[n]
    BY <1>1, <2>1, <2>2, <2>3
  <2>5. ASSUME NEW k \in 1..taken, IsNeighbour(captured[k])
        PROVE  /\ reported'[Place(captured, k)].mac = captured[k].mac
               /\ reported'[Place(captured, k)].ip = captured[k].ip
    <3>1. CASE k = taken
      BY <2>4, <3>1 DEF Update
    <3>2. CASE k # taken
      <4>1. Place(captured, k) < Place(captured, taken) /\ taken \in Nat
        BY <2>1, <3>2, PlacesDiffer
      <4>2. Place(captured, k) >= 1
        <5>1. PICK m \in Nat : k = m + 1
          <6>1. k - 1 \in Nat /\ k = (k - 1) + 1
            OBVIOUS
          <6>. QED
            BY <6>1
        <5>2. /\ Place(captured, m) \in Nat
              /\ Place(captured, m + 1) =
                    Place(captured, m) + (IF IsNeighbour(captured[m + 1]) THEN 1 ELSE 0)
          BY PlaceOfNext
        <5>. QED
          BY <2>5, <5>1, <5>2
      <4>3. Place(captured, k) \in 1..Len(reported)
        BY <1>1, <2>1, <2>2, <4>1, <4>2
      <4>. QED
        BY <2>4, <2>5, <4>3 DEF EveryPacketReported
    <3>. QED
      BY <3>1, <3>2
  <2>. QED
    BY <2>1, <2>4, <2>5 DEF EveryPacketReported
<1>5. ASSUME NEW p \in Packet, Capture(p) PROVE EveryPacketReported'
  <2>1. captured' = Append(captured, p) /\ UNCHANGED <<run, cancelled, taken, reported>>
    BY <1>5 DEF Capture
  <2>2. \A k \in 0..taken : Place(captured', k) = Place(captured, k)
    BY <2>1, PlacesStay
  <2>3. \A k \in 1..taken : captured'[k] = captured[k]
    BY <2>1
  <2>. QED
    BY <2>1, <2>2, <2>3 DEF EveryPacketReported
<1>. QED
  BY <1>2, <1>3, <1>4, <1>5 DEF Next, Loop, Over

LEMMA InvHolds == Spec => []Inv
<1>1. Init => Inv
  <2>. SUFFICES ASSUME Init PROVE Inv
    OBVIOUS
  <2>1. TypeInv /\ Phases
    BY DEF Init, TypeInv, Phases
  <2>2. Place(captured, 0) = 0
    <3>1. {j \in 1..0 : IsNeighbour(captured[j])} = {}
      OBVIOUS
    <3>. QED
      BY <3>1, FS_EmptySet DEF Place
  <2>3. EveryPacketReported
    BY <2>2 DEF Init, EveryPacketReported
  <2>. QED
    BY <2>1, <2>3 DEF Inv
<1>2. Inv /\ [Next]_vars => Inv'
  BY TypeStep, ReportedStep DEF Inv
<1>. QED
  BY <1>1, <1>2, PTL DEF Spec

----------------------------------------------------------------------------
(* The theorems *)

\* arp.go:22-23: however many packets come, whenever the filter is set, the channel is full
\* or a cancellation comes, the n-th packet of the subnet is the n-th update.
THEOREM PacketsAreReported == Spec => []EveryPacketReported
<1>1. Inv => EveryPacketReported
  BY DEF Inv
<1>. QED
  BY <1>1, InvHolds, PTL

\* The safety part of WorkerSpec: the worker sends only while it runs and only what the
\* channel holds, returns nil only after a cancellation, and returns once.
THEOREM ARPWorkerKeepsContract == Spec => Contract!Init /\ [][Contract!Next]_(Contract!vars)
<1>1. Init => Contract!Init
  BY DEF Init, Contract!Init
<1>2. ASSUME Inv, [Next]_vars PROVE [Contract!Next]_(Contract!vars)
  <2>. USE DEF Contract!vars, Contract!Running
  <2>1. UNCHANGED <<FALSE, TRUE>> /\ TRUE' \in BOOLEAN
    OBVIOUS
  <2>0. result = "none" <=> run # "returned"
    BY <1>2 DEF Inv, Phases
  <2>2. ASSUME NEW value \in {"nil", "failed"}, Return(value), run # "returned",
               value = "nil" => cancelled
        PROVE  Contract!Next
    <3>1. /\ result = "none" /\ result' = value /\ UNCHANGED <<cancelled, queued>>
      BY <2>2, <2>0 DEF Return
    <3>2. CASE value = "failed"
      BY <2>1, <3>1, <3>2 DEF Contract!Next, Contract!Fails, Contract!Returns
    <3>3. CASE value = "nil"
      BY <2>1, <2>2, <3>1, <3>3 DEF Contract!Next, Contract!Obeys, Contract!Returns
    <3>. QED
      BY <3>2, <3>3
  <2>3. ASSUME CancelledBefore \/ OpenFails \/ FilterFails \/ LeaveLoop \/ ReadFails \/ GiveUp
        PROVE  Contract!Next
    BY <2>2, <2>3 DEF CancelledBefore, OpenFails, FilterFails, LeaveLoop, ReadFails, GiveUp
  <2>4. ASSUME Send PROVE Contract!Next
    <3>1. /\ result = "none" /\ queued < OutCap /\ queued' = queued + 1
          /\ UNCHANGED <<cancelled, result>>
      BY <2>4, <2>0 DEF Send
    <3>2. Contract!Sends
      BY <2>1, <3>1, Zenon DEF Contract!Sends
    <3>. QED
      BY <3>2 DEF Contract!Next
  <2>5. ASSUME Receive PROVE Contract!Next
    BY <2>1, <2>5 DEF Receive, Contract!Next, Contract!Receives
  <2>6. ASSUME Cancel PROVE Contract!Next
    BY <2>1, <2>6 DEF Cancel, Contract!Next, Contract!Cancel
  <2>7. ASSUME \/ Open \/ Opened \/ Filtered \/ NextPacket \/ Timeout \/ ReadPacket
               \/ (\E p \in Packet : Capture(p)) \/ Break \/ UNCHANGED vars
        PROVE  UNCHANGED Contract!vars
    BY <2>1, <2>7 DEF Open, Opened, Filtered, NextPacket, Timeout, ReadPacket, Capture, Break, vars
  <2>. QED
    BY <1>2, <2>3, <2>4, <2>5, <2>6, <2>7 DEF Next, Setup, Loop, Over
<1>. QED
  BY <1>1, <1>2, InvHolds, PTL DEF Spec

----------------------------------------------------------------------------
(* Induction, and sorting the lengths of the prefixes *)

\* A set of numbers has a least one.
LEMMA LeastIs ==
    ASSUME NEW S \in SUBSET Nat, S # {}
    PROVE  \E n \in S : \A k \in S : n <= k
<1>. DEFINE less == OpToRel(<, Nat)
<1>1. PICK n \in S : \A k \in S : ~(<<k, n>> \in less)
  BY NatLessThanWellFounded, WFMin, Zenon
<1>2. \A k \in S : <<k, n>> \in less <=> k < n
  BY DEF OpToRel
<1>3. ASSUME NEW k \in S PROVE n <= k
  <2>1. n \in Nat /\ k \in Nat /\ ~(k < n)
    BY <1>1, <1>2
  <2>. QED
    BY <2>1
<1>. QED
  BY <1>3

\* A set that holds 0 and every successor holds all numbers: induction without a parameter.
LEMMA SetInduction ==
    ASSUME NEW T, 0 \in T, \A n \in Nat : n \in T => n + 1 \in T
    PROVE  Nat \subseteq T
<1>. DEFINE rest == Nat \ T
<1>. SUFFICES ASSUME rest # {} PROVE FALSE
  OBVIOUS
<1>1. PICK n \in rest : \A k \in rest : n <= k
  <2>1. rest \in SUBSET Nat
    OBVIOUS
  <2>. HIDE DEF rest
  <2>. QED
    BY <2>1, LeastIs
<1>2. n \in Nat /\ n # 0 /\ n - 1 \in Nat
  OBVIOUS
<1>3. n - 1 \in T
  BY <1>1, <1>2
<1>4. (n - 1) + 1 \in T
  BY <1>2, <1>3
<1>. QED
  BY <1>2, <1>4

Descending(s, S) == S = Range(s) /\ \A n, k \in DOMAIN s : n < k => s[n] > s[k]

\* Every finite set of numbers can be put in order, one after the other.
LEMMA OrderIs ==
    ASSUME NEW S \in SUBSET Nat, IsFiniteSet(S)
    PROVE  Order(S) \in [1..Cardinality(S) -> S] /\ Descending(Order(S), S)
<1>. DEFINE Sortable(U) == \E s \in [1..Cardinality(U) -> U] : Descending(s, U)
            T == {n \in Nat : \A U \in SUBSET Nat :
                     IsFiniteSet(U) /\ Cardinality(U) = n => Sortable(U)}
<1>1. 0 \in T
  <2>. SUFFICES ASSUME NEW U \in SUBSET Nat, IsFiniteSet(U), Cardinality(U) = 0
                PROVE  Sortable(U)
    OBVIOUS
  <2>. DEFINE s == [i \in 1..Cardinality(U) |-> i]
  <2>1. U = {} /\ 1..Cardinality(U) = {}
    BY FS_EmptySet
  <2>2. s \in [1..Cardinality(U) -> U] /\ Descending(s, U)
    BY <2>1 DEF Descending, Range
  <2>. QED
    BY <2>2
<1>2. ASSUME NEW n \in Nat, n \in T PROVE n + 1 \in T
  <2>. SUFFICES ASSUME NEW U \in SUBSET Nat, IsFiniteSet(U), Cardinality(U) = n + 1
                PROVE  Sortable(U)
    OBVIOUS
  <2>1. PICK least \in U : \A k \in U : least <= k
    <3>1. U # {}
      BY FS_EmptySet
    <3>. QED
      BY <3>1, LeastIs
  <2>2. PICK others : others = U \ {least}
    OBVIOUS
  <2>3. others \in SUBSET Nat /\ IsFiniteSet(others) /\ Cardinality(others) = n
    BY <2>2, FS_RemoveElement
  <2>4. PICK s \in [1..n -> others] : Descending(s, others)
    BY <1>2, <2>3
  <2>. DEFINE t == [i \in 1..(n + 1) |-> IF i <= n THEN s[i] ELSE least]
  <2>5. t \in [1..(n + 1) -> U]
    BY <2>2
  <2>6. U = Range(t)
    <3>1. ASSUME NEW k \in U PROVE k \in Range(t)
      <4>1. CASE k = least
        BY <4>1 DEF Range
      <4>2. CASE k # least
        <5>1. PICK i \in 1..n : s[i] = k
          BY <2>2, <2>4, <4>2 DEF Descending, Range
        <5>2. i \in 1..(n + 1) /\ t[i] = k
          BY <5>1
        <5>. QED
          BY <5>2 DEF Range
      <4>. QED
        BY <4>1, <4>2
    <3>. QED
      BY <2>5, <3>1 DEF Range
  <2>7. ASSUME NEW i \in 1..(n + 1), NEW j \in 1..(n + 1), i < j PROVE t[i] > t[j]
    <3>1. i \in 1..n /\ t[i] = s[i] /\ s[i] \in others
      BY <2>7
    <3>2. CASE j <= n
      BY <2>4, <2>7, <3>1, <3>2 DEF Descending
    <3>3. CASE ~(j <= n)
      <4>1. t[j] = least /\ s[i] \in Nat /\ least \in Nat
        BY <3>1, <2>2, <3>3
      <4>. QED
        BY <2>1, <2>2, <3>1, <4>1
    <3>. QED
      BY <3>2, <3>3
  <2>. HIDE DEF t
  <2>8. DOMAIN t = 1..(n + 1)
    BY <2>5
  <2>9. Descending(t, U)
    BY <2>6, <2>7, <2>8 DEF Descending
  <2>. QED
    BY <2>5, <2>9
<1>3. Cardinality(S) \in T
  <2>1. Cardinality(S) \in Nat
    BY FS_CardinalityType
  <2>. HIDE DEF T
  <2>. QED
    BY <1>1, <1>2, <2>1, SetInduction
<1>4. \E s \in [1..Cardinality(S) -> S] :
          S = Range(s) /\ \A n, k \in DOMAIN s : n < k => s[n] > s[k]
  BY <1>3 DEF Descending
<1>. QED
  BY <1>4 DEF Order, LongestFirst, Descending

----------------------------------------------------------------------------
(* What the rows of manuf.txt become *)

USE DigitsAssumption

\* Of the first n rows, the last one for a prefix.
IsLast(rows, n, k, prefix) ==
    /\ k \in 1..n /\ IsEntry(rows[k]) /\ Prefix(rows[k]) = prefix
    /\ \A j \in 1..n : IsEntry(rows[j]) /\ Prefix(rows[j]) = prefix => j <= k

\* The map has the prefixes of the first n rows, each with the last of its names.
Holds(map, rows, n, names) ==
    /\ \A prefix \in DOMAIN map : \E k \in 1..n : IsLast(rows, n, k, prefix) /\ map[prefix] = names[k]
    /\ \A k \in 1..n : IsEntry(rows[k]) => Prefix(rows[k]) \in DOMAIN map

LEMMA PutHolds ==
    ASSUME NEW rows, NEW names, NEW n \in Nat, NEW map, Holds(map, rows, n, names)
    PROVE  /\ IsEntry(rows[n + 1])
                  => Holds(Put(map, Prefix(rows[n + 1]), names[n + 1]), rows, n + 1, names)
           /\ ~IsEntry(rows[n + 1]) => Holds(map, rows, n + 1, names)
<1>1. ASSUME NEW prefix, NEW k \in 1..n, IsLast(rows, n, k, prefix),
             ~(IsEntry(rows[n + 1]) /\ Prefix(rows[n + 1]) = prefix)
      PROVE  k \in 1..(n + 1) /\ IsLast(rows, n + 1, k, prefix)
  <2>1. \A j \in 1..(n + 1) : j \in 1..n \/ j = n + 1
    OBVIOUS
  <2>2. k \in 1..(n + 1)
    OBVIOUS
  <2>. QED
    BY <1>1, <2>1, <2>2 DEF IsLast
<1>2. CASE ~IsEntry(rows[n + 1])
  <2>1. \A j \in 1..(n + 1) : j \in 1..n \/ j = n + 1
    OBVIOUS
  <2>. QED
    BY <1>1, <1>2, <2>1 DEF Holds
<1>3. CASE IsEntry(rows[n + 1])
  <2>. DEFINE new == Prefix(rows[n + 1])
              put == Put(map, new, names[n + 1])
  <2>1. DOMAIN put = DOMAIN map \cup {new} /\ put[new] = names[n + 1]
        /\ \A prefix \in DOMAIN map : prefix # new => put[prefix] = map[prefix]
    BY DEF Put
  <2>2. ASSUME NEW prefix \in DOMAIN put
        PROVE  \E k \in 1..(n + 1) : IsLast(rows, n + 1, k, prefix) /\ put[prefix] = names[k]
    <3>1. CASE prefix = new
      <4>1. IsLast(rows, n + 1, n + 1, prefix) /\ n + 1 \in 1..(n + 1)
        BY <1>3, <3>1 DEF IsLast
      <4>. QED
        BY <2>1, <3>1, <4>1
    <3>2. CASE prefix # new
      <4>1. PICK k \in 1..n : IsLast(rows, n, k, prefix) /\ map[prefix] = names[k]
        BY <2>1, <3>2 DEF Holds
      <4>2. put[prefix] = map[prefix]
        BY <2>1, <3>2
      <4>. HIDE DEF put
      <4>. QED
        BY <1>1, <3>2, <4>1, <4>2
    <3>. QED
      BY <3>1, <3>2
  <2>3. ASSUME NEW k \in 1..(n + 1), IsEntry(rows[k]) PROVE Prefix(rows[k]) \in DOMAIN put
    <3>1. CASE k = n + 1
      BY <2>1, <3>1
    <3>2. CASE k # n + 1
      <4>1. k \in 1..n
        BY <3>2
      <4>. QED
        BY <2>1, <2>3, <4>1 DEF Holds
    <3>. QED
      BY <3>1, <3>2
  <2>. HIDE DEF put
  <2>4. Holds(put, rows, n + 1, names)
    BY <2>2, <2>3 DEF Holds
  <2>. QED
    BY <1>3, <2>4 DEF put
<1>. QED
  BY <1>2, <1>3

\* A row's prefix is what its mask leaves of its digits.
LEMMA PrefixIs ==
    ASSUME NEW row \in ManufRow
    PROVE  Prefix(row) \in Seq(Nat) /\ Len(Prefix(row)) \in Nat
<1>1. row.hex \in Seq(Nat) /\ row.mask \in Int
  BY DEF ManufRow
<1>2. <<>> \in Seq(Nat)
  OBVIOUS
<1>3. \A n \in 1..Len(row.hex) : SubSeq(row.hex, 1, n) \in Seq(Nat)
  BY <1>1
<1>4. \A n \in Int : n <= 0 => SubSeq(row.hex, 1, n) \in Seq(Nat)
  BY <1>1
<1>5. Mask(row) \div DigitBits \in Int
  BY <1>1 DEF Mask, NoMask
<1>6. Prefix(row) \in Seq(Nat)
  <2>. DEFINE n == Mask(row) \div DigitBits
  <2>1. CASE Prefix(row) = NoPrefix
    BY <1>2, <2>1 DEF NoPrefix
  <2>2. CASE n <= Len(row.hex) /\ Prefix(row) = SubSeq(row.hex, 1, n)
    <3>1. n \in Int /\ Len(row.hex) \in Nat
      BY <1>1, <1>5
    <3>. HIDE DEF n
    <3>2. n \in 1..Len(row.hex) \/ n <= 0
      BY <2>2, <3>1
    <3>. QED
      BY <1>3, <1>4, <2>2, <3>1, <3>2
  <2>. QED
    BY <2>1, <2>2 DEF Prefix
<1>. QED
  BY <1>6

\* A row covers an address whose first digits are its prefix.
LEMMA CoversIs ==
    ASSUME NEW row \in ManufRow, NEW mac \in Seq(Nat)
    PROVE  Covers(row, mac) <=>
               /\ IsEntry(row) /\ Len(Prefix(row)) <= Len(mac)
               /\ Prefix(row) = SubSeq(mac, 1, Len(Prefix(row)))
<1>1. Prefix(row) \in Seq(Nat)
  BY PrefixIs
<1>2. SubSeq(Prefix(row), 1, Len(Prefix(row))) = Prefix(row)
  BY <1>1
<1>. QED
  BY <1>2 DEF Covers, IsPrefix

\* The maps after each of the first n rows, as the function of Tables says it.
NextMaps(maps, rows, n) ==
    IF n = 0 THEN [short |-> <<>>, long |-> <<>>] ELSE Read(maps[n - 1], rows[n])

AreMaps(maps, rows, n) == maps = [k \in 0..n |-> NextMaps(maps, rows, k)]

Maps(rows, n) == CHOOSE maps : AreMaps(maps, rows, n)

LEMMA MapsExist ==
    ASSUME NEW rows, NEW n \in Nat
    PROVE  AreMaps(Maps(rows, n), rows, n)
<1>. DEFINE T == {k \in Nat : \E maps : AreMaps(maps, rows, k)}
<1>1. 0 \in T
  <2>. DEFINE g == [k \in 0..0 |-> [short |-> <<>>, long |-> <<>>]]
  <2>1. g = [k \in 0..0 |-> NextMaps(g, rows, k)]
    BY DEF NextMaps
  <2>. QED
    BY <2>1 DEF AreMaps
<1>2. ASSUME NEW k \in Nat, k \in T PROVE k + 1 \in T
  <2>1. PICK g : AreMaps(g, rows, k)
    BY <1>2
  <2>. DEFINE h == [j \in 0..(k + 1) |-> IF j <= k THEN g[j] ELSE NextMaps(g, rows, k + 1)]
  <2>2. ASSUME NEW j \in 0..(k + 1) PROVE h[j] = NextMaps(h, rows, j)
    <3>1. CASE j = 0
      <4>1. g[0] = NextMaps(g, rows, 0)
        BY <2>1 DEF AreMaps
      <4>. QED
        BY <3>1, <4>1 DEF NextMaps
    <3>2. CASE j # 0
      <4>1. j - 1 \in 0..k /\ h[j - 1] = g[j - 1]
        BY <3>2
      <4>2. NextMaps(h, rows, j) = NextMaps(g, rows, j)
        BY <3>2, <4>1 DEF NextMaps
      <4>3. CASE j <= k
        <5>1. g[j] = NextMaps(g, rows, j)
          BY <2>1, <4>3 DEF AreMaps
        <5>. QED
          BY <4>2, <4>3, <5>1
      <4>4. CASE j = k + 1
        BY <4>2, <4>4
      <4>. QED
        BY <4>3, <4>4
    <3>. QED
      BY <3>1, <3>2
  <2>3. h = [j \in 0..(k + 1) |-> NextMaps(h, rows, j)]
    <3>. HIDE DEF h
    <3>1. h = [j \in 0..(k + 1) |-> h[j]]
      BY DEF h
    <3>. QED
      BY <2>2, <3>1
  <2>. HIDE DEF h
  <2>4. \E maps : AreMaps(maps, rows, k + 1)
    BY <2>3 DEF AreMaps
  <2>. QED
    BY <2>4
<1>3. n \in T
  <2>. HIDE DEF T
  <2>. QED
    BY <1>1, <1>2, SetInduction
<1>. QED
  BY <1>3 DEF Maps

LEMMA TablesAre ==
    ASSUME NEW rows
    PROVE  LET last == Maps(rows, Len(rows))[Len(rows)]
           IN  Tables(rows) = [short |-> last.short, long |-> last.long,
                               lengths |-> Order({Len(p) : p \in DOMAIN last.short})]
BY DEF Tables, Maps, AreMaps, NextMaps

ShortNames(rows) == [k \in DOMAIN rows |-> rows[k].short]
LongNames(rows)  == [k \in DOMAIN rows |-> rows[k].long]

\* After n rows both maps hold these, for every row has a long name.
LEMMA MapsHold ==
    ASSUME NEW rows \in Seq(ManufRow), NEW n \in 0..Len(rows)
    PROVE  /\ Holds(Maps(rows, Len(rows))[n].short, rows, n, ShortNames(rows))
           /\ Holds(Maps(rows, Len(rows))[n].long, rows, n, LongNames(rows))
<1>. DEFINE maps == Maps(rows, Len(rows))
            Both(k) == /\ Holds(maps[k].short, rows, k, ShortNames(rows))
                       /\ Holds(maps[k].long, rows, k, LongNames(rows))
            T == {k \in Nat : k <= Len(rows) => Both(k)}
<1>0. Len(rows) \in Nat /\ DOMAIN rows = 1..Len(rows)
  OBVIOUS
<1>1. \A k \in 0..Len(rows) : maps[k] = NextMaps(maps, rows, k)
  BY <1>0, MapsExist DEF AreMaps
<1>. HIDE DEF maps
<1>2. 0 \in T
  <2>1. maps[0].short = <<>> /\ maps[0].long = <<>>
    BY <1>0, <1>1 DEF NextMaps
  <2>2. \A names : Holds(<<>>, rows, 0, names)
    <3>1. DOMAIN <<>> = {} /\ 1..0 = {}
      OBVIOUS
    <3>. QED
      BY <3>1 DEF Holds
  <2>. QED
    BY <2>1, <2>2
<1>3. ASSUME NEW k \in Nat, k \in T PROVE k + 1 \in T
  <2>. SUFFICES ASSUME k + 1 <= Len(rows) PROVE Both(k + 1)
    OBVIOUS
  <2>1. Both(k) /\ k + 1 \in DOMAIN rows
    BY <1>0, <1>3
  <2>2. maps[k + 1] = Read(maps[k], rows[k + 1])
    <3>1. k + 1 \in 0..Len(rows) /\ k + 1 # 0 /\ (k + 1) - 1 = k
      BY <1>0
    <3>. QED
      BY <1>1, <3>1 DEF NextMaps
  <2>3. rows[k + 1].long # NoName
    <3>1. rows[k + 1] \in ManufRow
      BY <1>0
    <3>. QED
      BY <3>1 DEF ManufRow
  <2>4. ShortNames(rows)[k + 1] = rows[k + 1].short /\ LongNames(rows)[k + 1] = rows[k + 1].long
    BY <2>1 DEF ShortNames, LongNames
  <2>5. CASE ~IsEntry(rows[k + 1])
    <3>1. maps[k + 1] = maps[k]
      BY <2>2, <2>5 DEF Read
    <3>. QED
      BY <2>1, <2>5, <3>1, PutHolds
  <2>6. CASE IsEntry(rows[k + 1])
    <3>1. /\ maps[k + 1].short = Put(maps[k].short, Prefix(rows[k + 1]), rows[k + 1].short)
          /\ maps[k + 1].long = Put(maps[k].long, Prefix(rows[k + 1]), rows[k + 1].long)
      BY <2>2, <2>3, <2>6 DEF Read
    <3>. QED
      BY <2>1, <2>4, <2>6, <3>1, PutHolds
  <2>. QED
    BY <2>5, <2>6
<1>4. n \in T
  <2>1. n \in Nat
    BY <1>0
  <2>. HIDE DEF T
  <2>. QED
    BY <1>2, <1>3, <2>1, SetInduction
<1>. QED
  BY <1>0, <1>4 DEF maps

----------------------------------------------------------------------------
(* What is looked up *)

Blocks(rows) == {Prefix(rows[k]) : k \in {j \in DOMAIN rows : IsEntry(rows[j])}}
Lengths(rows)  == {Len(p) : p \in Blocks(rows)}

LEMMA LengthsAre ==
    ASSUME NEW rows \in Seq(ManufRow)
    PROVE  Lengths(rows) \in SUBSET Nat /\ IsFiniteSet(Lengths(rows))
<1>. DEFINE entries == {j \in DOMAIN rows : IsEntry(rows[j])}
<1>1. IsFiniteSet(entries)
  <2>1. DOMAIN rows = 1..Len(rows) /\ Len(rows) \in Nat
    OBVIOUS
  <2>2. IsFiniteSet(1..Len(rows)) /\ entries \subseteq 1..Len(rows)
    BY <2>1, FS_Interval
  <2>. HIDE DEF entries
  <2>. QED
    BY <2>2, FS_Subset
<1>2. \A j \in entries : Len(Prefix(rows[j])) \in Nat
  BY PrefixIs
<1>3. Lengths(rows) = {Len(Prefix(rows[j])) : j \in entries}
  BY DEF Lengths, Blocks
<1>. HIDE DEF entries
<1>4. IsFiniteSet({Len(Prefix(rows[j])) : j \in entries})
  <2>. DEFINE len == [j \in entries |-> Len(Prefix(rows[j]))]
  <2>1. len \in Surjection(entries, {Len(Prefix(rows[j])) : j \in entries})
    BY DEF Surjection
  <2>. HIDE DEF len
  <2>. QED
    BY <1>1, <2>1, FS_Surjection
<1>. QED
  BY <1>2, <1>3, <1>4

\* The prefixes of a map are those of the rows.
LEMMA DomainIs ==
    ASSUME NEW rows \in Seq(ManufRow), NEW map, NEW names, Holds(map, rows, Len(rows), names)
    PROVE  DOMAIN map = Blocks(rows)
<1>1. DOMAIN rows = 1..Len(rows)
  OBVIOUS
<1>2. ASSUME NEW p \in DOMAIN map PROVE p \in Blocks(rows)
  BY <1>1, <1>2 DEF Holds, IsLast, Blocks
<1>3. ASSUME NEW p \in Blocks(rows) PROVE p \in DOMAIN map
  BY <1>1, <1>3 DEF Holds, Blocks
<1>. QED
  BY <1>2, <1>3

\* The row that decides, if any, has the longest prefix of the address that a map has.
LEMMA DecidingIs ==
    ASSUME NEW rows \in Seq(ManufRow), NEW mac \in Seq(Nat),
           NEW size \in Nat, size <= Len(mac), NEW k,
           IsLast(rows, Len(rows), k, SubSeq(mac, 1, size)),
           \A j \in DOMAIN rows : Covers(rows[j], mac) => Len(Prefix(rows[j])) <= size
    PROVE  {j \in DOMAIN rows : Decides(rows, j, mac)} = {k}
<1>1. DOMAIN rows = 1..Len(rows) /\ Len(rows) \in Nat
  OBVIOUS
<1>2. Len(SubSeq(mac, 1, size)) = size
  OBVIOUS
<1>3. \A j \in DOMAIN rows : rows[j] \in ManufRow /\ Len(Prefix(rows[j])) \in Nat
  BY PrefixIs
<1>4. k \in DOMAIN rows /\ Covers(rows[k], mac) /\ Len(Prefix(rows[k])) = size
  BY <1>1, <1>2, <1>3, CoversIs DEF IsLast
<1>5. \A j \in DOMAIN rows : Covers(rows[j], mac) /\ Len(Prefix(rows[j])) = size => j <= k
  BY <1>1, <1>3, CoversIs DEF IsLast
<1>6. Decides(rows, k, mac)
  <2>1. \A j \in DOMAIN rows : Covers(rows[j], mac) =>
            \/ Len(Prefix(rows[j])) < size
            \/ Len(Prefix(rows[j])) = size /\ j <= k
    BY <1>3, <1>5
  <2>. QED
    BY <1>4, <2>1 DEF Decides
<1>7. ASSUME NEW j \in DOMAIN rows, Decides(rows, j, mac) PROVE j = k
  <2>1. Len(Prefix(rows[j])) <= size /\ Covers(rows[j], mac)
    BY <1>7 DEF Decides
  <2>2. size < Len(Prefix(rows[j])) \/ (size = Len(Prefix(rows[j])) /\ k <= j)
    BY <1>4, <1>7 DEF Decides
  <2>3. Len(Prefix(rows[j])) = size /\ k <= j
    BY <1>3, <2>1, <2>2
  <2>4. j <= k /\ j \in Nat /\ k \in Nat
    BY <1>1, <1>4, <1>5, <2>1, <2>3
  <2>. QED
    BY <2>3, <2>4
<1>. QED
  BY <1>4, <1>6, <1>7

\* A lookup finds the name of the row that decides, and none if there is no such row.
LEMMA LookupIs ==
    ASSUME NEW rows \in Seq(ManufRow), NEW map, NEW names, Holds(map, rows, Len(rows), names),
           NEW mac \in Seq(Nat)
    PROVE  LET deciding == {k \in DOMAIN rows : Decides(rows, k, mac)}
           IN  Lookup(map, Order(Lengths(rows)), mac) =
                   IF Len(mac) < BareDigits \/ deciding = {} THEN NoName
                   ELSE names[CHOOSE k \in deciding : TRUE]
<1>. DEFINE lengths == Order(Lengths(rows))
            matching == {n \in DOMAIN lengths : /\ lengths[n] <= Len(mac)
                                                /\ SubSeq(mac, 1, lengths[n]) \in DOMAIN map}
            deciding == {k \in DOMAIN rows : Decides(rows, k, mac)}
<1>1. /\ DOMAIN lengths \in SUBSET Nat
      /\ Lengths(rows) = {lengths[n] : n \in DOMAIN lengths}
      /\ \A n \in DOMAIN lengths : lengths[n] \in Nat
      /\ \A n, k \in DOMAIN lengths : n < k => lengths[n] > lengths[k]
  <2>1. Lengths(rows) \in SUBSET Nat /\ IsFiniteSet(Lengths(rows))
    BY LengthsAre
  <2>2. lengths \in [1..Cardinality(Lengths(rows)) -> Lengths(rows)]
        /\ Descending(lengths, Lengths(rows))
    BY <2>1, OrderIs
  <2>3. Lengths(rows) = {lengths[n] : n \in DOMAIN lengths}
    BY <2>2 DEF Descending, Range
  <2>. HIDE DEF lengths
  <2>. QED
    BY <2>1, <2>2, <2>3 DEF Descending
<1>2. DOMAIN map = Blocks(rows)
  BY DomainIs
<1>3. \A j \in DOMAIN rows : rows[j] \in ManufRow /\ Len(Prefix(rows[j])) \in Nat
  BY PrefixIs
<1>4. Lookup(map, lengths, mac) =
          IF Len(mac) < BareDigits \/ matching = {} THEN NoName
          ELSE map[SubSeq(mac, 1, lengths[CHOOSE n \in matching : \A k \in matching : n <= k])]
  BY DEF Lookup
<1>. HIDE DEF lengths
<1>5. ASSUME NEW j \in DOMAIN rows, Covers(rows[j], mac)
      PROVE  \E n \in matching : lengths[n] = Len(Prefix(rows[j]))
  <2>1. /\ IsEntry(rows[j]) /\ Len(Prefix(rows[j])) <= Len(mac)
        /\ Prefix(rows[j]) = SubSeq(mac, 1, Len(Prefix(rows[j])))
    BY <1>3, <1>5, CoversIs
  <2>2. Prefix(rows[j]) \in Blocks(rows)
    BY <2>1 DEF Blocks
  <2>3. Len(Prefix(rows[j])) \in Lengths(rows)
    BY <2>2 DEF Lengths
  <2>4. PICK n \in DOMAIN lengths : lengths[n] = Len(Prefix(rows[j]))
    BY <1>1, <2>3
  <2>. QED
    BY <1>2, <2>1, <2>2, <2>4
<1>6. CASE matching = {}
  <2>1. deciding = {}
    BY <1>5, <1>6 DEF Decides
  <2>. QED
    BY <1>4, <1>6, <2>1 DEF lengths
<1>7. CASE matching # {}
  <2>1. PICK least \in matching : least = (CHOOSE n \in matching : \A k \in matching : n <= k)
                                  /\ \A k \in matching : least <= k
    <3>1. matching \in SUBSET Nat
      BY <1>1
    <3>. HIDE DEF matching
    <3>2. \E n \in matching : \A k \in matching : n <= k
      BY <1>7, <3>1, LeastIs
    <3>. QED
      BY <3>2
  <2>2. PICK size \in Nat : size = lengths[least]
    BY <1>1
  <2>3. size <= Len(mac) /\ SubSeq(mac, 1, size) \in DOMAIN map
    BY <2>1, <2>2
  <2>4. PICK k : IsLast(rows, Len(rows), k, SubSeq(mac, 1, size))
                 /\ map[SubSeq(mac, 1, size)] = names[k]
    BY <2>3 DEF Holds
  <2>5. ASSUME NEW j \in DOMAIN rows, Covers(rows[j], mac) PROVE Len(Prefix(rows[j])) <= size
    <3>1. PICK n \in matching : lengths[n] = Len(Prefix(rows[j]))
      BY <1>5, <2>5
    <3>2. least <= n /\ least \in Nat /\ n \in Nat /\ lengths[n] \in Nat
      BY <1>1, <2>1
    <3>3. least = n \/ lengths[least] > lengths[n]
      BY <1>1, <3>2
    <3>. QED
      BY <2>2, <3>1, <3>2, <3>3
  <2>6. deciding = {k}
    BY <2>3, <2>4, <2>5, DecidingIs
  <2>. HIDE DEF deciding, matching
  <2>7. Lookup(map, lengths, mac) =
            IF Len(mac) < BareDigits \/ deciding = {} THEN NoName
            ELSE names[CHOOSE j \in deciding : TRUE]
    <3>1. (CHOOSE j \in {k} : TRUE) = k
      OBVIOUS
    <3>. QED
      BY <1>4, <1>7, <2>1, <2>2, <2>4, <2>6, <3>1
  <2>. QED
    BY <2>7 DEF lengths, deciding
<1>. QED
  BY <1>6, <1>7

\* Both lookups name what the deciding row names.
LEMMA VendorsAre ==
    ASSUME NEW rows \in Seq(ManufRow), NEW mac \in Seq(Nat)
    PROVE  LET deciding == {k \in DOMAIN rows : Decides(rows, k, mac)}
               row == IF Len(mac) < BareDigits \/ deciding = {}
                      THEN [short |-> NoName, long |-> NoName]
                      ELSE rows[CHOOSE k \in deciding : TRUE]
           IN  VendorOf(rows, mac) = row.short /\ LongVendorOf(rows, mac) = row.long
<1>. DEFINE last == Maps(rows, Len(rows))[Len(rows)]
            deciding == {k \in DOMAIN rows : Decides(rows, k, mac)}
<1>1. Len(rows) \in 0..Len(rows)
  OBVIOUS
<1>2. /\ Holds(last.short, rows, Len(rows), ShortNames(rows))
      /\ Holds(last.long, rows, Len(rows), LongNames(rows))
  BY <1>1, MapsHold
<1>3. Tables(rows) = [short |-> last.short, long |-> last.long,
                      lengths |-> Order({Len(p) : p \in DOMAIN last.short})]
  BY TablesAre
<1>. HIDE DEF last
<1>4. DOMAIN last.short = Blocks(rows)
  BY <1>2, DomainIs
<1>5. /\ VendorOf(rows, mac) = Lookup(last.short, Order(Lengths(rows)), mac)
      /\ LongVendorOf(rows, mac) = Lookup(last.long, Order(Lengths(rows)), mac)
  BY <1>3, <1>4 DEF VendorOf, LongVendorOf, Lengths
<1>6. VendorOf(rows, mac) = IF Len(mac) < BareDigits \/ deciding = {} THEN NoName
                            ELSE ShortNames(rows)[CHOOSE k \in deciding : TRUE]
  BY <1>2, <1>5, LookupIs
<1>7. LongVendorOf(rows, mac) = IF Len(mac) < BareDigits \/ deciding = {} THEN NoName
                                ELSE LongNames(rows)[CHOOSE k \in deciding : TRUE]
  BY <1>2, <1>5, LookupIs
<1>8. ASSUME deciding # {} PROVE (CHOOSE k \in deciding : TRUE) \in DOMAIN rows
  BY <1>8
<1>. HIDE DEF deciding
<1>9. ASSUME deciding # {}
      PROVE  /\ ShortNames(rows)[CHOOSE k \in deciding : TRUE] = rows[CHOOSE k \in deciding : TRUE].short
             /\ LongNames(rows)[CHOOSE k \in deciding : TRUE] = rows[CHOOSE k \in deciding : TRUE].long
  BY <1>8, <1>9 DEF ShortNames, LongNames
<1>10. LET row == IF Len(mac) < BareDigits \/ deciding = {}
                  THEN [short |-> NoName, long |-> NoName]
                  ELSE rows[CHOOSE k \in deciding : TRUE]
       IN  VendorOf(rows, mac) = row.short /\ LongVendorOf(rows, mac) = row.long
  BY <1>6, <1>7, <1>9
<1>. QED
  BY <1>10 DEF deciding

\* oui.go:155: however long manuf.txt is and whatever its rows' order, an update names the
\* vendor of the row that covers its MAC most closely, and the details the same one.
THEOREM ClosestVendorIsNamed == Spec => []VendorIsClosest
<1>. DEFINE Known == Inv /\ manuf \in Manuf
<1>1. Init /\ Inv => Known
  BY DEF Init
<1>2. Known /\ Inv' /\ [Next]_vars => Known'
  BY DEF Next, vars, Setup, Loop, CancelledBefore, Open, OpenFails, Opened, FilterFails,
         Filtered, LeaveLoop, NextPacket, Timeout, ReadPacket, ReadFails, Send, GiveUp, Capture,
         Break, Receive, Cancel, Over, Return
<1>3. ASSUME Known PROVE VendorIsClosest
  <2>. SUFFICES ASSUME NEW n \in DOMAIN reported
                PROVE  LET mac == reported[n].mac
                           deciding == {k \in DOMAIN manuf : Decides(manuf, k, mac)}
                           row == IF Len(mac) < BareDigits \/ deciding = {}
                                  THEN [short |-> NoName, long |-> NoName]
                                  ELSE manuf[CHOOSE k \in deciding : TRUE]
                       IN  /\ reported[n].vendor = row.short
                           /\ LongVendorOf(manuf, mac) = row.long
    BY DEF VendorIsClosest
  <2>1. reported \in Seq(Updates)
    BY <1>3 DEF Inv, TypeInv
  <2>2. PICK p \in Packet : reported[n] = Update(p)
    BY <2>1 DEF Updates
  <2>3. reported[n].mac = p.mac /\ reported[n].vendor = VendorOf(manuf, p.mac)
    BY <2>2 DEF Update
  <2>4. manuf \in Seq(ManufRow) /\ p.mac \in Seq(Nat)
    BY <1>3
  <2>. QED
    BY <2>3, <2>4, VendorsAre
<1>. QED
  BY <1>1, <1>2, <1>3, InvHolds, PTL DEF Spec
=============================================================================
