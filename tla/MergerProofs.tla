---------------------------- MODULE MergerProofs ----------------------------
(***************************************************************************)
(* Theorems about Merger, for all values of its constants: who owns an     *)
(* address, what the census is told, and what is known of a device (its    *)
(* ports and OS guess follow the scans on file, and nothing learned of it  *)
(* is forgotten).                                                          *)
(***************************************************************************)
EXTENDS Merger, TLAPS

USE NamesAssumption, ObservationAssumption, TimingAssumption, BufferAssumption

----------------------------------------------------------------------------
(* What the operators on devices return *)

Update ==
    [source : Source, mac : MAC \cup {None}, ip : IP \cup {None},
     name : Name \cup {None}, vendor : Vendor \cup {None},
     services : SUBSET Service, ports : SUBSET Port, rtt : Nat,
     measured : BOOLEAN, ttl : TTL \cup {0}, nbns : BOOLEAN, time : Nat]

\* An observation stamped when it was made is an update.
LEMMA StampedType ==
    ASSUME NEW o \in Observation, NEW t \in Nat
    PROVE  /\ Stamped(o, t) \in Update
           /\ Stamped(o, t).mac = o.mac /\ Stamped(o, t).ip = o.ip
BY DEF Stamped, Update, ObservationType

\* A new device is a device that owns no address.
LEMMA NewDeviceType ==
    ASSUME NEW t \in Nat
    PROVE  NewDevice(t) \in Device /\ NewDevice(t).ips = {}
<1>1. <<>> \in History
  BY DEF History
<1>. QED
  BY <1>1 DEF NewDevice, Device, None, Never, Status

\* The history keeps at most HistoryCap round trips.
LEMMA LatestType ==
    ASSUME NEW s \in Seq(Nat)
    PROVE  Latest(s) \in History
<1>1. CASE Len(s) > HistoryCap
  <2>. DEFINE a == Len(s) - HistoryCap + 1
  <2>1. a \in 1..Len(s) /\ Len(s) \in Nat
    BY <1>1
  <2>2. SubSeq(s, a, Len(s)) \in Seq(Nat) /\ Len(SubSeq(s, a, Len(s))) = HistoryCap
    BY <2>1
  <2>. QED
    BY <1>1, <2>2 DEF Latest, History
<1>2. CASE ~(Len(s) > HistoryCap)
  BY <1>2 DEF Latest, History
<1>. QED
  BY <1>1, <1>2

Scans(f) == DOMAIN f \subseteq IP /\ f \in [DOMAIN f -> SUBSET Port]

\* Deriving ports and OS guess changes nothing else.
LEMMA RefreshedType ==
    ASSUME NEW d \in Device, NEW f, Scans(f)
    PROVE  /\ Refreshed(d, f) \in Device
           /\ Refreshed(d, f).ips = d.ips
           /\ Refreshed(d, f).status = d.status
           /\ Refreshed(d, f).firstSeen = d.firstSeen
           /\ Refreshed(d, f).lastSeen = d.lastSeen
<1>. DEFINE ports == PortsOf(d.ips, f)
            evidence == [vendor |-> d.vendor, services |-> d.services,
                         ports |-> ports, ttl |-> d.ttl, nbns |-> d.nbns]
<1>1. ports \in SUBSET Port
  BY DEF PortsOf, Scans
<1>2. evidence \in Evidence
  BY <1>1 DEF Evidence, Device
<1>3. OSDetect[evidence] \in OSName
  BY <1>2, OSDetectAssumption
<1>4. Refreshed(d, f) = [d EXCEPT !.ports = ports, !.os = OSDetect[evidence]]
  BY DEF Refreshed
<1>. QED
  BY <1>1, <1>3, <1>4 DEF Device

\* A fold adds the folded entry's addresses and takes the later sighting with its
\* status.
LEMMA FoldType ==
    ASSUME NEW d \in Device, NEW s \in Device
    PROVE  /\ Fold(d, s) \in Device
           /\ Fold(d, s).ips = d.ips \cup s.ips
           /\ Fold(d, s).lastSeen = IF s.lastSeen > d.lastSeen THEN s.lastSeen ELSE d.lastSeen
           /\ Fold(d, s).status = IF s.lastSeen > d.lastSeen THEN s.status ELSE d.status
BY DEF Fold, Device

\* An observation adds its address.
LEMMA ObservedType ==
    ASSUME NEW d \in Device, NEW o \in Update, NEW c \in BOOLEAN
    PROVE  /\ Observed(d, o, c) \in Device
           /\ Observed(d, o, c).ips = d.ips \cup ({o.ip} \ {None})
           /\ Observed(d, o, c).lastSeen =
                IF o.source # "arp-seed" /\ o.time > d.lastSeen THEN o.time ELSE d.lastSeen
           /\ Observed(d, o, c).status =
                IF o.source # "arp-seed" THEN "Online" ELSE IF c THEN "Stale" ELSE d.status
<1>1. Latest(Append(d.rtts, o.rtt)) \in History
  <2>1. Append(d.rtts, o.rtt) \in Seq(Nat)
    BY DEF Device, Update, History
  <2>. QED
    BY <2>1, LatestType
<1>2. d.nbns \/ o.nbns \in BOOLEAN
  BY DEF Device, Update
<1>. QED
  BY <1>1, <1>2 DEF Observed, Device, Update, Status, Source

\* A scan is filed under its address.
LEMMA ScannedType ==
    ASSUME NEW f, Scans(f), NEW o \in Update
    PROVE  Scans(Scanned(f, o))
BY DEF Scans, Scanned, Update

----------------------------------------------------------------------------
(* What handleUpdate does to the books *)

\* An observation leaves a device with the addresses of base and its own.
After(o, base, c, f) == Refreshed(Observed(base, o, c), f)

LEMMA AfterType ==
    ASSUME NEW base \in Device, NEW o \in Update, NEW c \in BOOLEAN, NEW f, Scans(f)
    PROVE  /\ After(o, base, c, f) \in Device
           /\ After(o, base, c, f).ips = base.ips \cup ({o.ip} \ {None})
           /\ After(o, base, c, f).lastSeen =
                IF o.source # "arp-seed" /\ o.time > base.lastSeen THEN o.time ELSE base.lastSeen
           /\ After(o, base, c, f).status =
                IF o.source # "arp-seed" THEN "Online" ELSE IF c THEN "Stale" ELSE base.status
BY ObservedType, RefreshedType DEF After

\* The entry an observation with a MAC is applied to, before it is.
Found(u)   == IF u.mac \in DOMAIN byMAC THEN byMAC[u.mac] ELSE NewDevice(u.time)
Base(u)    == IF u.ip \in DOMAIN byIP THEN Fold(Found(u), byIP[u.ip]) ELSE Found(u)
Created(u) == u.mac \notin DOMAIN byMAC /\ u.ip \notin DOMAIN byIP

\* Identified, one device at a time.
LEMMA IdentifiedEffect ==
    ASSUME BooksOK, NEW u \in Update, Identified(u)
    PROVE  /\ u.mac \in MAC
           /\ Base(u) \in Device
           /\ BooksOK'
           /\ DOMAIN byMAC' = DOMAIN byMAC \cup {u.mac}
           /\ byMAC'[u.mac] = After(u, Base(u), Created(u), Scanned(Kept(u), u))
           /\ Scans(Scanned(Kept(u), u))
           /\ \A n \in DOMAIN byMAC \ {u.mac} :
                 /\ byMAC'[n].ips = byMAC[n].ips \ {u.ip}
                 /\ byMAC'[n].status = byMAC[n].status
                 /\ byMAC'[n].lastSeen = byMAC[n].lastSeen
           /\ DOMAIN byIP' = DOMAIN byIP \ {u.ip}
           /\ \A i \in DOMAIN byIP' : byIP'[i] = byIP[i]
<1>. DEFINE f == Scanned(Kept(u), u)
            new == After(u, Base(u), Created(u), f)
<1>1. u.mac \in MAC /\ u.time \in Nat
  BY DEF Identified, Update
<1>2. Found(u) \in Device
  BY <1>1, NewDeviceType DEF Found, BooksOK
<1>3. Base(u) \in Device
  BY <1>2, FoldType DEF Base, BooksOK
<1>4. Scans(Kept(u))
  BY DEF Kept, Scans, BooksOK, Without
<1>5. Scans(f)
  BY <1>4, ScannedType
<1>6. new \in Device
  BY <1>3, <1>5, AfterType DEF Created
<1>7. ASSUME NEW n \in DOMAIN byMAC
      PROVE  /\ Relieved(byMAC[n], u.ip, Kept(u)) \in Device
             /\ Relieved(byMAC[n], u.ip, Kept(u)).ips = byMAC[n].ips \ {u.ip}
             /\ Relieved(byMAC[n], u.ip, Kept(u)).status = byMAC[n].status
             /\ Relieved(byMAC[n], u.ip, Kept(u)).lastSeen = byMAC[n].lastSeen
  <2>. DEFINE d == [byMAC[n] EXCEPT !.ips = @ \ {u.ip}]
  <2>1. byMAC[n] \in Device
    BY DEF BooksOK
  <2>2. /\ d \in Device
        /\ d.ips = byMAC[n].ips \ {u.ip}
        /\ d.status = byMAC[n].status
        /\ d.lastSeen = byMAC[n].lastSeen
    BY <2>1 DEF Device
  <2>3. Relieved(byMAC[n], u.ip, Kept(u)) = Refreshed(d, Kept(u))
    BY DEF Relieved
  <2>. HIDE DEF d
  <2>. QED
    BY <2>2, <2>3, <1>4, RefreshedType
<1>8. /\ byMAC' = [m \in DOMAIN byMAC \cup {u.mac} |->
                     IF m = u.mac THEN new
                     ELSE IF m \in Losers(u) THEN Relieved(byMAC[m], u.ip, Kept(u))
                     ELSE byMAC[m]]
      /\ byIP' = Without(byIP, u.ip)
      /\ portsByIP' = f
  BY DEF Identified, After, Base, Found, Created
<1>. HIDE DEF new, f
<1>9. DOMAIN byMAC' = DOMAIN byMAC \cup {u.mac} /\ byMAC'[u.mac] = new
  BY <1>8
<1>10. \A m \in DOMAIN byMAC' : byMAC'[m] \in Device
  BY <1>6, <1>7, <1>8 DEF BooksOK
<1>11. byMAC' = [m \in DOMAIN byMAC' |-> byMAC'[m]]
  BY <1>8
<1>12. DOMAIN byIP' = DOMAIN byIP \ {u.ip} /\ byIP' \in [DOMAIN byIP' -> Device]
       /\ \A i \in DOMAIN byIP' : byIP'[i] = byIP[i]
  BY <1>8 DEF BooksOK, Without
<1>13. BooksOK'
  BY <1>1, <1>5, <1>8, <1>9, <1>10, <1>11, <1>12 DEF BooksOK, Scans
<1>14. ASSUME NEW n \in DOMAIN byMAC \ {u.mac}
       PROVE  /\ byMAC'[n].ips = byMAC[n].ips \ {u.ip}
              /\ byMAC'[n].status = byMAC[n].status
              /\ byMAC'[n].lastSeen = byMAC[n].lastSeen
  <2>1. CASE n \in Losers(u)
    BY <2>1, <1>7, <1>8
  <2>2. CASE n \notin Losers(u)
    <3>1. byMAC'[n] = byMAC[n]
      BY <2>2, <1>8
    <3>2. u.ip \notin byMAC[n].ips
      BY <2>2 DEF Losers, OwnersOf
    <3>. QED
      BY <3>1, <3>2
  <2>. QED
    BY <2>1, <2>2
<1>. QED
  BY <1>1, <1>3, <1>5, <1>9, <1>12, <1>13, <1>14 DEF new, f

\* Attributed changes the owner's entry alone.
LEMMA AttributedEffect ==
    ASSUME BooksOK, NEW u \in Update, NEW m \in OwnersOf(u.ip), Attributed(u, m)
    PROVE  /\ m \in DOMAIN byMAC /\ u.ip \in byMAC[m].ips
           /\ byMAC[m] \in Device
           /\ BooksOK'
           /\ DOMAIN byMAC' = DOMAIN byMAC
           /\ byMAC'[m] = After(u, byMAC[m], FALSE, Scanned(portsByIP, u))
           /\ Scans(Scanned(portsByIP, u))
           /\ \A n \in DOMAIN byMAC \ {m} : byMAC'[n] = byMAC[n]
           /\ byIP' = byIP
<1>. DEFINE f == Scanned(portsByIP, u)
            new == After(u, byMAC[m], FALSE, f)
<1>1. m \in DOMAIN byMAC /\ u.ip \in byMAC[m].ips /\ byMAC[m] \in Device
  BY DEF OwnersOf, BooksOK
<1>2. Scans(f)
  BY ScannedType DEF Scans, BooksOK
<1>3. new \in Device
  BY <1>1, <1>2, AfterType
<1>4. byMAC' = [byMAC EXCEPT ![m] = new] /\ portsByIP' = f /\ byIP' = byIP
  BY DEF Attributed, After
<1>. HIDE DEF new, f
<1>. QED
  BY <1>1, <1>2, <1>3, <1>4 DEF BooksOK, Scans, new, f

\* Unidentified changes the IP-only entry of the address alone.
AnonBase(u) == IF u.ip \in DOMAIN byIP THEN byIP[u.ip] ELSE NewDevice(u.time)

LEMMA UnidentifiedEffect ==
    ASSUME BooksOK, NEW u \in Update, u.ip # None, Unidentified(u)
    PROVE  /\ u.ip \in IP /\ OwnersOf(u.ip) = {}
           /\ AnonBase(u) \in Device
           /\ BooksOK'
           /\ DOMAIN byIP' = DOMAIN byIP \cup {u.ip}
           /\ byIP'[u.ip] = After(u, AnonBase(u), u.ip \notin DOMAIN byIP, Scanned(portsByIP, u))
           /\ Scans(Scanned(portsByIP, u))
           /\ \A i \in DOMAIN byIP \ {u.ip} : byIP'[i] = byIP[i]
           /\ byMAC' = byMAC
<1>. DEFINE f == Scanned(portsByIP, u)
            created == u.ip \notin DOMAIN byIP
            new == After(u, AnonBase(u), created, f)
<1>1. u.ip \in IP /\ u.time \in Nat /\ OwnersOf(u.ip) = {}
  BY DEF Unidentified, Update
<1>2. AnonBase(u) \in Device
  BY <1>1, NewDeviceType DEF AnonBase, BooksOK
<1>3. Scans(f)
  BY ScannedType DEF Scans, BooksOK
<1>4. new \in Device
  BY <1>2, <1>3, AfterType
<1>5. /\ byIP' = [i \in DOMAIN byIP \cup {u.ip} |-> IF i = u.ip THEN new ELSE byIP[i]]
      /\ portsByIP' = f /\ byMAC' = byMAC
  BY DEF Unidentified, After, AnonBase
<1>. HIDE DEF new, f
<1>. QED
  BY <1>1, <1>2, <1>3, <1>4, <1>5 DEF BooksOK, Scans, new, f

\* A sweep changes statuses only.
LEMMA AgedType ==
    ASSUME NEW d \in Device, NEW t \in Nat
    PROVE  /\ Aged(d, t) \in Device
           /\ Aged(d, t).ips = d.ips
           /\ Aged(d, t).lastSeen = d.lastSeen
           /\ Aged(d, t).status = IF LeftBy(d, t) THEN "Offline"
                                  ELSE IF StaleBy(d, t) /\ d.status = "Online" THEN "Stale"
                                  ELSE d.status
<1>. DEFINE st == IF LeftBy(d, t) THEN "Offline"
                  ELSE IF StaleBy(d, t) /\ d.status = "Online" THEN "Stale" ELSE d.status
<1>1. st \in Status
  BY DEF Status, Device
<1>2. Aged(d, t) = [d EXCEPT !.status = st]
  BY DEF Aged
<1>. HIDE DEF st
<1>3. /\ Aged(d, t) \in Device /\ Aged(d, t).ips = d.ips
      /\ Aged(d, t).lastSeen = d.lastSeen /\ Aged(d, t).status = st
  BY <1>1, <1>2 DEF Device
<1>. QED
  BY <1>3 DEF st

LEMMA SweepEffect ==
    ASSUME BooksOK, NEW t \in Nat, Sweep(t)
    PROVE  /\ BooksOK'
           /\ DOMAIN byMAC' = DOMAIN byMAC /\ DOMAIN byIP' = DOMAIN byIP
           /\ \A m \in DOMAIN byMAC : byMAC'[m] = Aged(byMAC[m], t)
           /\ \A i \in DOMAIN byIP : byIP'[i] = Aged(byIP[i], t)
BY AgedType DEF Sweep, BooksOK

----------------------------------------------------------------------------
(* Type correctness *)

\* The update a HandleUpdate step handles, and what it may do with it.
LEMMA HandleUpdateCases ==
    ASSUME NEW o \in Observation, NEW t \in 1..MaxTime, HandleUpdate(o, t)
    PROVE  \E u \in Update :
              /\ u = Stamped(o, t)
              /\ \/ Identified(u)
                 \/ u.ip # None /\ \E m \in OwnersOf(u.ip) : Attributed(u, m)
                 \/ u.ip # None /\ Unidentified(u)
<1>. DEFINE u == Stamped(o, t)
<1>1. u \in Update /\ u.mac = o.mac /\ u.ip = o.ip
  BY StampedType
<1>2. CASE o.mac # None
  BY <1>1, <1>2 DEF HandleUpdate
<1>3. CASE o.mac = None
  BY <1>1, <1>3 DEF HandleUpdate
<1>. QED
  BY <1>2, <1>3

\* An announcement keeps the channel's type and its capacity.
LEMMA AnnounceType ==
    ASSUME out \in Seq(Event), Len(out) <= Capacity,
           NEW o, NEW k \in Key, NEW d, NEW c, Announce(o, k, d, c)
    PROVE  out' \in Seq(Event) /\ Len(out') <= Capacity
<1>. DEFINE e == [type |-> EventType(d, c), key |-> k]
<1>1. e \in Event
  BY DEF Event, EventType, Type
<1>2. CASE o.source = "arp-seed" \/ Len(out) >= Capacity
  BY <1>2 DEF Announce
<1>3. CASE ~(o.source = "arp-seed" \/ Len(out) >= Capacity)
  <2>1. out' = Append(out, e)
    BY <1>3 DEF Announce
  <2>. HIDE DEF e
  <2>. QED
    BY <2>1, <1>1, <1>3
<1>. QED
  BY <1>2, <1>3

\* handleUpdate keeps the types of the books and of the channel.
LEMMA HandleUpdateTypes ==
    ASSUME TypeOK, NEW o \in Observation, NEW t \in 1..MaxTime, HandleUpdate(o, t)
    PROVE  BooksOK' /\ out' \in Seq(Event) /\ Len(out') <= Capacity
<1>1. PICK u \in Update :
        \/ Identified(u)
        \/ u.ip # None /\ \E m \in OwnersOf(u.ip) : Attributed(u, m)
        \/ u.ip # None /\ Unidentified(u)
  BY HandleUpdateCases
<1>2. BooksOK /\ out \in Seq(Event) /\ Len(out) <= Capacity
  BY DEF TypeOK
<1>3. CASE Identified(u)
  <2>1. u.mac \in Key
    BY <1>2, <1>3, IdentifiedEffect DEF Key
  <2>2. Announce(u, u.mac, Base(u), Created(u))
    BY <1>3 DEF Identified, Base, Found, Created
  <2>. QED
    BY <1>2, <1>3, <2>1, <2>2, IdentifiedEffect, AnnounceType
<1>4. ASSUME u.ip # None, NEW m \in OwnersOf(u.ip), Attributed(u, m)
      PROVE  BooksOK' /\ out' \in Seq(Event) /\ Len(out') <= Capacity
  <2>1. m \in Key
    BY DEF OwnersOf, Key, TypeOK, BooksOK
  <2>2. Announce(u, m, byMAC[m], FALSE)
    BY <1>4 DEF Attributed
  <2>. QED
    BY <1>2, <1>4, <2>1, <2>2, AttributedEffect, AnnounceType
<1>5. CASE u.ip # None /\ Unidentified(u)
  <2>1. u.ip \in Key
    BY <1>2, <1>5, UnidentifiedEffect DEF Key
  <2>2. Announce(u, u.ip, AnonBase(u), u.ip \notin DOMAIN byIP)
    BY <1>5 DEF Unidentified, AnonBase
  <2>. QED
    BY <1>2, <1>5, <2>1, <2>2, UnidentifiedEffect, AnnounceType
<1>. QED
  BY <1>1, <1>3, <1>4, <1>5

LEMMA TypeOKInit == Init => TypeOK
<1>. SUFFICES ASSUME Init PROVE TypeOK
  OBVIOUS
<1>1. DOMAIN <<>> = {} /\ \A S : <<>> \in [{} -> S]
  OBVIOUS
<1>2. BooksOK
  BY <1>1 DEF Init, BooksOK
<1>3. out \in Seq(Event) /\ Len(out) <= Capacity
  BY DEF Init
<1>4. now \in 1..MaxTime /\ swept \in 0..now
  BY DEF Init
<1>. QED
  BY <1>2, <1>3, <1>4 DEF Init, TypeOK

\* Every step keeps the types.
LEMMA TypeOKStep == TypeOK /\ [Next]_vars => TypeOK'
<1>. SUFFICES ASSUME TypeOK, [Next]_vars PROVE TypeOK'
  OBVIOUS
<1>1. ASSUME NEW o \in Observation, NEW t \in 1..MaxTime, HandleUpdate(o, t)
      PROVE  TypeOK'
  <2>1. BooksOK' /\ out' \in Seq(Event) /\ Len(out') <= Capacity
    BY <1>1, HandleUpdateTypes
  <2>2. seeding' \in BOOLEAN
    BY <1>1 DEF HandleUpdate
  <2>. QED
    BY <1>1, <2>1, <2>2 DEF HandleUpdate, TypeOK
<1>2. ASSUME NEW t \in 1..MaxTime, Sweep(t) PROVE TypeOK'
  <2>1. BooksOK'
    BY <1>2, SweepEffect DEF TypeOK
  <2>2. pending' \subseteq Key
    BY <1>2 DEF Sweep, Departing, Key, TypeOK, BooksOK
  <2>3. swept' \in 0..now'
    BY <1>2 DEF Sweep, Recent, TypeOK
  <2>. QED
    BY <1>2, <2>1, <2>2, <2>3 DEF Sweep, channel, TypeOK
<1>3. ASSUME NEW k \in Key, SendLeft(k) PROVE TypeOK'
  <2>1. [type |-> "Left", key |-> k] \in Event
    BY DEF Event, Type
  <2>2. out' \in Seq(Event) /\ Len(out') <= Capacity
    BY <1>3, <2>1 DEF SendLeft, TypeOK
  <2>. QED
    BY <1>3, <2>2 DEF SendLeft, books, TypeOK, BooksOK
<1>4. CASE AbandonSends
  BY <1>4 DEF AbandonSends, books, channel, TypeOK, BooksOK
<1>5. CASE Stop
  BY <1>5 DEF Stop, books, channel, TypeOK, BooksOK
<1>6. CASE Tick
  BY <1>6 DEF Tick, books, channel, TypeOK, BooksOK
<1>7. CASE Receive
  <2>1. Head(out) \in Event /\ Tail(out) \in Seq(Event) /\ Len(Tail(out)) <= Capacity
    BY <1>7 DEF Receive, TypeOK
  <2>2. gone' \subseteq Key
    BY <1>7, <2>1 DEF Receive, Event, TypeOK
  <2>. QED
    BY <1>7, <2>1, <2>2 DEF Receive, books, TypeOK, BooksOK
<1>8. CASE Cancel
  BY <1>8 DEF Cancel, books, channel, TypeOK, BooksOK
<1>9. CASE UNCHANGED vars
  BY <1>9 DEF vars, books, channel, TypeOK, BooksOK
<1>. QED
  BY <1>1, <1>2, <1>3, <1>4, <1>5, <1>6, <1>7, <1>8, <1>9 DEF Next

\* The state always has its types; no history and no channel outgrows its cap.
THEOREM TypeCorrect == Spec => []TypeOK
<1>1. Init => TypeOK
  BY TypeOKInit
<1>2. TypeOK /\ [Next]_vars => TypeOK'
  BY TypeOKStep
<1>. QED
  BY <1>1, <1>2, PTL DEF Spec

----------------------------------------------------------------------------
(* One owner per address *)

\* An ARP claim takes the address from everyone else and absorbs its IP-only entry.
LEMMA IdentifiedOwners ==
    ASSUME BooksOK, OneOwnerPerIP, NEW u \in Update, Identified(u)
    PROVE  /\ u.mac \in DOMAIN byMAC'
           /\ byMAC'[u.mac].ips =
                (IF u.mac \in DOMAIN byMAC THEN byMAC[u.mac].ips ELSE {})
                \cup ({u.ip} \ {None})
<1>1. Found(u) \in Device
      /\ Found(u).ips = IF u.mac \in DOMAIN byMAC THEN byMAC[u.mac].ips ELSE {}
  BY NewDeviceType DEF Found, BooksOK, Update
<1>2. Base(u).ips = Found(u).ips \cup (IF u.ip \in DOMAIN byIP THEN {u.ip} ELSE {})
  <2>1. CASE u.ip \in DOMAIN byIP
    <3>1. byIP[u.ip] \in Device /\ byIP[u.ip].ips = {u.ip}
      BY <2>1 DEF BooksOK, OneOwnerPerIP
    <3>. QED
      BY <1>1, <2>1, <3>1, FoldType DEF Base
  <2>2. CASE u.ip \notin DOMAIN byIP
    BY <2>2 DEF Base
  <2>. QED
    BY <2>1, <2>2
<1>3. u.ip \in DOMAIN byIP => u.ip # None
  BY DEF BooksOK
<1>4. byMAC'[u.mac].ips = Base(u).ips \cup ({u.ip} \ {None})
  <2>1. /\ Base(u) \in Device /\ Scans(Scanned(Kept(u), u))
        /\ byMAC'[u.mac] = After(u, Base(u), Created(u), Scanned(Kept(u), u))
    BY IdentifiedEffect
  <2>2. Created(u) \in BOOLEAN
    BY DEF Created
  <2>. QED
    BY <2>1, <2>2, AfterType
<1>5. DOMAIN byMAC' = DOMAIN byMAC \cup {u.mac}
  BY IdentifiedEffect
<1>6. byMAC'[u.mac].ips = Found(u).ips \cup ({u.ip} \ {None})
  <2>1. CASE u.ip \in DOMAIN byIP
    BY <1>2, <1>3, <1>4, <2>1
  <2>2. CASE u.ip \notin DOMAIN byIP
    BY <1>2, <1>4, <2>2
  <2>. QED
    BY <2>1, <2>2
<1>. QED
  BY <1>1, <1>5, <1>6

LEMMA IdentifiedOneOwner ==
    ASSUME BooksOK, OneOwnerPerIP, NEW u \in Update, Identified(u)
    PROVE  OneOwnerPerIP'
<1>. DEFINE old == IF u.mac \in DOMAIN byMAC THEN byMAC[u.mac].ips ELSE {}
<1>1. /\ DOMAIN byMAC' = DOMAIN byMAC \cup {u.mac}
      /\ \A n \in DOMAIN byMAC \ {u.mac} : byMAC'[n].ips = byMAC[n].ips \ {u.ip}
      /\ DOMAIN byIP' = DOMAIN byIP \ {u.ip}
      /\ \A i \in DOMAIN byIP' : byIP'[i] = byIP[i]
  BY IdentifiedEffect
<1>2. byMAC'[u.mac].ips = old \cup ({u.ip} \ {None})
  BY IdentifiedOwners
<1>3. \A n \in DOMAIN byMAC \ {u.mac} : byMAC[n].ips \cap old = {}
  BY DEF OneOwnerPerIP
<1>4. ASSUME NEW m \in DOMAIN byMAC', NEW n \in DOMAIN byMAC', m # n
      PROVE  byMAC'[m].ips \cap byMAC'[n].ips = {}
  <2>. HIDE DEF old
  <2>1. CASE m = u.mac
    BY <1>1, <1>2, <1>3, <1>4, <2>1
  <2>2. CASE n = u.mac
    BY <1>1, <1>2, <1>3, <1>4, <2>2
  <2>3. CASE m # u.mac /\ n # u.mac
    BY <1>1, <1>4, <2>3 DEF OneOwnerPerIP
  <2>. QED
    BY <2>1, <2>2, <2>3
<1>5. ASSUME NEW i \in DOMAIN byIP'
      PROVE  byIP'[i].ips = {i} /\ OwnersOf(i)' = {}
  <2>1. i \in DOMAIN byIP /\ i # u.ip /\ byIP'[i].ips = {i}
    BY <1>1, <1>5 DEF OneOwnerPerIP
  <2>2. \A m \in DOMAIN byMAC : i \notin byMAC[m].ips
    BY <2>1 DEF OneOwnerPerIP, OwnersOf
  <2>3. \A m \in DOMAIN byMAC' : i \notin byMAC'[m].ips
    BY <1>1, <1>2, <2>1, <2>2
  <2>. QED
    BY <2>1, <2>3 DEF OwnersOf
<1>. QED
  BY <1>4, <1>5 DEF OneOwnerPerIP

\* A MAC-less observation of an owned address gives its owner no new address.
LEMMA AttributedOwners ==
    ASSUME BooksOK, NEW u \in Update, u.ip # None,
           NEW m \in OwnersOf(u.ip), Attributed(u, m)
    PROVE  /\ DOMAIN byMAC' = DOMAIN byMAC
           /\ \A n \in DOMAIN byMAC : byMAC'[n].ips = byMAC[n].ips
           /\ byIP' = byIP
<1>1. byMAC'[m].ips = byMAC[m].ips \cup ({u.ip} \ {None})
  <2>. DEFINE f == Scanned(portsByIP, u)
              c == FALSE
  <2>1. /\ byMAC[m] \in Device /\ Scans(f) /\ c \in BOOLEAN
        /\ byMAC'[m] = After(u, byMAC[m], c, f)
    BY AttributedEffect
  <2>. HIDE DEF f, c
  <2>2. After(u, byMAC[m], c, f).ips = byMAC[m].ips \cup ({u.ip} \ {None})
    BY <2>1, AfterType
  <2>. QED
    BY <2>1, <2>2
<1>2. /\ u.ip \in byMAC[m].ips
      /\ DOMAIN byMAC' = DOMAIN byMAC /\ byIP' = byIP
      /\ \A n \in DOMAIN byMAC \ {m} : byMAC'[n] = byMAC[n]
  BY AttributedEffect
<1>3. byMAC'[m].ips = byMAC[m].ips
  BY <1>1, <1>2
<1>. QED
  BY <1>2, <1>3

LEMMA UnidentifiedOwners ==
    ASSUME BooksOK, OneOwnerPerIP, NEW u \in Update, u.ip # None, Unidentified(u)
    PROVE  byIP'[u.ip].ips = {u.ip}
<1>1. AnonBase(u).ips \subseteq {u.ip}
  BY NewDeviceType DEF AnonBase, OneOwnerPerIP, Update
<1>2. byIP'[u.ip].ips = AnonBase(u).ips \cup ({u.ip} \ {None})
  <2>. DEFINE f == Scanned(portsByIP, u)
              c == u.ip \notin DOMAIN byIP
  <2>1. /\ AnonBase(u) \in Device /\ Scans(f) /\ c \in BOOLEAN
        /\ byIP'[u.ip] = After(u, AnonBase(u), c, f)
    BY UnidentifiedEffect
  <2>. HIDE DEF f, c
  <2>2. After(u, AnonBase(u), c, f).ips = AnonBase(u).ips \cup ({u.ip} \ {None})
    BY <2>1, AfterType
  <2>. QED
    BY <2>1, <2>2
<1>. QED
  BY <1>1, <1>2

\* What is left alone keeps its owners.
LEMMA SameOwners ==
    ASSUME OneOwnerPerIP,
           DOMAIN byMAC' = DOMAIN byMAC, DOMAIN byIP' = DOMAIN byIP,
           \A n \in DOMAIN byMAC : byMAC'[n].ips = byMAC[n].ips,
           \A i \in DOMAIN byIP : byIP'[i].ips = byIP[i].ips
    PROVE  OneOwnerPerIP' /\ \A i : OwnersOf(i)' = OwnersOf(i)
BY DEF OneOwnerPerIP, OwnersOf

LEMMA SweepOwners ==
    ASSUME BooksOK, NEW t \in 1..MaxTime, Sweep(t)
    PROVE  /\ \A n \in DOMAIN byMAC : byMAC'[n].ips = byMAC[n].ips
           /\ \A i \in DOMAIN byIP : byIP'[i].ips = byIP[i].ips
<1>1. /\ \A n \in DOMAIN byMAC : byMAC[n] \in Device
      /\ \A i \in DOMAIN byIP : byIP[i] \in Device
  BY DEF BooksOK
<1>. QED
  BY <1>1, SweepEffect, AgedType

LEMMA HandleUpdateOneOwner ==
    ASSUME BooksOK, OneOwnerPerIP,
           NEW o \in Observation, NEW t \in 1..MaxTime, HandleUpdate(o, t)
    PROVE  OneOwnerPerIP'
<1>1. PICK u \in Update :
        \/ Identified(u)
        \/ u.ip # None /\ \E m \in OwnersOf(u.ip) : Attributed(u, m)
        \/ u.ip # None /\ Unidentified(u)
  BY HandleUpdateCases
<1>2. CASE Identified(u)
  BY <1>2, IdentifiedOneOwner
<1>3. ASSUME u.ip # None, NEW m \in OwnersOf(u.ip), Attributed(u, m)
      PROVE  OneOwnerPerIP'
  BY <1>3, AttributedOwners, SameOwners
<1>4. CASE u.ip # None /\ Unidentified(u)
  <2>1. /\ byMAC' = byMAC /\ DOMAIN byIP' = DOMAIN byIP \cup {u.ip}
        /\ OwnersOf(u.ip) = {}
        /\ \A i \in DOMAIN byIP \ {u.ip} : byIP'[i] = byIP[i]
    BY <1>4, UnidentifiedEffect
  <2>2. byIP'[u.ip].ips = {u.ip}
    BY <1>4, UnidentifiedOwners
  <2>3. \A i : OwnersOf(i)' = OwnersOf(i)
    BY <2>1 DEF OwnersOf
  <2>. QED
    BY <2>1, <2>2, <2>3 DEF OneOwnerPerIP
<1>. QED
  BY <1>1, <1>2, <1>3, <1>4

\* Every step leaves each address with one owner at most.
LEMMA OneOwnerStep == TypeOK /\ OneOwnerPerIP /\ [Next]_vars => OneOwnerPerIP'
<1>. SUFFICES ASSUME TypeOK, OneOwnerPerIP, [Next]_vars PROVE OneOwnerPerIP'
  OBVIOUS
<1>1. BooksOK
  BY DEF TypeOK
<1>2. ASSUME NEW o \in Observation, NEW t \in 1..MaxTime, HandleUpdate(o, t)
      PROVE  OneOwnerPerIP'
  BY <1>1, <1>2, HandleUpdateOneOwner
<1>3. ASSUME NEW t \in 1..MaxTime, Sweep(t) PROVE OneOwnerPerIP'
  BY <1>1, <1>3, SweepOwners, SweepEffect, SameOwners
<1>4. CASE UNCHANGED books
  BY <1>4 DEF books, OneOwnerPerIP, OwnersOf
<1>. QED
  BY <1>2, <1>3, <1>4 DEF Next, vars, SendLeft, AbandonSends, Stop, Tick, Receive, Cancel

\* An address is one device's at most, for any number of devices and addresses.
THEOREM OwnershipIsExclusive == Spec => []OneOwnerPerIP
<1>1. Init => OneOwnerPerIP
  BY DEF Init, OneOwnerPerIP
<1>2. OneOwnerPerIP /\ TypeOK /\ [Next]_vars => OneOwnerPerIP'
  BY OneOwnerStep
<1>. QED
  BY <1>1, <1>2, TypeCorrect, PTL DEF Spec

----------------------------------------------------------------------------
(* The address book *)

\* The owner shown for an address, without the choice.
LEMMA OwnerValue ==
    ASSUME OneOwnerPerIP, NEW i \in IP
    PROVE  /\ \A m \in DOMAIN byMAC : i \in byMAC[m].ips => Owner[i] = m
           /\ OwnersOf(i) = {} => Owner[i] = IF i \in DOMAIN byIP THEN "unidentified" ELSE "nobody"
<1>1. ASSUME NEW m \in DOMAIN byMAC, i \in byMAC[m].ips PROVE Owner[i] = m
  <2>1. OwnersOf(i) = {m}
    BY <1>1 DEF OwnersOf, OneOwnerPerIP
  <2>2. TheOwner({m}) = m
    BY DEF TheOwner
  <2>. QED
    BY <2>1, <2>2 DEF Owner
<1>2. OwnersOf(i) = {} => Owner[i] = IF i \in DOMAIN byIP THEN "unidentified" ELSE "nobody"
  BY DEF Owner
<1>. QED
  BY <1>1, <1>2

LEMMA OwnerFunction == Owner = [i \in IP |-> Owner[i]]
BY DEF Owner

\* The same owners and the same IP-only keys show the same address book.
LEMMA SameAddresses ==
    ASSUME \A i : OwnersOf(i)' = OwnersOf(i), DOMAIN byIP' = DOMAIN byIP
    PROVE  Owner' = Owner
BY DEF Owner

\* An ARP observation is a claim.
LEMMA IdentifiedClaims ==
    ASSUME BooksOK, OneOwnerPerIP, OneOwnerPerIP', NEW u \in Update, Identified(u)
    PROVE  Owner' = Owner \/ Addresses!Claim(u.mac, u.ip)
<1>1. /\ DOMAIN byMAC' = DOMAIN byMAC \cup {u.mac}
      /\ \A n \in DOMAIN byMAC \ {u.mac} : byMAC'[n].ips = byMAC[n].ips \ {u.ip}
      /\ DOMAIN byIP' = DOMAIN byIP \ {u.ip}
  BY IdentifiedEffect
<1>2. byMAC'[u.mac].ips = (IF u.mac \in DOMAIN byMAC THEN byMAC[u.mac].ips ELSE {})
                          \cup ({u.ip} \ {None})
  BY IdentifiedOwners
<1>3. ASSUME NEW i \in IP, i # u.ip PROVE OwnersOf(i)' = OwnersOf(i)
  BY <1>1, <1>2, <1>3 DEF OwnersOf
<1>4. ASSUME NEW i \in IP, i # u.ip PROVE Owner'[i] = Owner[i]
  BY <1>1, <1>3, <1>4 DEF Owner
<1>5. CASE u.ip = None
  <2>1. \A i \in IP : Owner'[i] = Owner[i]
    BY <1>4, <1>5
  <2>. QED
    BY <2>1, OwnerFunction DEF Owner
<1>6. CASE u.ip # None
  <2>1. u.ip \in IP /\ u.ip \in byMAC'[u.mac].ips /\ u.mac \in DOMAIN byMAC'
    BY <1>1, <1>2, <1>6 DEF Update
  <2>2. Owner'[u.ip] = u.mac
    <3>1. OwnersOf(u.ip)' = {u.mac}
      BY <2>1 DEF OwnersOf, OneOwnerPerIP
    <3>2. TheOwner({u.mac}) = u.mac
      BY DEF TheOwner
    <3>. QED
      BY <2>1, <3>1, <3>2 DEF Owner
  <2>3. Owner' = [Owner EXCEPT ![u.ip] = u.mac]
    BY <1>4, <2>1, <2>2 DEF Owner
  <2>. QED
    BY <2>3 DEF Addresses!Claim
<1>. QED
  BY <1>5, <1>6

\* A MAC-less observation sights a free address, or changes no owner.
LEMMA UnidentifiedSights ==
    ASSUME BooksOK, OneOwnerPerIP, NEW u \in Update, u.ip # None, Unidentified(u)
    PROVE  Owner' = Owner \/ Addresses!Sight(u.ip)
<1>1. /\ byMAC' = byMAC /\ DOMAIN byIP' = DOMAIN byIP \cup {u.ip}
      /\ OwnersOf(u.ip) = {} /\ u.ip \in IP
  BY UnidentifiedEffect
<1>2. \A i : OwnersOf(i)' = OwnersOf(i)
  BY <1>1 DEF OwnersOf
<1>3. CASE u.ip \in DOMAIN byIP
  BY <1>1, <1>2, <1>3, SameAddresses
<1>4. CASE u.ip \notin DOMAIN byIP
  <2>1. Owner[u.ip] = "nobody"
    BY <1>1, <1>4, OwnerValue
  <2>2. Owner' = [Owner EXCEPT ![u.ip] = "unidentified"]
    BY <1>1, <1>2 DEF Owner
  <2>. QED
    BY <2>1, <2>2 DEF Addresses!Sight
<1>. QED
  BY <1>3, <1>4

LEMMA AddressBookStep ==
    ASSUME TypeOK, OneOwnerPerIP, OneOwnerPerIP', [Next]_vars
    PROVE  [Addresses!Next]_Owner
<1>1. BooksOK
  BY DEF TypeOK
<1>2. ASSUME NEW o \in Observation, NEW t \in 1..MaxTime, HandleUpdate(o, t)
      PROVE  [Addresses!Next]_Owner
  <2>1. PICK u \in Update :
          \/ Identified(u)
          \/ u.ip # None /\ \E m \in OwnersOf(u.ip) : Attributed(u, m)
          \/ u.ip # None /\ Unidentified(u)
    BY <1>2, HandleUpdateCases
  <2>2. CASE Identified(u)
    <3>1. u.mac \in MAC
      BY <1>1, <2>2, IdentifiedEffect
    <3>2. u.ip \in IP \/ u.ip = None
      BY DEF Update
    <3>3. u.ip = None => Owner' = Owner
      <4>. SUFFICES ASSUME u.ip = None PROVE Owner' = Owner
        OBVIOUS
      <4>1. Owner' = Owner \/ Owner' = [Owner EXCEPT ![u.ip] = u.mac]
        BY <1>1, <2>2, IdentifiedClaims DEF Addresses!Claim
      <4>. QED
        BY <4>1 DEF Owner
    <3>. QED
      BY <1>1, <2>2, <3>1, <3>2, <3>3, IdentifiedClaims DEF Addresses!Next
  <2>3. ASSUME u.ip # None, NEW m \in OwnersOf(u.ip), Attributed(u, m)
        PROVE  Owner' = Owner
    <3>1. /\ \A i : OwnersOf(i)' = OwnersOf(i)
          /\ DOMAIN byIP' = DOMAIN byIP
      BY <1>1, <2>3, AttributedOwners DEF OwnersOf
    <3>. QED
      BY <3>1, SameAddresses
  <2>4. CASE u.ip # None /\ Unidentified(u)
    <3>1. u.ip \in IP
      BY <1>1, <2>4, UnidentifiedEffect
    <3>. QED
      BY <1>1, <2>4, <3>1, UnidentifiedSights DEF Addresses!Next
  <2>. QED
    BY <2>1, <2>2, <2>3, <2>4
<1>3. ASSUME NEW t \in 1..MaxTime, Sweep(t) PROVE Owner' = Owner
  <2>1. \A i : OwnersOf(i)' = OwnersOf(i)
    BY <1>1, <1>3, SweepOwners, SweepEffect, SameOwners
  <2>2. DOMAIN byIP' = DOMAIN byIP
    BY <1>1, <1>3, SweepEffect
  <2>. QED
    BY <2>1, <2>2, SameAddresses
<1>4. CASE UNCHANGED books
  BY <1>4 DEF books, Owner, OwnersOf
<1>. QED
  BY <1>2, <1>3, <1>4 DEF Next, vars, SendLeft, AbandonSends, Stop, Tick, Receive, Cancel

\* The merger implements the address book: only an ARP claim moves an address.
THEOREM ImplementsAddressBook == Spec => AddressBookSpec
<1>1. Init => Addresses!Init
  BY DEF Init, Addresses!Init, Owner, OwnersOf
<1>2. TypeOK /\ OneOwnerPerIP /\ OneOwnerPerIP' /\ [Next]_vars => [Addresses!Next]_Owner
  BY AddressBookStep
<1>. QED
  BY <1>1, <1>2, TypeCorrect, OwnershipIsExclusive, PTL
  DEF Spec, AddressBookSpec, Addresses!Spec

----------------------------------------------------------------------------
(* A status is what the age deserves *)

Honest(d, s) == d.status = Deserved(d.lastSeen, s)

\* While only cached neighbours have arrived, nobody has been seen.
NobodySeenYet ==
    seeding => DOMAIN byIP = {} /\ \A m \in DOMAIN byMAC : byMAC[m].lastSeen = Never

\* The inductive invariant: StatusMatchesAge entry by entry, and what seeds rely on.
HonestInv ==
    /\ TypeOK
    /\ \A m \in DOMAIN byMAC : Honest(byMAC[m], swept)
    /\ \A i \in DOMAIN byIP : Honest(byIP[i], swept)
    /\ NobodySeenYet

LEMMA HonestIsStatusMatchesAge == HonestInv => StatusMatchesAge
BY DEF HonestInv, StatusMatchesAge, Honest, Entry, Devices, TypeOK, BooksOK

\* An observation that is not too late puts its device Online, and rightly so.
LEMMA AfterFresh ==
    ASSUME NEW base \in Device, NEW u \in Update, NEW c \in BOOLEAN, NEW f, Scans(f),
           NEW s \in Nat, u.source # "arp-seed", u.time >= 1, s <= u.time + MaxLag
    PROVE  Honest(After(u, base, c, f), s)
<1>. DEFINE seen == After(u, base, c, f).lastSeen
<1>1. /\ seen = IF u.time > base.lastSeen THEN u.time ELSE base.lastSeen
      /\ After(u, base, c, f).status = "Online"
  BY AfterType
<1>2. base.lastSeen \in Nat /\ u.time \in Nat
  BY DEF Device, Update
<1>3. seen \in Nat /\ seen >= u.time
  BY <1>1, <1>2
<1>. HIDE DEF seen
<1>4. Deserved(seen, s) = "Online"
  BY <1>2, <1>3 DEF Deserved, Never
<1>. QED
  BY <1>1, <1>4 DEF Honest, seen

\* A cached neighbour is Stale, and rightly so: it was never seen.
LEMMA AfterSeed ==
    ASSUME NEW base \in Device, NEW u \in Update, NEW c \in BOOLEAN, NEW f, Scans(f),
           NEW s \in Nat, u.source = "arp-seed",
           base.lastSeen = Never, c \/ base.status = "Stale"
    PROVE  /\ Honest(After(u, base, c, f), s)
           /\ After(u, base, c, f).lastSeen = Never
<1>1. /\ After(u, base, c, f).lastSeen = Never
      /\ After(u, base, c, f).status = "Stale"
  BY AfterType
<1>. QED
  BY <1>1 DEF Honest, Deserved

\* Ageing to a later instant keeps a status what the age deserves.
LEMMA AgedHonest ==
    ASSUME NEW d \in Device, NEW s \in Nat, NEW t \in Nat, s <= t, Honest(d, s)
    PROVE  Honest(Aged(d, t), t)
<1>1. /\ Aged(d, t).lastSeen = d.lastSeen /\ d.lastSeen \in Nat
      /\ Aged(d, t).status = IF LeftBy(d, t) THEN "Offline"
                             ELSE IF StaleBy(d, t) /\ d.status = "Online" THEN "Stale"
                             ELSE d.status
  BY AgedType DEF Device
<1>2. d.status = Deserved(d.lastSeen, s)
  BY DEF Honest
<1>. QED
  BY <1>1, <1>2 DEF Honest, Deserved, LeftBy, StaleBy, Never

LEMMA HandleUpdateHonest ==
    ASSUME HonestInv, NEW o \in Observation, NEW t \in 1..MaxTime, HandleUpdate(o, t)
    PROVE  /\ \A m \in DOMAIN byMAC' : Honest(byMAC'[m], swept)
           /\ \A i \in DOMAIN byIP' : Honest(byIP'[i], swept)
           /\ NobodySeenYet'
<1>1. PICK u \in Update :
        /\ u = Stamped(o, t)
        /\ \/ Identified(u)
           \/ u.ip # None /\ \E m \in OwnersOf(u.ip) : Attributed(u, m)
           \/ u.ip # None /\ Unidentified(u)
  BY HandleUpdateCases
<1>2. BooksOK /\ swept \in Nat /\ now \in Nat /\ swept <= now
  BY DEF HonestInv, TypeOK
<1>3. u.source = o.source /\ u.time = t /\ u.mac = o.mac
  BY <1>1 DEF Stamped
<1>4. seeding' = (seeding /\ u.source = "arp-seed")
  BY <1>3 DEF HandleUpdate
<1>5. u.source # "arp-seed" => u.time >= 1 /\ swept <= u.time + MaxLag
  BY <1>2, <1>3 DEF HandleUpdate, Recent
<1>6. u.source = "arp-seed" =>
        /\ u.mac # None
        /\ DOMAIN byIP = {} /\ \A m \in DOMAIN byMAC : byMAC[m].lastSeen = Never
  BY <1>3 DEF HandleUpdate, HonestInv, NobodySeenYet
<1>7. CASE Identified(u)
  <2>. DEFINE f == Scanned(Kept(u), u)
              c == Created(u)
  <2>1. /\ Base(u) \in Device /\ Scans(f) /\ c \in BOOLEAN
        /\ DOMAIN byMAC' = DOMAIN byMAC \cup {u.mac}
        /\ byMAC'[u.mac] = After(u, Base(u), c, f)
        /\ \A n \in DOMAIN byMAC \ {u.mac} : byMAC'[n].status = byMAC[n].status
                                            /\ byMAC'[n].lastSeen = byMAC[n].lastSeen
        /\ DOMAIN byIP' = DOMAIN byIP \ {u.ip}
        /\ \A i \in DOMAIN byIP' : byIP'[i] = byIP[i]
    BY <1>2, <1>7, IdentifiedEffect DEF Created
  <2>2. CASE u.source = "arp-seed"
    <3>1. Base(u).lastSeen = Never /\ (c \/ Base(u).status = "Stale")
      <4>1. CASE u.mac \in DOMAIN byMAC
        <5>1. byMAC[u.mac].lastSeen = Never /\ byMAC[u.mac].status = "Stale"
          BY <1>6, <2>2, <4>1 DEF HonestInv, Honest, Deserved
        <5>. QED
          BY <1>6, <2>2, <4>1, <5>1 DEF Base, Found
      <4>2. CASE u.mac \notin DOMAIN byMAC
        BY <1>6, <2>2, <4>2 DEF Base, Found, Created, NewDevice
      <4>. QED
        BY <4>1, <4>2
    <3>. HIDE DEF f, c
    <3>2. Honest(byMAC'[u.mac], swept) /\ byMAC'[u.mac].lastSeen = Never
      BY <1>2, <2>1, <2>2, <3>1, AfterSeed
    <3>. QED
      BY <1>6, <2>1, <2>2, <3>2 DEF HonestInv, Honest, NobodySeenYet
  <2>3. CASE u.source # "arp-seed"
    <3>. HIDE DEF f, c
    <3>1. Honest(byMAC'[u.mac], swept)
      BY <1>2, <1>5, <2>1, <2>3, AfterFresh
    <3>. QED
      BY <1>4, <2>1, <2>3, <3>1 DEF HonestInv, Honest, NobodySeenYet
  <2>. QED
    BY <2>2, <2>3
<1>8. ASSUME u.ip # None, NEW m \in OwnersOf(u.ip), Attributed(u, m), ~Identified(u)
      PROVE  /\ \A n \in DOMAIN byMAC' : Honest(byMAC'[n], swept)
             /\ \A i \in DOMAIN byIP' : Honest(byIP'[i], swept)
             /\ NobodySeenYet'
  <2>. DEFINE f == Scanned(portsByIP, u)
              c == FALSE
  <2>1. /\ byMAC[m] \in Device /\ Scans(f) /\ c \in BOOLEAN
        /\ DOMAIN byMAC' = DOMAIN byMAC
        /\ byMAC'[m] = After(u, byMAC[m], c, f)
        /\ \A n \in DOMAIN byMAC \ {m} : byMAC'[n] = byMAC[n]
        /\ byIP' = byIP
    BY <1>2, <1>8, AttributedEffect
  <2>. HIDE DEF f, c
  <2>2. u.mac = None
    BY <1>1, <1>3, <1>8 DEF HandleUpdate
  <2>3. u.source # "arp-seed"
    BY <1>6, <2>2
  <2>4. Honest(byMAC'[m], swept)
    BY <1>2, <1>5, <2>1, <2>3, AfterFresh
  <2>. QED
    BY <1>4, <2>1, <2>3, <2>4 DEF HonestInv, NobodySeenYet
<1>9. CASE u.ip # None /\ Unidentified(u) /\ ~Identified(u)
  <2>. DEFINE f == Scanned(portsByIP, u)
              c == u.ip \notin DOMAIN byIP
  <2>1. /\ AnonBase(u) \in Device /\ Scans(f) /\ c \in BOOLEAN
        /\ DOMAIN byIP' = DOMAIN byIP \cup {u.ip}
        /\ byIP'[u.ip] = After(u, AnonBase(u), c, f)
        /\ \A i \in DOMAIN byIP \ {u.ip} : byIP'[i] = byIP[i]
        /\ byMAC' = byMAC
    BY <1>2, <1>9, UnidentifiedEffect
  <2>. HIDE DEF f, c
  <2>2. u.mac = None
    BY <1>1, <1>3, <1>9 DEF HandleUpdate
  <2>3. u.source # "arp-seed"
    BY <1>6, <2>2
  <2>4. Honest(byIP'[u.ip], swept)
    BY <1>2, <1>5, <2>1, <2>3, AfterFresh
  <2>. QED
    BY <1>4, <2>1, <2>3, <2>4 DEF HonestInv, NobodySeenYet
<1>. QED
  BY <1>1, <1>7, <1>8, <1>9

\* Every step keeps every status honest.
LEMMA HonestStep == HonestInv /\ [Next]_vars => HonestInv'
<1>. SUFFICES ASSUME HonestInv, [Next]_vars PROVE HonestInv'
  OBVIOUS
<1>1. TypeOK /\ TypeOK' /\ BooksOK
  BY TypeOKStep DEF HonestInv, TypeOK
<1>2. ASSUME NEW o \in Observation, NEW t \in 1..MaxTime, HandleUpdate(o, t)
      PROVE  HonestInv'
  <2>1. swept' = swept
    BY <1>2 DEF HandleUpdate
  <2>. QED
    BY <1>1, <1>2, <2>1, HandleUpdateHonest DEF HonestInv
<1>3. ASSUME NEW t \in 1..MaxTime, Sweep(t) PROVE HonestInv'
  <2>1. /\ swept' = t /\ swept <= t /\ swept \in Nat /\ t \in Nat /\ seeding' = seeding
    BY <1>1, <1>3 DEF Sweep, TypeOK
  <2>2. /\ \A m \in DOMAIN byMAC : byMAC[m] \in Device
        /\ \A i \in DOMAIN byIP : byIP[i] \in Device
    BY <1>1 DEF BooksOK
  <2>3. /\ \A m \in DOMAIN byMAC' : Honest(byMAC'[m], t)
        /\ \A i \in DOMAIN byIP' : Honest(byIP'[i], t)
    BY <1>1, <1>3, <2>1, <2>2, SweepEffect, AgedHonest DEF HonestInv
  <2>4. NobodySeenYet'
    <3>1. /\ DOMAIN byMAC' = DOMAIN byMAC /\ DOMAIN byIP' = DOMAIN byIP
          /\ \A m \in DOMAIN byMAC : byMAC'[m] = Aged(byMAC[m], t)
      BY <1>1, <1>3, <2>1, SweepEffect
    <3>2. \A m \in DOMAIN byMAC : byMAC'[m].lastSeen = byMAC[m].lastSeen
      BY <2>1, <2>2, <3>1, AgedType
    <3>. QED
      BY <2>1, <3>1, <3>2 DEF HonestInv, NobodySeenYet
  <2>. QED
    BY <1>1, <2>1, <2>3, <2>4 DEF HonestInv
<1>4. CASE UNCHANGED <<books, swept, seeding>>
  BY <1>1, <1>4 DEF books, HonestInv, NobodySeenYet
<1>. QED
  BY <1>2, <1>3, <1>4
  DEF Next, vars, SendLeft, AbandonSends, Stop, Tick, Receive, Cancel

\* The inductive invariant holds in every reachable state.
LEMMA AlwaysHonest == Spec => []HonestInv
<1>1. Init => HonestInv
  <2>1. Init => TypeOK
    BY TypeOKInit
  <2>. QED
    BY <2>1 DEF Init, HonestInv, NobodySeenYet
<1>2. HonestInv /\ [Next]_vars => HonestInv'
  BY HonestStep
<1>. QED
  BY <1>1, <1>2, PTL DEF Spec

\* Folds, late observations and sweeps leave every status what the age deserves,
\* provided nothing is handled later than StaleAfter (TimingAssumption).
THEOREM StatusIsHonest == Spec => []StatusMatchesAge
<1>1. HonestInv => StatusMatchesAge
  BY HonestIsStatusMatchesAge
<1>. QED
  BY <1>1, AlwaysHonest, PTL

----------------------------------------------------------------------------
(* The census *)

IsPresent(d) == d.lastSeen # Never /\ d.status # "Offline"
PresentIn(f) == {k \in DOMAIN f : IsPresent(f[k])}

LEMMA PresentKeys ==
    ASSUME BooksOK, BooksOK'
    PROVE  /\ Present = PresentIn(byMAC) \cup PresentIn(byIP)
           /\ Present' = PresentIn(byMAC') \cup PresentIn(byIP')
<1>1. DOMAIN byMAC \cap DOMAIN byIP = {} /\ DOMAIN byMAC' \cap DOMAIN byIP' = {}
  BY DEF BooksOK
<1>2. Present = PresentIn(byMAC) \cup PresentIn(byIP)
  BY <1>1 DEF Present, Devices, Entry, PresentIn, IsPresent
<1>3. Present' = PresentIn(byMAC') \cup PresentIn(byIP')
  BY <1>1 DEF Present, Devices, Entry, PresentIn, IsPresent
<1>. QED
  BY <1>2, <1>3

\* An honest device is present when it was seen and LeftAfter is not over.
LEMMA HonestPresence ==
    ASSUME NEW d \in Device, NEW s \in Nat, Honest(d, s)
    PROVE  IsPresent(d) <=> d.lastSeen # Never /\ d.lastSeen + LeftAfter >= s
<1>1. d.lastSeen \in Nat
  BY DEF Device
<1>2. d.status = Deserved(d.lastSeen, s)
  BY DEF Honest
<1>3. CASE d.lastSeen = Never
  BY <1>3 DEF IsPresent
<1>4. CASE d.lastSeen # Never
  <2>1. Deserved(d.lastSeen, s) = "Offline" <=> d.lastSeen + LeftAfter < s
    BY <1>1, <1>4 DEF Deserved
  <2>. QED
    BY <1>1, <1>2, <1>4, <2>1 DEF IsPresent
<1>. QED
  BY <1>3, <1>4

\* What two entries for one host were folded into is present if one of them was.
LEMMA FoldPresence ==
    ASSUME NEW d \in Device, NEW e \in Device, NEW s \in Nat,
           Honest(e, s), Honest(d, s) \/ d.lastSeen = Never
    PROVE  IsPresent(Fold(d, e)) <=> IsPresent(d) \/ IsPresent(e)
<1>1. /\ Fold(d, e) \in Device
      /\ Fold(d, e).lastSeen = IF e.lastSeen > d.lastSeen THEN e.lastSeen ELSE d.lastSeen
      /\ Fold(d, e).status = IF e.lastSeen > d.lastSeen THEN e.status ELSE d.status
  BY FoldType
<1>2. d.lastSeen \in Nat /\ e.lastSeen \in Nat
  BY DEF Device
<1>3. CASE d.lastSeen = Never
  BY <1>1, <1>2, <1>3 DEF IsPresent, Never
<1>4. CASE d.lastSeen # Never
  <2>1. Honest(d, s)
    BY <1>4
  <2>2. /\ IsPresent(d) <=> d.lastSeen + LeftAfter >= s
        /\ IsPresent(e) <=> e.lastSeen # Never /\ e.lastSeen + LeftAfter >= s
    BY <1>4, <2>1, HonestPresence
  <2>3. CASE e.lastSeen > d.lastSeen
    <3>1. IsPresent(Fold(d, e)) <=> IsPresent(e)
      BY <1>1, <2>3 DEF IsPresent
    <3>. QED
      BY <1>2, <2>2, <2>3, <3>1 DEF Never
  <2>4. CASE ~(e.lastSeen > d.lastSeen)
    <3>1. IsPresent(Fold(d, e)) <=> IsPresent(d)
      BY <1>1, <2>4 DEF IsPresent
    <3>. QED
      BY <1>2, <2>2, <2>4, <3>1 DEF Never
  <2>. QED
    BY <2>3, <2>4
<1>. QED
  BY <1>3, <1>4

\* Whoever is heard from is present.
LEMMA AfterPresent ==
    ASSUME NEW base \in Device, NEW u \in Update, NEW c \in BOOLEAN, NEW f, Scans(f),
           u.source # "arp-seed", u.time >= 1
    PROVE  IsPresent(After(u, base, c, f))
<1>1. /\ After(u, base, c, f).status = "Online"
      /\ After(u, base, c, f).lastSeen =
            IF u.time > base.lastSeen THEN u.time ELSE base.lastSeen
  BY AfterType
<1>2. u.time \in Nat /\ base.lastSeen \in Nat
  BY DEF Update, Device
<1>3. After(u, base, c, f).lastSeen # Never
  BY <1>1, <1>2 DEF Never
<1>. QED
  BY <1>1, <1>3 DEF IsPresent

\* The announcement of an update is the census's report.
LEMMA AnnounceReports ==
    ASSUME out \in Seq(Event), NEW u, NEW k, NEW merged, NEW dev, NEW created,
           u.source # "arp-seed", Announce(u, k, dev, created),
           pending = {}, UNCHANGED <<pending, cancelled>>,
           Present' = (Present \ merged) \cup {k},
           (created \/ ~IsPresent(dev)) <=> (merged \cup {k}) \cap Present = {}
    PROVE  Announcements!Report(k, merged)
<1>. DEFINE arrival == (merged \cup {k}) \cap Present = {}
            event == [type |-> IF arrival THEN "Joined" ELSE "Updated", key |-> k]
<1>1. EventType(dev, created) = IF arrival THEN "Joined" ELSE "Updated"
  BY DEF EventType, IsPresent
<1>2. Len(out) \in Nat
  OBVIOUS
<1>3. out' = IF Len(out) < Capacity THEN Append(out, event) ELSE out
  BY <1>1, <1>2 DEF Announce
<1>. QED
  BY <1>3 DEF Announcements!Report

\* An ARP packet reports its MAC, with the identity it had by its address alone.
LEMMA IdentifiedReports ==
    ASSUME HonestInv, BooksOK', NEW u \in Update, Identified(u),
           u.source # "arp-seed", u.time >= 1,
           pending = {}, UNCHANGED <<pending, cancelled>>
    PROVE  \E merged \in Announcements!Identities(u.mac) : Announcements!Report(u.mac, merged)
<1>. DEFINE f == Scanned(Kept(u), u)
            c == Created(u)
            merged == IF u.ip \in DOMAIN byIP THEN {u.ip} ELSE {}
<1>1. BooksOK /\ out \in Seq(Event) /\ swept \in Nat /\ u.time \in Nat
  BY DEF HonestInv, TypeOK, Update
<1>2. /\ u.mac \in MAC /\ Base(u) \in Device /\ Scans(f) /\ c \in BOOLEAN
      /\ DOMAIN byMAC' = DOMAIN byMAC \cup {u.mac}
      /\ byMAC'[u.mac] = After(u, Base(u), c, f)
      /\ \A n \in DOMAIN byMAC \ {u.mac} : /\ byMAC'[n].status = byMAC[n].status
                                          /\ byMAC'[n].lastSeen = byMAC[n].lastSeen
      /\ DOMAIN byIP' = DOMAIN byIP \ {u.ip}
      /\ \A i \in DOMAIN byIP' : byIP'[i] = byIP[i]
  BY <1>1, IdentifiedEffect DEF Created
<1>3. u.mac \notin IP /\ DOMAIN byIP \subseteq IP /\ DOMAIN byMAC \subseteq MAC
  BY <1>1, <1>2 DEF BooksOK
<1>4. merged \in Announcements!Identities(u.mac)
  BY <1>2, <1>3 DEF Announcements!Identities
<1>5. /\ Present = PresentIn(byMAC) \cup PresentIn(byIP)
      /\ Present' = PresentIn(byMAC') \cup PresentIn(byIP')
  BY <1>1, PresentKeys
<1>6. Present' = (Present \ merged) \cup {u.mac}
  <2>1. IsPresent(byMAC'[u.mac])
    <3>. HIDE DEF f, c
    <3>. QED
      BY <1>2, AfterPresent
  <2>2. PresentIn(byMAC') = PresentIn(byMAC) \cup {u.mac}
    BY <1>2, <2>1 DEF PresentIn, IsPresent
  <2>3. PresentIn(byIP') = PresentIn(byIP) \ {u.ip}
    BY <1>2 DEF PresentIn
  <2>4. PresentIn(byMAC) \subseteq MAC /\ merged \subseteq IP
    BY <1>3 DEF PresentIn
  <2>5. PresentIn(byIP) \ {u.ip} = PresentIn(byIP) \ merged
    BY DEF PresentIn
  <2>. HIDE DEF merged
  <2>. QED
    BY <1>2, <1>5, <2>2, <2>3, <2>4, <2>5
<1>7. (c \/ ~IsPresent(Base(u))) <=> (merged \cup {u.mac}) \cap Present = {}
  <2>1. /\ u.mac \in Present <=> u.mac \in DOMAIN byMAC /\ IsPresent(byMAC[u.mac])
        /\ \A i \in IP : i \in Present <=> i \in DOMAIN byIP /\ IsPresent(byIP[i])
    BY <1>2, <1>3, <1>5 DEF PresentIn
  <2>2. u.mac \notin DOMAIN byMAC => Found(u).lastSeen = Never
    BY DEF Found, NewDevice
  <2>3. u.mac \in DOMAIN byMAC => Found(u) = byMAC[u.mac] /\ Honest(Found(u), swept)
    BY DEF Found, HonestInv
  <2>4. Found(u) \in Device
    BY <1>1, NewDeviceType DEF Found, BooksOK
  <2>5. IsPresent(Found(u)) <=> u.mac \in Present
    BY <2>1, <2>2, <2>3 DEF IsPresent
  <2>6. CASE u.ip \in DOMAIN byIP
    <3>1. byIP[u.ip] \in Device /\ Honest(byIP[u.ip], swept)
      BY <1>1, <2>6 DEF BooksOK, HonestInv
    <3>2. IsPresent(Base(u)) <=> IsPresent(Found(u)) \/ IsPresent(byIP[u.ip])
      BY <1>1, <2>2, <2>3, <2>4, <2>6, <3>1, FoldPresence DEF Base
    <3>3. IsPresent(Base(u)) <=> u.mac \in Present \/ u.ip \in Present
      BY <1>3, <2>1, <2>5, <2>6, <3>2
    <3>. QED
      BY <2>6, <3>3 DEF Created
  <2>7. CASE u.ip \notin DOMAIN byIP
    <3>1. Base(u) = Found(u)
      BY <2>7 DEF Base
    <3>2. c => u.mac \notin Present
      BY <2>1 DEF Created
    <3>. HIDE DEF c
    <3>. QED
      BY <2>5, <2>7, <3>1, <3>2
  <2>. QED
    BY <2>6, <2>7
<1>8. Announce(u, u.mac, Base(u), c)
  BY DEF Identified, Base, Found, Created
<1>. HIDE DEF c, merged
<1>9. Announcements!Report(u.mac, merged)
  BY <1>1, <1>6, <1>7, <1>8, AnnounceReports
<1>. QED
  BY <1>4, <1>9

LEMMA AttributedReports ==
    ASSUME HonestInv, BooksOK', NEW u \in Update, u.ip # None, NEW m \in OwnersOf(u.ip),
           Attributed(u, m), u.source # "arp-seed", u.time >= 1,
           pending = {}, UNCHANGED <<pending, cancelled>>
    PROVE  m \in MAC /\ Announcements!Report(m, {})
<1>. DEFINE f == Scanned(portsByIP, u)
            c == FALSE
<1>1. BooksOK /\ out \in Seq(Event)
  BY DEF HonestInv, TypeOK
<1>2. /\ m \in DOMAIN byMAC /\ byMAC[m] \in Device /\ Scans(f) /\ c \in BOOLEAN
      /\ DOMAIN byMAC' = DOMAIN byMAC
      /\ byMAC'[m] = After(u, byMAC[m], c, f)
      /\ \A n \in DOMAIN byMAC \ {m} : byMAC'[n] = byMAC[n]
      /\ byIP' = byIP
  BY <1>1, AttributedEffect
<1>3. m \in MAC /\ m \notin DOMAIN byIP
  BY <1>1, <1>2 DEF BooksOK
<1>4. /\ Present = PresentIn(byMAC) \cup PresentIn(byIP)
      /\ Present' = PresentIn(byMAC') \cup PresentIn(byIP')
  BY <1>1, PresentKeys
<1>5. Present' = (Present \ {}) \cup {m}
  <2>1. IsPresent(byMAC'[m])
    <3>. HIDE DEF f, c
    <3>. QED
      BY <1>2, AfterPresent
  <2>2. PresentIn(byMAC') = PresentIn(byMAC) \cup {m}
    BY <1>2, <2>1 DEF PresentIn
  <2>. QED
    BY <1>2, <1>4, <2>2
<1>6. IsPresent(byMAC[m]) <=> m \in Present
  BY <1>2, <1>3, <1>4 DEF PresentIn
<1>7. Announce(u, m, byMAC[m], FALSE)
  BY DEF Attributed
<1>8. (c \/ ~IsPresent(byMAC[m])) <=> ({} \cup {m}) \cap Present = {}
  BY <1>6
<1>9. Announce(u, m, byMAC[m], c)
  BY <1>7
<1>. HIDE DEF c
<1>. QED
  BY <1>1, <1>3, <1>5, <1>8, <1>9, AnnounceReports

LEMMA UnidentifiedReports ==
    ASSUME HonestInv, BooksOK', NEW u \in Update, u.ip # None,
           Unidentified(u), u.source # "arp-seed", u.time >= 1,
           pending = {}, UNCHANGED <<pending, cancelled>>
    PROVE  u.ip \in IP /\ Announcements!Report(u.ip, {})
<1>. DEFINE f == Scanned(portsByIP, u)
            c == u.ip \notin DOMAIN byIP
<1>1. BooksOK /\ out \in Seq(Event)
  BY DEF HonestInv, TypeOK
<1>2. /\ u.ip \in IP /\ AnonBase(u) \in Device /\ Scans(f) /\ c \in BOOLEAN
      /\ DOMAIN byIP' = DOMAIN byIP \cup {u.ip}
      /\ byIP'[u.ip] = After(u, AnonBase(u), c, f)
      /\ \A i \in DOMAIN byIP \ {u.ip} : byIP'[i] = byIP[i]
      /\ byMAC' = byMAC
  BY <1>1, UnidentifiedEffect
<1>3. u.ip \notin DOMAIN byMAC
  BY <1>1, <1>2 DEF BooksOK
<1>4. /\ Present = PresentIn(byMAC) \cup PresentIn(byIP)
      /\ Present' = PresentIn(byMAC') \cup PresentIn(byIP')
  BY <1>1, PresentKeys
<1>5. Present' = (Present \ {}) \cup {u.ip}
  <2>1. IsPresent(byIP'[u.ip])
    <3>. HIDE DEF f, c
    <3>. QED
      BY <1>2, AfterPresent
  <2>2. PresentIn(byIP') = PresentIn(byIP) \cup {u.ip}
    BY <1>2, <2>1 DEF PresentIn
  <2>. QED
    BY <1>2, <1>4, <2>2
<1>6. (c \/ ~IsPresent(AnonBase(u))) <=> ({} \cup {u.ip}) \cap Present = {}
  <2>1. u.ip \in Present <=> u.ip \in DOMAIN byIP /\ IsPresent(byIP[u.ip])
    BY <1>3, <1>4 DEF PresentIn
  <2>. QED
    BY <2>1 DEF AnonBase
<1>7. Announce(u, u.ip, AnonBase(u), c)
  BY DEF Unidentified, AnonBase
<1>. HIDE DEF c
<1>. QED
  BY <1>1, <1>2, <1>5, <1>6, <1>7, AnnounceReports

\* While only cached neighbours have arrived nobody is present.
LEMMA NobodyPresent ==
    ASSUME BooksOK, BooksOK'
    PROVE  /\ seeding /\ NobodySeenYet => Present = {}
           /\ seeding' /\ NobodySeenYet' => Present' = {}
<1>1. /\ Present = PresentIn(byMAC) \cup PresentIn(byIP)
      /\ Present' = PresentIn(byMAC') \cup PresentIn(byIP')
  BY PresentKeys
<1>2. seeding /\ NobodySeenYet => Present = {}
  BY <1>1 DEF NobodySeenYet, PresentIn, IsPresent
<1>3. seeding' /\ NobodySeenYet' => Present' = {}
  BY <1>1 DEF NobodySeenYet, PresentIn, IsPresent
<1>. QED
  BY <1>2, <1>3

\* A sweep is a departure of those it makes Offline.
LEMMA SweepDeparts ==
    ASSUME HonestInv, BooksOK', NEW t \in Nat, Sweep(t)
    PROVE  /\ pending' \subseteq Present /\ Present' = Present \ pending'
           /\ pending = {} /\ out' = out /\ cancelled' = cancelled
<1>1. BooksOK
  BY DEF HonestInv, TypeOK
<1>2. /\ DOMAIN byMAC' = DOMAIN byMAC /\ DOMAIN byIP' = DOMAIN byIP
      /\ \A m \in DOMAIN byMAC : byMAC'[m] = Aged(byMAC[m], t)
      /\ \A i \in DOMAIN byIP : byIP'[i] = Aged(byIP[i], t)
  BY <1>1, SweepEffect
<1>3. /\ \A m \in DOMAIN byMAC : byMAC[m] \in Device
      /\ \A i \in DOMAIN byIP : byIP[i] \in Device
      /\ DOMAIN byMAC \cap DOMAIN byIP = {}
  BY <1>1 DEF BooksOK
<1>4. ASSUME NEW d \in Device
      PROVE  /\ IsPresent(Aged(d, t)) <=> IsPresent(d) /\ ~LeftBy(d, t)
             /\ LeftBy(d, t) /\ d.status # "Offline" => IsPresent(d)
  BY AgedType DEF IsPresent, LeftBy
<1>5. /\ Present = PresentIn(byMAC) \cup PresentIn(byIP)
      /\ Present' = PresentIn(byMAC') \cup PresentIn(byIP')
  BY <1>1, PresentKeys
<1>6. pending' = Departing(byMAC, t) \cup Departing(byIP, t)
  BY DEF Sweep
<1>7. /\ Departing(byMAC, t) \subseteq PresentIn(byMAC)
      /\ PresentIn(byMAC') = PresentIn(byMAC) \ Departing(byMAC, t)
  BY <1>2, <1>3, <1>4 DEF Departing, PresentIn, IsPresent
<1>8. /\ Departing(byIP, t) \subseteq PresentIn(byIP)
      /\ PresentIn(byIP') = PresentIn(byIP) \ Departing(byIP, t)
  BY <1>2, <1>3, <1>4 DEF Departing, PresentIn, IsPresent
<1>9. PresentIn(byMAC) \cap PresentIn(byIP) = {}
  BY <1>3 DEF PresentIn
<1>10. pending' \subseteq Present /\ Present' = Present \ pending'
  BY <1>5, <1>6, <1>7, <1>8, <1>9
<1>. QED
  BY <1>10 DEF Sweep, channel

LEMMA CensusStep ==
    ASSUME HonestInv, HonestInv', [Next]_vars
    PROVE  [Announcements!Next]_(Announcements!vars)
<1>1. BooksOK /\ BooksOK' /\ pending \subseteq Key /\ Len(out) \in Nat
  BY DEF HonestInv, TypeOK
<1>2. ASSUME NEW o \in Observation, NEW t \in 1..MaxTime, HandleUpdate(o, t)
      PROVE  [Announcements!Next]_(Announcements!vars)
  <2>1. PICK u \in Update :
          /\ u = Stamped(o, t)
          /\ \/ Identified(u)
             \/ u.ip # None /\ \E m \in OwnersOf(u.ip) : Attributed(u, m)
             \/ u.ip # None /\ Unidentified(u)
    BY <1>2, HandleUpdateCases
  <2>2. /\ u.source = o.source /\ u.mac = o.mac /\ u.time = t
        /\ pending = {} /\ UNCHANGED <<pending, cancelled>>
    BY <1>2, <2>1 DEF Stamped, HandleUpdate
  <2>3. CASE u.source = "arp-seed"
    <3>1. seeding /\ seeding' /\ u.mac # None
      BY <1>2, <2>2, <2>3 DEF HandleUpdate
    <3>2. Present = {} /\ Present' = {}
      BY <1>1, <3>1, NobodyPresent DEF HonestInv
    <3>3. Identified(u)
      BY <1>2, <2>1, <2>2, <3>1 DEF HandleUpdate
    <3>4. out' = out
      BY <2>3, <3>3 DEF Identified, Announce
    <3>. QED
      BY <2>2, <3>2, <3>4 DEF Announcements!vars
  <2>4. CASE u.source # "arp-seed"
    <3>1. u.time >= 1
      BY <2>2
    <3>2. CASE Identified(u)
      <4>1. u.mac \in MAC
        BY <1>1, <3>2, IdentifiedEffect
      <4>. QED
        BY <1>1, <2>2, <2>4, <3>1, <3>2, <4>1, IdentifiedReports DEF Announcements!Next
    <3>3. ASSUME u.ip # None, NEW m \in OwnersOf(u.ip), Attributed(u, m)
          PROVE  Announcements!Next
      <4>1. m \in MAC /\ Announcements!Report(m, {})
        BY <1>1, <2>2, <2>4, <3>1, <3>3, AttributedReports
      <4>2. {} \in Announcements!Identities(m)
        BY DEF Announcements!Identities
      <4>. QED
        BY <4>1, <4>2 DEF Announcements!Next
    <3>4. CASE u.ip # None /\ Unidentified(u)
      <4>1. u.ip \in IP /\ Announcements!Report(u.ip, {})
        BY <1>1, <2>2, <2>4, <3>1, <3>4, UnidentifiedReports
      <4>2. {} \in Announcements!Identities(u.ip)
        BY DEF Announcements!Identities
      <4>. QED
        BY <4>1, <4>2 DEF Announcements!Next
    <3>. QED
      BY <2>1, <3>2, <3>3, <3>4
  <2>. QED
    BY <2>3, <2>4
<1>3. ASSUME NEW t \in 1..MaxTime, Sweep(t)
      PROVE  [Announcements!Next]_(Announcements!vars)
  <2>1. /\ pending' \subseteq Present /\ Present' = Present \ pending'
        /\ pending = {} /\ out' = out /\ cancelled' = cancelled
    BY <1>1, <1>3, SweepDeparts
  <2>2. CASE pending' = {}
    BY <2>1, <2>2 DEF Announcements!vars
  <2>3. CASE pending' # {}
    <3>1. Announcements!Depart(pending')
      BY <2>1, <2>3 DEF Announcements!Depart
    <3>. QED
      BY <2>1, <3>1 DEF Announcements!Next
  <2>. QED
    BY <2>2, <2>3
<1>4. ASSUME UNCHANGED books PROVE Present' = Present
  <2>1. byMAC' = byMAC /\ byIP' = byIP
    BY <1>4 DEF books
  <2>. QED
    BY <1>1, <2>1, PresentKeys
<1>5. ASSUME NEW k \in Key, SendLeft(k) PROVE Announcements!Deliver(k)
  <2>1. k \in pending
    BY <1>5 DEF SendLeft, NextToLeave
  <2>. QED
    BY <1>4, <1>5, <2>1 DEF SendLeft, Announcements!Deliver
<1>6. CASE AbandonSends
  <2>1. Announcements!GiveUp
    BY <1>4, <1>6 DEF AbandonSends, channel, Announcements!GiveUp
  <2>. QED
    BY <2>1 DEF Announcements!Next
<1>7. CASE Receive
  <2>1. Announcements!Take
    BY <1>4, <1>7 DEF Receive, Announcements!Take
  <2>. QED
    BY <2>1 DEF Announcements!Next
<1>8. CASE Cancel
  <2>1. Announcements!Close
    BY <1>4, <1>8 DEF Cancel, channel, Announcements!Close
  <2>. QED
    BY <2>1 DEF Announcements!Next
<1>9. CASE Stop \/ Tick \/ UNCHANGED vars
  <2>1. UNCHANGED <<books, pending, out, cancelled>>
    BY <1>9 DEF Stop, Tick, vars, channel
  <2>. QED
    BY <1>4, <2>1 DEF Announcements!vars
<1>. QED
  BY <1>2, <1>3, <1>5, <1>6, <1>7, <1>8, <1>9 DEF Next, Key, Announcements!Next

\* The merger implements the census: Joined and Left alternate for an identity, through
\* folds, sweeps and late observations, seeds are silent, and a Left is sent once.
THEOREM ImplementsCensus == Spec => CensusSpec
<1>1. Init => Announcements!Init
  BY DEF Init, Announcements!Init, Present, Devices
<1>2. HonestInv /\ HonestInv' /\ [Next]_vars => [Announcements!Next]_(Announcements!vars)
  BY CensusStep
<1>. QED
  BY <1>1, <1>2, AlwaysHonest, PTL DEF Spec, CensusSpec, Announcements!Spec

----------------------------------------------------------------------------
(* Left is the last word on a device that went away *)

About(k) == {n \in DOMAIN out : out[n].key = k}

LeftIsLast(k) ==
    \/ cancelled
    \/ k \in pending
    \/ About(k) = {} /\ k \in gone
    \/ \E n \in About(k) : out[n].type = "Left" /\ \A j \in About(k) : j <= n

OfflineIn(f) == {k \in DOMAIN f : f[k].status = "Offline"}
Offline == OfflineIn(byMAC) \cup OfflineIn(byIP)

LEMMA OfflineIsDeparted ==
    ASSUME BooksOK, \A k \in Offline : LeftIsLast(k)
    PROVE  DeparturesNotLost
<1>1. DOMAIN byMAC \cap DOMAIN byIP = {}
  BY DEF BooksOK
<1>2. ASSUME NEW k \in Devices, Entry(k).status = "Offline" PROVE k \in Offline
  BY <1>1, <1>2 DEF Devices, Entry, Offline, OfflineIn
<1>. QED
  BY <1>2 DEF DeparturesNotLost, LeftIsLast, About

\* What is said of others does not matter.
LEMMA OthersDoNotMatter ==
    ASSUME out \in Seq(Event), NEW k, NEW e \in Event, e.key # k, out' = Append(out, e),
           LeftIsLast(k), k \in pending => k \in pending',
           UNCHANGED <<gone, cancelled>>
    PROVE  LeftIsLast(k)'
<1>1. /\ Len(out) \in Nat /\ DOMAIN out = 1..Len(out) /\ DOMAIN out' = 1..(Len(out) + 1)
      /\ \A n \in DOMAIN out : out'[n] = out[n]
      /\ out'[Len(out) + 1] = e
  OBVIOUS
<1>2. About(k)' = About(k)
  BY <1>1 DEF About
<1>3. \A n \in About(k) : out'[n] = out[n]
  BY <1>1 DEF About
<1>. QED
  BY <1>2, <1>3 DEF LeftIsLast

\* The consumer's next event leaves, if it is the last on k, k as its word has it.
LEMMA ReceiveKeepsLast ==
    ASSUME out \in Seq(Event), NEW k, LeftIsLast(k), Receive
    PROVE  LeftIsLast(k)'
<1>. DEFINE h == Head(out)
<1>1. /\ out # <<>> /\ out' = Tail(out) /\ pending' = pending /\ cancelled' = cancelled
      /\ gone' = IF h.type = "Left" THEN gone \cup {h.key} ELSE gone \ {h.key}
  BY DEF Receive
<1>2. /\ Len(out) \in Nat /\ Len(out) >= 1 /\ h = out[1]
      /\ DOMAIN out = 1..Len(out) /\ DOMAIN out' = 1..(Len(out) - 1)
      /\ \A n \in 1..(Len(out) - 1) : out'[n] = out[n + 1]
  BY <1>1
<1>. HIDE DEF h
<1>3. CASE cancelled \/ k \in pending
  BY <1>1, <1>3 DEF LeftIsLast
<1>4. CASE About(k) = {} /\ k \in gone
  <2>1. h.key # k
    BY <1>2, <1>4 DEF About
  <2>2. About(k)' = {}
    BY <1>2, <1>4 DEF About
  <2>. QED
    BY <1>1, <1>4, <2>1, <2>2 DEF LeftIsLast
<1>5. ASSUME NEW n \in About(k), out[n].type = "Left", \A j \in About(k) : j <= n
      PROVE  LeftIsLast(k)'
  <2>1. n \in 1..Len(out) /\ out[n].key = k
    BY <1>2 DEF About
  <2>2. \A j \in About(k)' : j \in Nat /\ j + 1 \in About(k)
    BY <1>2 DEF About
  <2>3. CASE n = 1
    <3>1. k \in gone'
      BY <1>1, <1>2, <1>5, <2>1, <2>3
    <3>2. About(k)' = {}
      <4>1. ASSUME NEW j \in About(k)' PROVE FALSE
        <5>1. j \in 1..(Len(out) - 1)
          BY <1>2 DEF About
        <5>2. j + 1 <= 1
          BY <1>5, <2>2, <2>3
        <5>. QED
          BY <1>2, <5>1, <5>2
      <4>. QED
        BY <4>1
    <3>. QED
      BY <3>1, <3>2 DEF LeftIsLast
  <2>4. CASE n # 1
    <3>1. n - 1 \in 1..(Len(out) - 1) /\ (n - 1) + 1 = n
      BY <1>2, <2>1, <2>4
    <3>2. n - 1 \in About(k)' /\ out'[n - 1].type = "Left"
      BY <1>2, <1>5, <2>1, <3>1 DEF About
    <3>3. \A j \in About(k)' : j <= n - 1
      BY <1>5, <2>1, <2>2
    <3>. QED
      BY <3>2, <3>3 DEF LeftIsLast
  <2>. QED
    BY <2>3, <2>4
<1>. QED
  BY <1>3, <1>4, <1>5 DEF LeftIsLast

\* What an announcement leaves in the channel.
LEMMA AnnounceAppends ==
    ASSUME NEW u, NEW key \in Key, NEW d, NEW c, Announce(u, key, d, c)
    PROVE  \E e \in Event : e.key = key /\ (out' = out \/ out' = Append(out, e))
<1>. DEFINE e == [type |-> EventType(d, c), key |-> key]
<1>1. e \in Event /\ e.key = key
  BY DEF Event, EventType, Type
<1>2. out' = out \/ out' = Append(out, e)
  BY DEF Announce
<1>. HIDE DEF e
<1>. QED
  BY <1>1, <1>2

\* An update makes nobody Offline, and announces a device that is Online after it.
LEMMA UpdateSparesOffline ==
    ASSUME HonestInv, HonestInv', NEW o \in Observation, NEW t \in 1..MaxTime,
           HandleUpdate(o, t)
    PROVE  /\ Offline' \subseteq Offline
           /\ \A k \in Offline' : \E e \in Event :
                 e.key # k /\ (out' = out \/ out' = Append(out, e))
<1>1. BooksOK /\ BooksOK'
  BY DEF HonestInv, TypeOK
<1>2. PICK u \in Update :
        /\ u = Stamped(o, t)
        /\ \/ Identified(u)
           \/ u.ip # None /\ \E m \in OwnersOf(u.ip) : Attributed(u, m)
           \/ u.ip # None /\ Unidentified(u)
  BY HandleUpdateCases
<1>3. u.source = o.source /\ u.mac = o.mac
  BY <1>2 DEF Stamped
<1>4. DOMAIN byMAC \cap DOMAIN byIP = {} /\ DOMAIN byMAC' \cap DOMAIN byIP' = {}
  BY <1>1 DEF BooksOK
<1>5. CASE u.source = "arp-seed"
  <2>1. seeding'
    BY <1>3, <1>5 DEF HandleUpdate
  <2>2. Offline' = {}
    BY <2>1 DEF Offline, OfflineIn, HonestInv, NobodySeenYet, Honest, Deserved
  <2>. QED
    BY <2>2
<1>6. CASE u.source # "arp-seed"
  <2>1. CASE Identified(u)
    <3>. DEFINE f == Scanned(Kept(u), u)
                c == Created(u)
    <3>1. /\ u.mac \in MAC /\ Base(u) \in Device /\ Scans(f) /\ c \in BOOLEAN
          /\ DOMAIN byMAC' = DOMAIN byMAC \cup {u.mac}
          /\ byMAC'[u.mac] = After(u, Base(u), c, f)
          /\ \A n \in DOMAIN byMAC \ {u.mac} : byMAC'[n].status = byMAC[n].status
          /\ DOMAIN byIP' = DOMAIN byIP \ {u.ip}
          /\ \A i \in DOMAIN byIP' : byIP'[i] = byIP[i]
      BY <1>1, <2>1, IdentifiedEffect DEF Created
    <3>2. Announce(u, u.mac, Base(u), c)
      BY <2>1 DEF Identified, Base, Found, Created
    <3>. HIDE DEF f, c
    <3>3. byMAC'[u.mac].status = "Online"
      BY <1>6, <3>1, AfterType
    <3>4. Offline' \subseteq Offline /\ u.mac \notin Offline'
      BY <1>4, <3>1, <3>3 DEF Offline, OfflineIn
    <3>5. u.mac \in Key
      BY <3>1 DEF Key
    <3>6. PICK e \in Event : e.key = u.mac /\ (out' = out \/ out' = Append(out, e))
      BY <3>2, <3>5, AnnounceAppends, Zenon
    <3>. QED
      BY <3>4, <3>6
  <2>2. ASSUME u.ip # None, NEW m \in OwnersOf(u.ip), Attributed(u, m)
        PROVE  /\ Offline' \subseteq Offline
               /\ \A k \in Offline' : \E e \in Event :
                     e.key # k /\ (out' = out \/ out' = Append(out, e))
    <3>. DEFINE f == Scanned(portsByIP, u)
                c == FALSE
    <3>1. /\ m \in DOMAIN byMAC /\ byMAC[m] \in Device /\ Scans(f) /\ c \in BOOLEAN
          /\ DOMAIN byMAC' = DOMAIN byMAC
          /\ byMAC'[m] = After(u, byMAC[m], c, f)
          /\ \A n \in DOMAIN byMAC \ {m} : byMAC'[n] = byMAC[n]
          /\ byIP' = byIP
      BY <1>1, <2>2, AttributedEffect
    <3>2. m \in Key /\ Announce(u, m, byMAC[m], c)
      BY <1>1, <2>2, <3>1 DEF Attributed, BooksOK, Key
    <3>. HIDE DEF f, c
    <3>3. byMAC'[m].status = "Online"
      BY <1>6, <3>1, AfterType
    <3>4. Offline' \subseteq Offline /\ m \notin Offline'
      BY <1>4, <3>1, <3>3 DEF Offline, OfflineIn
    <3>5. PICK e \in Event : e.key = m /\ (out' = out \/ out' = Append(out, e))
      BY <3>2, AnnounceAppends, Zenon
    <3>. QED
      BY <3>4, <3>5
  <2>3. CASE u.ip # None /\ Unidentified(u)
    <3>. DEFINE f == Scanned(portsByIP, u)
                c == u.ip \notin DOMAIN byIP
    <3>1. /\ u.ip \in IP /\ AnonBase(u) \in Device /\ Scans(f) /\ c \in BOOLEAN
          /\ DOMAIN byIP' = DOMAIN byIP \cup {u.ip}
          /\ byIP'[u.ip] = After(u, AnonBase(u), c, f)
          /\ \A i \in DOMAIN byIP \ {u.ip} : byIP'[i] = byIP[i]
          /\ byMAC' = byMAC
      BY <1>1, <2>3, UnidentifiedEffect
    <3>2. u.ip \in Key /\ Announce(u, u.ip, AnonBase(u), c)
      BY <2>3, <3>1 DEF Unidentified, AnonBase, Key
    <3>. HIDE DEF f, c
    <3>3. byIP'[u.ip].status = "Online"
      BY <1>6, <3>1, AfterType
    <3>4. Offline' \subseteq Offline /\ u.ip \notin Offline'
      BY <1>4, <3>1, <3>3 DEF Offline, OfflineIn
    <3>5. PICK e \in Event : e.key = u.ip /\ (out' = out \/ out' = Append(out, e))
      BY <3>2, AnnounceAppends, Zenon
    <3>. QED
      BY <3>4, <3>5
  <2>. QED
    BY <1>2, <2>1, <2>2, <2>3
<1>. QED
  BY <1>5, <1>6

LEMMA DeparturesStep ==
    ASSUME HonestInv, HonestInv', [Next]_vars, \A k \in Offline : LeftIsLast(k),
           NEW k \in Offline'
    PROVE  LeftIsLast(k)'
<1>1. BooksOK /\ out \in Seq(Event)
  BY DEF HonestInv, TypeOK
<1>2. ASSUME NEW o \in Observation, NEW t \in 1..MaxTime, HandleUpdate(o, t)
      PROVE  LeftIsLast(k)'
  <2>1. LeftIsLast(k)
    BY <1>2, UpdateSparesOffline
  <2>2. PICK e \in Event : e.key # k /\ (out' = out \/ out' = Append(out, e))
    BY <1>2, UpdateSparesOffline
  <2>3. UNCHANGED <<pending, gone, cancelled>>
    BY <1>2 DEF HandleUpdate
  <2>4. CASE out' = out
    BY <2>1, <2>3, <2>4 DEF LeftIsLast, About
  <2>. QED
    BY <1>1, <2>1, <2>2, <2>3, <2>4, OthersDoNotMatter
<1>3. ASSUME NEW t \in 1..MaxTime, Sweep(t) PROVE LeftIsLast(k)'
  <2>1. /\ DOMAIN byMAC' = DOMAIN byMAC /\ DOMAIN byIP' = DOMAIN byIP
        /\ \A m \in DOMAIN byMAC : byMAC'[m] = Aged(byMAC[m], t)
        /\ \A i \in DOMAIN byIP : byIP'[i] = Aged(byIP[i], t)
    BY <1>1, <1>3, SweepEffect
  <2>2. ASSUME NEW d \in Device
        PROVE  Aged(d, t).status = "Offline" => d.status = "Offline" \/ LeftBy(d, t)
    BY AgedType
  <2>3. k \in Offline \/ k \in Departing(byMAC, t) \cup Departing(byIP, t)
    BY <1>1, <2>1, <2>2 DEF Offline, OfflineIn, Departing, BooksOK
  <2>4. CASE k \in Offline
    <3>1. UNCHANGED <<out, gone, cancelled>> /\ pending = {}
      BY <1>3 DEF Sweep, channel
    <3>. QED
      BY <2>4, <3>1 DEF LeftIsLast, About
  <2>5. CASE k \in Departing(byMAC, t) \cup Departing(byIP, t)
    BY <1>3, <2>5 DEF Sweep, LeftIsLast
  <2>. QED
    BY <2>3, <2>4, <2>5
<1>4. ASSUME UNCHANGED books PROVE LeftIsLast(k)
  BY <1>4 DEF books, Offline, OfflineIn
<1>5. ASSUME NEW j \in Key, SendLeft(j) PROVE LeftIsLast(k)'
  <2>. DEFINE e == [type |-> "Left", key |-> j]
  <2>1. e \in Event /\ e.key = j /\ e.type = "Left"
    BY DEF Event, Type
  <2>2. /\ out' = Append(out, e) /\ pending' = pending \ {j}
        /\ UNCHANGED <<gone, cancelled>> /\ UNCHANGED books
    BY <1>5 DEF SendLeft
  <2>. HIDE DEF e
  <2>3. LeftIsLast(k)
    BY <1>4, <2>2
  <2>4. CASE j = k
    <3>1. Len(out) + 1 \in DOMAIN out' /\ out'[Len(out) + 1] = e
          /\ \A n \in DOMAIN out' : n <= Len(out) + 1
      BY <1>1, <2>1, <2>2
    <3>. QED
      BY <2>1, <2>4, <3>1 DEF LeftIsLast, About
  <2>5. CASE j # k
    BY <1>1, <2>1, <2>2, <2>3, <2>5, OthersDoNotMatter
  <2>. QED
    BY <2>4, <2>5
<1>6. CASE AbandonSends
  BY <1>6 DEF AbandonSends, channel, LeftIsLast
<1>7. CASE Receive
  <2>1. UNCHANGED books
    BY <1>7 DEF Receive
  <2>. QED
    BY <1>1, <1>4, <1>7, <2>1, ReceiveKeepsLast
<1>8. CASE Cancel
  BY <1>8 DEF Cancel, LeftIsLast
<1>9. CASE Stop \/ Tick \/ UNCHANGED vars
  <2>1. UNCHANGED <<out, gone, pending, cancelled>> /\ UNCHANGED books
    BY <1>9 DEF Stop, Tick, vars, channel
  <2>. QED
    BY <1>4, <2>1 DEF LeftIsLast, About
<1>. QED
  BY <1>2, <1>3, <1>5, <1>6, <1>7, <1>8, <1>9 DEF Next

\* However much the consumer lags, what it last hears of a device that went away is Left,
\* until the session ends: no departure is dropped or overtaken.
THEOREM NoDepartureIsLost == Spec => []DeparturesNotLost
<1>. DEFINE Inv == \A k \in Offline : LeftIsLast(k)
<1>1. Init => Inv
  BY DEF Init, Offline, OfflineIn
<1>2. HonestInv /\ HonestInv' /\ Inv /\ [Next]_vars => Inv'
  BY DeparturesStep
<1>3. HonestInv /\ Inv => DeparturesNotLost
  BY OfflineIsDeparted DEF HonestInv, TypeOK
<1>. HIDE DEF Inv
<1>. QED
  BY <1>1, <1>2, <1>3, AlwaysHonest, PTL DEF Spec

----------------------------------------------------------------------------
(* Deriving ports and OS guess *)

\* Deriving twice is deriving once.
LEMMA RefreshedAgain ==
    ASSUME NEW d \in Device, NEW f
    PROVE  Refreshed(Refreshed(d, f), f) = Refreshed(d, f)
<1>. DEFINE ports == PortsOf(d.ips, f)
            evidence == [vendor |-> d.vendor, services |-> d.services,
                         ports |-> ports, ttl |-> d.ttl, nbns |-> d.nbns]
            e == [d EXCEPT !.ports = ports, !.os = OSDetect[evidence]]
<1>1. Refreshed(d, f) = e
  BY DEF Refreshed
<1>2. /\ e.ips = d.ips /\ e.vendor = d.vendor /\ e.services = d.services
      /\ e.ttl = d.ttl /\ e.nbns = d.nbns
      /\ [e EXCEPT !.ports = ports, !.os = OSDetect[evidence]] = e
  BY DEF Device
<1>3. Refreshed(e, f) = [e EXCEPT !.ports = ports, !.os = OSDetect[evidence]]
  <2>. HIDE DEF e
  <2>. QED
    BY <1>2 DEF Refreshed
<1>. QED
  BY <1>1, <1>2, <1>3

\* The scans f and g agree on the addresses in ips.
Agree(ips, f, g) ==
    \A i \in ips : (i \in DOMAIN f <=> i \in DOMAIN g) /\ (i \in DOMAIN f => f[i] = g[i])

\* Only the scans of a device's own addresses matter to it.
LEMMA RefreshedLocally ==
    ASSUME NEW d, NEW f, NEW g, Agree(d.ips, f, g)
    PROVE  Refreshed(d, f) = Refreshed(d, g)
<1>1. PortsOf(d.ips, f) = PortsOf(d.ips, g)
  BY DEF PortsOf, Agree
<1>. QED
  BY <1>1 DEF Refreshed

\* A sweep does not touch what ports and OS guess are derived from.
LEMMA AgedRefreshed ==
    ASSUME NEW d \in Device, NEW t, NEW f, Refreshed(d, f) = d
    PROVE  Refreshed(Aged(d, t), f) = Aged(d, t)
<1>. DEFINE st == IF LeftBy(d, t) THEN "Offline"
                  ELSE IF StaleBy(d, t) /\ d.status = "Online" THEN "Stale" ELSE d.status
            ports == PortsOf(d.ips, f)
            os == OSDetect[[vendor |-> d.vendor, services |-> d.services,
                            ports |-> ports, ttl |-> d.ttl, nbns |-> d.nbns]]
            a == [d EXCEPT !.status = st]
<1>1. Aged(d, t) = a
  BY DEF Aged
<1>2. d = [d EXCEPT !.ports = ports, !.os = os]
  BY DEF Refreshed
<1>3. d.ports = ports /\ d.os = os
  <2>. HIDE DEF ports, os
  <2>. QED
    BY <1>2 DEF Device
<1>4. Refreshed(a, f) = [a EXCEPT !.ports = ports, !.os = os]
  <2>1. /\ a.ips = d.ips /\ a.vendor = d.vendor /\ a.services = d.services
        /\ a.ttl = d.ttl /\ a.nbns = d.nbns
    BY DEF Device
  <2>. HIDE DEF a
  <2>. QED
    BY <2>1 DEF Refreshed
<1>5. [a EXCEPT !.ports = ports, !.os = os] = a
  <2>. HIDE DEF ports, os, st
  <2>. QED
    BY <1>3 DEF Device
<1>. QED
  BY <1>1, <1>4, <1>5

----------------------------------------------------------------------------
(* Ports follow the scans *)

\* An entry shows what its addresses' scans in f say.
InSync(d, f) == Refreshed(d, f) = d

\* Every scan on file is of an address somebody owns.
ScansAreOwned ==
    \A i \in DOMAIN portsByIP :
       i \in DOMAIN byIP \/ \E m \in DOMAIN byMAC : i \in byMAC[m].ips

\* The inductive invariant: DerivedInSync entry by entry, over exclusive owners.
SyncInv ==
    /\ BooksOK /\ OneOwnerPerIP
    /\ \A m \in DOMAIN byMAC : InSync(byMAC[m], portsByIP)
    /\ \A i \in DOMAIN byIP : InSync(byIP[i], portsByIP)
    /\ ScansAreOwned

LEMMA SyncIsDerivedInSync == SyncInv => DerivedInSync
<1>. SUFFICES ASSUME SyncInv PROVE DerivedInSync
  OBVIOUS
<1>1. DOMAIN byMAC \cap DOMAIN byIP = {}
  BY DEF SyncInv, BooksOK
<1>2. /\ \A m \in DOMAIN byMAC : m \in Devices /\ Entry(m) = byMAC[m]
      /\ \A i \in DOMAIN byIP : i \in Devices /\ Entry(i) = byIP[i]
  BY <1>1 DEF Devices, Entry
<1>3. \A k \in Devices : Entry(k) = Refreshed(Entry(k), portsByIP)
  BY <1>2 DEF SyncInv, InSync, Devices
<1>4. ASSUME NEW i \in DOMAIN portsByIP PROVE \E k \in Devices : i \in Entry(k).ips
  <2>1. CASE i \in DOMAIN byIP
    BY <1>2, <2>1 DEF SyncInv, OneOwnerPerIP
  <2>2. CASE \E m \in DOMAIN byMAC : i \in byMAC[m].ips
    BY <1>2, <2>2
  <2>. QED
    BY <2>1, <2>2 DEF SyncInv, ScansAreOwned
<1>. QED
  BY <1>3, <1>4 DEF DerivedInSync

\* What the observation leaves on file for the addresses it is not about.
LEMMA ScannedElsewhere ==
    ASSUME NEW u, NEW f, NEW ips, u.ip \notin ips
    PROVE  Agree(ips, f, Scanned(f, u)) /\ Agree(ips, f, Scanned(Without(f, u.ip), u))
BY DEF Agree, Scanned, Without

LEMMA AgreeWithin ==
    ASSUME NEW ips, NEW f, NEW g, NEW h, Agree(ips, f, g), Agree(ips, f, h)
    PROVE  Agree(ips, g, h)
BY DEF Agree

\* An entry the observation is not about stays in sync.
LEMMA OthersStayInSync ==
    ASSUME NEW d, NEW u, u.ip \notin d.ips, InSync(d, portsByIP),
           \/ portsByIP' = Scanned(portsByIP, u)
           \/ portsByIP' = Scanned(Without(portsByIP, u.ip), u)
    PROVE  InSync(d, portsByIP')
<1>1. Agree(d.ips, portsByIP, portsByIP')
  <2>1. /\ Agree(d.ips, portsByIP, Scanned(portsByIP, u))
        /\ Agree(d.ips, portsByIP, Scanned(Without(portsByIP, u.ip), u))
    BY ScannedElsewhere
  <2>2. CASE portsByIP' = Scanned(portsByIP, u)
    BY <2>1, <2>2
  <2>3. CASE portsByIP' = Scanned(Without(portsByIP, u.ip), u)
    BY <2>1, <2>3
  <2>. QED
    BY <2>2, <2>3
<1>. QED
  BY <1>1, RefreshedLocally DEF InSync

\* The entry the observation is applied to is derived from the scans then on file.
LEMMA AfterInSync ==
    ASSUME NEW base \in Device, NEW u \in Update, NEW c \in BOOLEAN, Scans(portsByIP')
    PROVE  InSync(After(u, base, c, portsByIP'), portsByIP')
BY ObservedType, RefreshedAgain DEF After, InSync

\* Identified, entry by entry, with the scans it leaves.
LEMMA IdentifiedBooks ==
    ASSUME BooksOK, NEW u \in Update, Identified(u)
    PROVE  /\ portsByIP' = Scanned(Kept(u), u)
           /\ Kept(u) = portsByIP \/ Kept(u) = Without(portsByIP, u.ip)
           /\ \A n \in DOMAIN byMAC \ {u.mac} :
                 \/ n \notin Losers(u) /\ byMAC'[n] = byMAC[n]
                 \/ n \in Losers(u) /\ byMAC'[n] = Relieved(byMAC[n], u.ip, Kept(u))
BY DEF Identified, Kept

LEMMA IdentifiedSync ==
    ASSUME SyncInv, NEW u \in Update, Identified(u)
    PROVE  SyncInv'
<1>1. BooksOK /\ OneOwnerPerIP /\ ScansAreOwned
  BY DEF SyncInv
<1>2. /\ BooksOK'
      /\ u.mac \in MAC /\ Base(u) \in Device
      /\ DOMAIN byMAC' = DOMAIN byMAC \cup {u.mac}
      /\ byMAC'[u.mac] = After(u, Base(u), Created(u), Scanned(Kept(u), u))
      /\ \A n \in DOMAIN byMAC \ {u.mac} : byMAC'[n].ips = byMAC[n].ips \ {u.ip}
      /\ DOMAIN byIP' = DOMAIN byIP \ {u.ip}
      /\ \A i \in DOMAIN byIP' : byIP'[i] = byIP[i]
  BY <1>1, IdentifiedEffect
<1>3. portsByIP' = Scanned(Kept(u), u)
      /\ (Kept(u) = portsByIP \/ Kept(u) = Without(portsByIP, u.ip))
  BY <1>1, IdentifiedBooks
<1>4. Scans(portsByIP')
  BY <1>2 DEF BooksOK, Scans
<1>5. OneOwnerPerIP'
  BY <1>1, IdentifiedOneOwner
<1>6. InSync(byMAC'[u.mac], portsByIP')
  <2>1. Created(u) \in BOOLEAN
    BY DEF Created
  <2>. QED
    BY <1>2, <1>3, <1>4, <2>1, AfterInSync
<1>7. ASSUME NEW n \in DOMAIN byMAC \ {u.mac} PROVE InSync(byMAC'[n], portsByIP')
  <2>1. byMAC[n] \in Device /\ InSync(byMAC[n], portsByIP)
    BY <1>1 DEF BooksOK, SyncInv
  <2>2. CASE n \notin Losers(u)
    <3>1. byMAC'[n] = byMAC[n]
      BY <1>1, <2>2, IdentifiedBooks
    <3>2. u.ip \notin byMAC[n].ips
      BY <2>2 DEF Losers, OwnersOf
    <3>. QED
      BY <1>3, <2>1, <3>1, <3>2, OthersStayInSync
  <2>3. CASE n \in Losers(u)
    <3>. DEFINE d == [byMAC[n] EXCEPT !.ips = @ \ {u.ip}]
    <3>1. d \in Device /\ d.ips = byMAC[n].ips \ {u.ip}
      BY <2>1 DEF Device
    <3>2. byMAC'[n] = Refreshed(d, Kept(u))
      BY <1>1, <2>3, IdentifiedBooks DEF Relieved
    <3>. HIDE DEF d
    <3>3. Agree(d.ips, Kept(u), portsByIP')
      BY <1>3, <3>1, ScannedElsewhere
    <3>4. byMAC'[n] = Refreshed(d, portsByIP')
      BY <3>2, <3>3, RefreshedLocally
    <3>. QED
      BY <3>1, <3>4, RefreshedAgain DEF InSync
  <2>. QED
    BY <2>2, <2>3
<1>8. ASSUME NEW i \in DOMAIN byIP' PROVE InSync(byIP'[i], portsByIP')
  <2>1. i \in DOMAIN byIP /\ i # u.ip /\ byIP'[i] = byIP[i]
    BY <1>2
  <2>2. byIP[i].ips = {i} /\ InSync(byIP[i], portsByIP)
    BY <1>1, <2>1 DEF OneOwnerPerIP, SyncInv
  <2>. QED
    BY <1>3, <2>1, <2>2, OthersStayInSync
<1>9. ASSUME NEW i \in DOMAIN portsByIP'
      PROVE  i \in DOMAIN byIP' \/ \E m \in DOMAIN byMAC' : i \in byMAC'[m].ips
  <2>1. byMAC'[u.mac].ips =
          (IF u.mac \in DOMAIN byMAC THEN byMAC[u.mac].ips ELSE {}) \cup ({u.ip} \ {None})
    BY <1>1, IdentifiedOwners
  <2>2. i \in IP /\ i # None
    BY <1>4, <1>9 DEF Scans
  <2>3. CASE i = u.ip
    BY <1>2, <2>1, <2>2, <2>3
  <2>4. CASE i # u.ip
    <3>1. i \in DOMAIN portsByIP
      BY <1>3, <2>4 DEF Scanned, Without
    <3>2. CASE i \in DOMAIN byIP
      BY <1>2, <2>4, <3>2
    <3>3. ASSUME NEW m \in DOMAIN byMAC, i \in byMAC[m].ips PROVE i \in byMAC'[m].ips
      BY <1>2, <2>1, <2>4, <3>3
    <3>. QED
      BY <1>1, <1>2, <3>1, <3>2, <3>3 DEF ScansAreOwned
  <2>. QED
    BY <2>3, <2>4
<1>. QED
  BY <1>2, <1>5, <1>6, <1>7, <1>8, <1>9 DEF SyncInv, ScansAreOwned

LEMMA AttributedSync ==
    ASSUME SyncInv, NEW u \in Update, NEW m \in OwnersOf(u.ip), u.ip # None, Attributed(u, m)
    PROVE  SyncInv'
<1>1. BooksOK /\ OneOwnerPerIP /\ ScansAreOwned
  BY DEF SyncInv
<1>2. /\ BooksOK'
      /\ m \in DOMAIN byMAC /\ u.ip \in byMAC[m].ips /\ byMAC[m] \in Device
      /\ DOMAIN byMAC' = DOMAIN byMAC
      /\ byMAC'[m] = After(u, byMAC[m], FALSE, Scanned(portsByIP, u))
      /\ \A n \in DOMAIN byMAC \ {m} : byMAC'[n] = byMAC[n]
      /\ byIP' = byIP
  BY <1>1, AttributedEffect
<1>3. portsByIP' = Scanned(portsByIP, u)
  BY DEF Attributed
<1>4. Scans(portsByIP')
  BY <1>2 DEF BooksOK, Scans
<1>5. \A n \in DOMAIN byMAC : byMAC'[n].ips = byMAC[n].ips
  BY <1>1, AttributedOwners
<1>6. OneOwnerPerIP'
  BY <1>1, <1>2, <1>5 DEF OneOwnerPerIP, OwnersOf
<1>7. InSync(byMAC'[m], portsByIP')
  BY <1>2, <1>3, <1>4, AfterInSync
<1>8. ASSUME NEW n \in DOMAIN byMAC \ {m} PROVE InSync(byMAC'[n], portsByIP')
  <2>1. u.ip \notin byMAC[n].ips
    BY <1>1, <1>2 DEF OneOwnerPerIP
  <2>. QED
    BY <1>2, <1>3, <2>1, OthersStayInSync DEF SyncInv
<1>9. ASSUME NEW i \in DOMAIN byIP PROVE InSync(byIP[i], portsByIP')
  <2>1. byIP[i].ips = {i} /\ i # u.ip
    BY <1>1, <1>2 DEF OneOwnerPerIP, OwnersOf
  <2>. QED
    BY <1>3, <2>1, OthersStayInSync DEF SyncInv
<1>10. ScansAreOwned'
  <2>1. DOMAIN portsByIP' \subseteq DOMAIN portsByIP \cup {u.ip}
    BY <1>3 DEF Scanned
  <2>2. \E n \in DOMAIN byMAC' : u.ip \in byMAC'[n].ips
    BY <1>2, <1>5
  <2>. QED
    BY <1>1, <1>2, <1>5, <2>1, <2>2 DEF ScansAreOwned
<1>. QED
  BY <1>2, <1>6, <1>7, <1>8, <1>9, <1>10 DEF SyncInv

LEMMA UnidentifiedSync ==
    ASSUME SyncInv, NEW u \in Update, u.ip # None, Unidentified(u)
    PROVE  SyncInv'
<1>1. BooksOK /\ OneOwnerPerIP /\ ScansAreOwned
  BY DEF SyncInv
<1>2. /\ BooksOK'
      /\ OwnersOf(u.ip) = {} /\ AnonBase(u) \in Device
      /\ DOMAIN byIP' = DOMAIN byIP \cup {u.ip}
      /\ byIP'[u.ip] = After(u, AnonBase(u), u.ip \notin DOMAIN byIP, Scanned(portsByIP, u))
      /\ \A i \in DOMAIN byIP \ {u.ip} : byIP'[i] = byIP[i]
      /\ byMAC' = byMAC
  BY <1>1, UnidentifiedEffect
<1>3. portsByIP' = Scanned(portsByIP, u)
  BY DEF Unidentified
<1>4. Scans(portsByIP')
  BY <1>2 DEF BooksOK, Scans
<1>5. OneOwnerPerIP'
  BY <1>1, <1>2, UnidentifiedOwners DEF OneOwnerPerIP, OwnersOf
<1>6. InSync(byIP'[u.ip], portsByIP')
  <2>. DEFINE created == u.ip \notin DOMAIN byIP
  <2>1. created \in BOOLEAN /\ byIP'[u.ip] = After(u, AnonBase(u), created, portsByIP')
    BY <1>2, <1>3
  <2>. HIDE DEF created
  <2>. QED
    BY <1>2, <1>4, <2>1, AfterInSync
<1>7. ASSUME NEW i \in DOMAIN byIP \ {u.ip} PROVE InSync(byIP'[i], portsByIP')
  <2>1. byIP[i].ips = {i}
    BY <1>1 DEF OneOwnerPerIP
  <2>. QED
    BY <1>2, <1>3, <2>1, OthersStayInSync DEF SyncInv
<1>8. ASSUME NEW m \in DOMAIN byMAC PROVE InSync(byMAC[m], portsByIP')
  <2>1. u.ip \notin byMAC[m].ips
    BY <1>2 DEF OwnersOf
  <2>. QED
    BY <1>3, <2>1, OthersStayInSync DEF SyncInv
<1>9. ScansAreOwned'
  <2>1. DOMAIN portsByIP' \subseteq DOMAIN portsByIP \cup {u.ip}
    BY <1>3 DEF Scanned
  <2>. QED
    BY <1>1, <1>2, <2>1 DEF ScansAreOwned
<1>. QED
  BY <1>2, <1>5, <1>6, <1>7, <1>8, <1>9 DEF SyncInv

LEMMA SyncStep ==
    ASSUME SyncInv, TypeOK, [Next]_vars
    PROVE  SyncInv'
<1>1. BooksOK /\ OneOwnerPerIP /\ ScansAreOwned
  BY DEF SyncInv
<1>2. ASSUME NEW o \in Observation, NEW t \in 1..MaxTime, HandleUpdate(o, t) PROVE SyncInv'
  BY <1>2, HandleUpdateCases, IdentifiedSync, AttributedSync, UnidentifiedSync
<1>3. ASSUME NEW t \in 1..MaxTime, Sweep(t) PROVE SyncInv'
  <2>1. /\ BooksOK'
        /\ DOMAIN byMAC' = DOMAIN byMAC /\ DOMAIN byIP' = DOMAIN byIP
        /\ \A m \in DOMAIN byMAC : byMAC'[m] = Aged(byMAC[m], t)
        /\ \A i \in DOMAIN byIP : byIP'[i] = Aged(byIP[i], t)
        /\ portsByIP' = portsByIP
    BY <1>1, <1>3, SweepEffect DEF Sweep
  <2>2. OneOwnerPerIP'
    BY <1>3, OneOwnerStep DEF SyncInv, Next
  <2>3. /\ \A m \in DOMAIN byMAC : byMAC[m] \in Device
        /\ \A i \in DOMAIN byIP : byIP[i] \in Device
    BY <1>1 DEF BooksOK
  <2>4. /\ \A m \in DOMAIN byMAC : InSync(byMAC'[m], portsByIP')
        /\ \A i \in DOMAIN byIP : InSync(byIP'[i], portsByIP')
    BY <2>1, <2>3, AgedRefreshed DEF SyncInv, InSync
  <2>5. \A m \in DOMAIN byMAC : byMAC'[m].ips = byMAC[m].ips
    BY <2>1, <2>3, AgedType
  <2>6. ScansAreOwned'
    BY <1>1, <2>1, <2>5 DEF ScansAreOwned
  <2>. QED
    BY <2>1, <2>2, <2>4, <2>6 DEF SyncInv
<1>4. CASE UNCHANGED books
  BY <1>1, <1>4 DEF books, SyncInv, BooksOK, OneOwnerPerIP, OwnersOf, ScansAreOwned
<1>. QED
  BY <1>2, <1>3, <1>4 DEF Next, vars, SendLeft, AbandonSends, Stop, Tick, Receive, Cancel

\* The ports and the OS guess of every device are those of the latest scans of exactly
\* the addresses it owns, whatever addresses moved or were folded in.
THEOREM PortsFollowOwnership == Spec => []DerivedInSync
<1>1. Init => SyncInv
  BY TypeOKInit DEF Init, TypeOK, SyncInv, OneOwnerPerIP, ScansAreOwned
<1>2. SyncInv /\ TypeOK /\ [Next]_vars => SyncInv'
  BY SyncStep
<1>3. SyncInv => DerivedInSync
  BY SyncIsDerivedInSync
<1>. QED
  BY <1>1, <1>2, <1>3, TypeCorrect, PTL DEF Spec

\* A device keeps its addresses when an observation of its own MAC arrives.
LEMMA ClaimKeepsAddresses ==
    ASSUME BooksOK, NEW u \in Update, Identified(u), u.mac \in DOMAIN byMAC
    PROVE  byMAC[u.mac].ips \subseteq byMAC'[u.mac].ips
<1>1. /\ Base(u) \in Device /\ Scans(Scanned(Kept(u), u))
      /\ byMAC'[u.mac] = After(u, Base(u), Created(u), Scanned(Kept(u), u))
  BY IdentifiedEffect
<1>2. Created(u) \in BOOLEAN
  BY DEF Created
<1>3. Base(u).ips \subseteq byMAC'[u.mac].ips
  BY <1>1, <1>2, AfterType
<1>4. byMAC[u.mac].ips \subseteq Base(u).ips
  BY FoldType DEF Base, Found, BooksOK
<1>. QED
  BY <1>3, <1>4

\* A MAC that takes an address over starts without the ports its old owner showed there:
\* an address that changes hands has no scan on file, since only ARP moves addresses and
\* only the prober scans.
THEOREM PortsAreNotInherited == Spec => NoInheritedPorts
<1>1. ASSUME TypeOK, [Next]_vars, NEW m \in DOMAIN byMAC, NEW i \in DOMAIN portsByIP,
             i \in byMAC[m].ips, i \notin byMAC'[m].ips
      PROVE  i \notin DOMAIN portsByIP'
  <2>1. BooksOK
    BY <1>1 DEF TypeOK
  <2>2. ASSUME NEW o \in Observation, NEW t \in 1..MaxTime, HandleUpdate(o, t)
        PROVE  i \notin DOMAIN portsByIP'
    <3>1. PICK u \in Update :
            /\ u = Stamped(o, t)
            /\ \/ Identified(u)
               \/ u.ip # None /\ \E n \in OwnersOf(u.ip) : Attributed(u, n)
               \/ u.ip # None /\ Unidentified(u)
      BY <2>2, HandleUpdateCases
    <3>2. CASE Identified(u)
      <4>1. u.source # "active"
        BY <3>1, <3>2 DEF Identified, Stamped
      <4>2. portsByIP' = Kept(u)
        BY <3>2, <4>1 DEF Identified, Scanned
      <4>3. m # u.mac
        <5>1. ASSUME m = u.mac PROVE byMAC[m].ips \subseteq byMAC'[m].ips
          BY <2>1, <3>2, <5>1, ClaimKeepsAddresses
        <5>. QED
          BY <1>1, <5>1
      <4>4. byMAC'[m].ips = byMAC[m].ips \ {u.ip}
        BY <2>1, <3>2, <4>3, IdentifiedEffect
      <4>5. i = u.ip /\ m \in Losers(u)
        BY <1>1, <4>3, <4>4 DEF Losers, OwnersOf
      <4>. QED
        BY <4>2, <4>5 DEF Kept, Without
    <3>3. ASSUME u.ip # None, NEW n \in OwnersOf(u.ip), Attributed(u, n) PROVE FALSE
      BY <1>1, <2>1, <3>3, AttributedOwners
    <3>4. CASE u.ip # None /\ Unidentified(u)
      BY <1>1, <3>4 DEF Unidentified
    <3>. QED
      BY <3>1, <3>2, <3>3, <3>4
  <2>3. ASSUME NEW t \in 1..MaxTime, Sweep(t) PROVE FALSE
    BY <1>1, <2>1, <2>3, SweepOwners
  <2>4. CASE UNCHANGED books
    BY <1>1, <2>4 DEF books
  <2>. QED
    BY <1>1, <2>2, <2>3, <2>4
    DEF Next, vars, SendLeft, AbandonSends, Stop, Tick, Receive, Cancel
<1>2. TypeOK /\ [Next]_vars =>
        [\A m \in DOMAIN byMAC, i \in DOMAIN portsByIP :
            (i \in byMAC[m].ips /\ i \notin byMAC'[m].ips) => i \notin DOMAIN portsByIP']_vars
  BY <1>1
<1>. QED
  BY <1>2, TypeCorrect, PTL DEF Spec, NoInheritedPorts

----------------------------------------------------------------------------
(* What is learned is kept *)

\* A device that was dated, with a whole answer to ping, and whose mDNS name came from mDNS.
Sound(d) ==
    /\ d.firstSeen # Never
    /\ PingIsWhole(d)
    /\ d.nameSource = "mdns" => d.name # None /\ d.name \in NamesFrom("mdns")

\* What SightingsKept, EvidenceKept and MDNSNameSticks say of an entry and its next value.
SightingsFrom(old, new) == new.firstSeen <= old.firstSeen /\ new.lastSeen >= old.lastSeen

EvidenceFrom(old, new) ==
    /\ old.services \subseteq new.services
    /\ old.ttl # 0 => new.ttl # 0
    /\ old.nbns => new.nbns
    /\ old.rtts # <<>> => new.rtts # <<>>

NameFrom(old, new) ==
    old.nameSource = "mdns" => new.nameSource = "mdns" /\ new.name \in NamesFrom("mdns")

\* new is old with nothing forgotten.
Keeps(old, new) ==
    /\ SightingsFrom(old, new) /\ EvidenceFrom(old, new) /\ NameFrom(old, new)
    /\ Sound(new)

LEMMA KeepsItself ==
    ASSUME NEW d \in Device, Sound(d)
    PROVE  Keeps(d, d)
BY DEF Keeps, SightingsFrom, EvidenceFrom, NameFrom, Sound, Device

LEMMA KeepsThrough ==
    ASSUME NEW a \in Device, NEW b \in Device, NEW c \in Device, Keeps(a, b), Keeps(b, c)
    PROVE  Keeps(a, c)
<1>1. SightingsFrom(a, c)
  BY DEF Keeps, SightingsFrom, Device
<1>2. EvidenceFrom(a, c)
  BY DEF Keeps, EvidenceFrom
<1>3. NameFrom(a, c)
  BY DEF Keeps, NameFrom
<1>. QED
  BY <1>1, <1>2, <1>3 DEF Keeps

\* e has the facts of d that these properties are about.
SameFacts(d, e) ==
    /\ e.firstSeen = d.firstSeen /\ e.lastSeen = d.lastSeen
    /\ e.services = d.services /\ e.ttl = d.ttl /\ e.nbns = d.nbns
    /\ e.rtt = d.rtt /\ e.rtts = d.rtts
    /\ e.name = d.name /\ e.nameSource = d.nameSource

LEMMA SameFactsKept ==
    ASSUME NEW d \in Device, Sound(d), NEW e, SameFacts(d, e)
    PROVE  Keeps(d, e)
BY DEF SameFacts, Keeps, SightingsFrom, EvidenceFrom, NameFrom, Sound, PingIsWhole, Device

\* Ports, OS guess, addresses and status are no facts of this kind.
LEMMA RefreshedFacts ==
    ASSUME NEW d \in Device, NEW f, NEW i, NEW t
    PROVE  /\ SameFacts(d, Refreshed(d, f))
           /\ SameFacts(d, Relieved(d, i, f))
           /\ SameFacts(d, Aged(d, t))
<1>1. \A ips, ports, os, st : /\ SameFacts(d, [d EXCEPT !.ports = ports, !.os = os])
                              /\ SameFacts(d, [[d EXCEPT !.ips = ips] EXCEPT !.ports = ports, !.os = os])
                              /\ SameFacts(d, [d EXCEPT !.status = st])
  BY DEF SameFacts, Device
<1>2. SameFacts(d, Refreshed(d, f))
  BY <1>1 DEF Refreshed
<1>3. SameFacts(d, Relieved(d, i, f))
  BY <1>1 DEF Relieved, Refreshed
<1>4. SameFacts(d, Aged(d, t))
  BY <1>1 DEF Aged
<1>. QED
  BY <1>2, <1>3, <1>4

\* A new device is sound, since time starts at 1.
LEMMA NewDeviceSound ==
    ASSUME NEW t \in Nat, t >= 1
    PROVE  Sound(NewDevice(t))
<1>1. t # Never
  BY DEF Never
<1>2. /\ NewDevice(t).firstSeen = t /\ NewDevice(t).nameSource = None
      /\ NewDevice(t).ttl = 0 /\ NewDevice(t).rtt = 0 /\ NewDevice(t).rtts = <<>>
  BY DEF NewDevice
<1>3. None # "mdns"
  BY DEF None
<1>. QED
  BY <1>1, <1>2, <1>3 DEF Sound, PingIsWhole

\* A fold forgets nothing of either entry.
LEMMA FoldKeeps ==
    ASSUME NEW d \in Device, NEW s \in Device, Sound(d), Sound(s)
    PROVE  Keeps(d, Fold(d, s)) /\ Keeps(s, Fold(d, s))
<1>. DEFINE e == Fold(d, s)
<1>1. /\ e.firstSeen = IF s.firstSeen < d.firstSeen \/ d.firstSeen = Never
                       THEN s.firstSeen ELSE d.firstSeen
      /\ e.lastSeen = IF s.lastSeen > d.lastSeen THEN s.lastSeen ELSE d.lastSeen
      /\ e.services = d.services \cup s.services
      /\ e.ttl = IF d.ttl = 0 THEN s.ttl ELSE d.ttl
      /\ e.nbns = IF s.nbns THEN TRUE ELSE d.nbns
      /\ e.rtt = IF HasRTT(d) THEN d.rtt ELSE s.rtt
      /\ e.rtts = IF HasRTT(d) THEN d.rtts ELSE s.rtts
      /\ e.name = IF TakesName(d, s) THEN s.name ELSE d.name
      /\ e.nameSource = IF TakesName(d, s) THEN s.nameSource ELSE d.nameSource
  BY DEF Fold
<1>. HIDE DEF e
<1>2. SightingsFrom(d, e) /\ SightingsFrom(s, e) /\ e.firstSeen # Never
  BY <1>1 DEF SightingsFrom, Sound, Device, Never
<1>3. HasRTT(d) <=> d.rtts # <<>>
  BY DEF HasRTT, Sound, PingIsWhole
<1>4. EvidenceFrom(d, e) /\ EvidenceFrom(s, e) /\ PingIsWhole(e)
  BY <1>1, <1>3 DEF EvidenceFrom, Sound, PingIsWhole
<1>5. /\ NameFrom(d, e) /\ NameFrom(s, e)
      /\ e.nameSource = "mdns" => e.name # None /\ e.name \in NamesFrom("mdns")
  BY <1>1 DEF NameFrom, Sound, TakesName
<1>6. Sound(e)
  BY <1>2, <1>4, <1>5 DEF Sound
<1>. QED
  BY <1>2, <1>4, <1>5, <1>6 DEF Keeps, e

\* A round trip is added at the end, and the eldest of a full history goes.
LEMMA LatestContinues ==
    ASSUME NEW s \in History, NEW x \in Nat
    PROVE  LET h == Latest(Append(s, x))
           IN  Continues(h, s) /\ h # <<>> /\ h[Len(h)] = x
<1>1. s \in Seq(Nat) /\ Len(s) \in Nat /\ Len(s) <= HistoryCap /\ HistoryCap \in Nat \ {0}
  BY BufferAssumption DEF History
<1>. DEFINE q == Append(s, x)
<1>2. /\ q \in Seq(Nat) /\ Len(q) = Len(s) + 1 /\ q[Len(s) + 1] = x
      /\ \A n \in 1..Len(s) : q[n] = s[n]
  BY <1>1
<1>. HIDE DEF q
<1>3. CASE Len(s) < HistoryCap
  <2>1. Latest(q) = q /\ Len(s) # HistoryCap
    BY <1>1, <1>2, <1>3 DEF Latest
  <2>2. q # <<>>
    BY <1>1, <1>2
  <2>. QED
    BY <1>1, <1>2, <2>1, <2>2 DEF Continues, q
<1>4. CASE Len(s) = HistoryCap
  <2>1. Latest(q) = SubSeq(q, 2, Len(q)) /\ Len(q) = HistoryCap + 1
    <3>1. Len(q) = HistoryCap + 1
      BY <1>1, <1>2, <1>4
    <3>2. Len(q) > HistoryCap /\ Len(q) - HistoryCap + 1 = 2
      BY <1>1, <3>1
    <3>. QED
      BY <3>1, <3>2 DEF Latest
  <2>2. /\ Len(Latest(q)) = HistoryCap
        /\ \A n \in 1..HistoryCap : Latest(q)[n] = q[n + 1]
    BY <1>1, <1>2, <2>1
  <2>3. \A n \in 2..Len(s) : Latest(q)[n - 1] = s[n]
    BY <1>1, <1>2, <1>4, <2>2
  <2>4. Latest(q)[HistoryCap] = x /\ Latest(q) # <<>>
    BY <1>1, <1>2, <1>4, <2>2
  <2>. QED
    BY <1>1, <1>4, <2>2, <2>3, <2>4 DEF Continues, q
<1>. QED
  BY <1>1, <1>3, <1>4

\* An observation as it reaches the merger: dated, with the name its source gave, and with
\* a TTL only of an answer to ping.
Genuine(u) ==
    /\ u \in Update /\ u.time >= 1
    /\ u.ttl > 0 => u.measured
    /\ u.source = "mdns" => u.name \in NamesFrom("mdns")

LEMMA StampedGenuine ==
    ASSUME NEW o \in Observation, NEW t \in 1..MaxTime
    PROVE  Genuine(Stamped(o, t))
<1>1. Stamped(o, t) \in Update
  BY TimingAssumption, StampedType
<1>2. /\ Stamped(o, t).source = o.source /\ Stamped(o, t).name = o.name
      /\ Stamped(o, t).ttl = o.ttl /\ Stamped(o, t).measured = o.measured
      /\ Stamped(o, t).time = t
  BY DEF Stamped
<1>. QED
  BY <1>1, <1>2, TimingAssumption, ObservationAssumption DEF Genuine, NamesFrom

\* An observation adds to what is known of its device.
LEMMA ObservedKeeps ==
    ASSUME NEW d \in Device, Sound(d), NEW u, Genuine(u), NEW c \in BOOLEAN
    PROVE  Keeps(d, Observed(d, u, c))
<1>. DEFINE e == Observed(d, u, c)
<1>1. /\ e.firstSeen = IF d.firstSeen = Never THEN u.time ELSE d.firstSeen
      /\ e.lastSeen = IF u.source # "arp-seed" /\ u.time > d.lastSeen
                      THEN u.time ELSE d.lastSeen
      /\ e.services = d.services \cup u.services
      /\ e.ttl = IF u.ttl > 0 THEN u.ttl ELSE d.ttl
      /\ e.nbns = IF u.nbns THEN TRUE ELSE d.nbns
      /\ e.rtt = IF Measured(u) THEN u.rtt ELSE d.rtt
      /\ e.rtts = IF Measured(u) THEN Latest(Append(d.rtts, u.rtt)) ELSE d.rtts
      /\ e.name = IF NamedBy(d, u) THEN u.name ELSE d.name
      /\ e.nameSource = IF NamedBy(d, u) THEN u.source ELSE d.nameSource
  BY DEF Observed
<1>. HIDE DEF e
<1>2. /\ u.time \in Nat /\ u.ttl \in TTL \cup {0} /\ u.rtt \in Nat
      /\ d.rtts \in History /\ d.lastSeen \in Nat /\ d.firstSeen \in Nat
  BY DEF Genuine, Update, Device
<1>3. SightingsFrom(d, e) /\ e.firstSeen # Never
  BY <1>1, <1>2 DEF SightingsFrom, Sound
<1>4. EvidenceFrom(d, e)
  <2>1. d.rtts # <<>> => e.rtts # <<>>
    BY <1>1, <1>2, LatestContinues
  <2>2. d.ttl # 0 => e.ttl # 0
    BY <1>1, <1>2
  <2>. QED
    BY <1>1, <2>1, <2>2 DEF EvidenceFrom
<1>5. /\ NameFrom(d, e)
      /\ e.nameSource = "mdns" => e.name # None /\ e.name \in NamesFrom("mdns")
  BY <1>1 DEF NameFrom, Sound, NamedBy, Genuine
<1>6. PingIsWhole(e)
  <2>1. CASE Measured(u)
    <3>1. e.rtts # <<>> /\ e.rtts[Len(e.rtts)] = u.rtt /\ e.rtt = u.rtt
      BY <1>1, <1>2, <2>1, LatestContinues
    <3>. QED
      BY <3>1 DEF PingIsWhole
  <2>2. CASE ~Measured(u)
    <3>1. ~(u.ttl > 0)
      BY <2>2 DEF Measured, Genuine
    <3>. QED
      BY <1>1, <2>2, <3>1 DEF Sound, PingIsWhole
  <2>. QED
    BY <2>1, <2>2
<1>. QED
  BY <1>3, <1>4, <1>5, <1>6 DEF Keeps, Sound, e

LEMMA AfterKeeps ==
    ASSUME NEW base \in Device, Sound(base), NEW u, Genuine(u), NEW c \in BOOLEAN,
           NEW f, Scans(f)
    PROVE  Keeps(base, After(u, base, c, f))
<1>. DEFINE d == Observed(base, u, c)
<1>1. d \in Device /\ After(u, base, c, f) \in Device
  BY ObservedType, AfterType DEF Genuine
<1>2. Keeps(base, d)
  BY ObservedKeeps
<1>. HIDE DEF d
<1>3. Keeps(d, Refreshed(d, f))
  BY <1>1, <1>2, RefreshedFacts, SameFactsKept DEF Keeps
<1>. QED
  BY <1>1, <1>2, <1>3, KeepsThrough DEF After, d

\* The inductive invariant: every entry is sound.
SoundInv ==
    /\ BooksOK /\ OneOwnerPerIP
    /\ \A m \in DOMAIN byMAC : Sound(byMAC[m])
    /\ \A i \in DOMAIN byIP : Sound(byIP[i])

\* No entry forgets: a MAC's goes on, an address's goes on or is folded into its MAC's.
NothingForgotten ==
    /\ \A m \in DOMAIN byMAC : m \in DOMAIN byMAC' /\ Keeps(byMAC[m], byMAC'[m])
    /\ \A i \in DOMAIN byIP :
          \/ i \in DOMAIN byIP' /\ Keeps(byIP[i], byIP'[i])
          \/ /\ i \notin DOMAIN byIP'
             /\ \E m \in DOMAIN byMAC' : i \in byMAC'[m].ips /\ Keeps(byIP[i], byMAC'[m])

LEMMA IdentifiedForgetsNothing ==
    ASSUME SoundInv, NEW u, Genuine(u), Identified(u)
    PROVE  NothingForgotten /\ Sound(byMAC'[u.mac])
<1>1. BooksOK /\ OneOwnerPerIP /\ u \in Update /\ u.time \in Nat /\ u.time >= 1
  BY DEF SoundInv, Genuine, Update
<1>. DEFINE f == Scanned(Kept(u), u)
            c == Created(u)
<1>2. /\ Base(u) \in Device /\ Scans(f) /\ c \in BOOLEAN
      /\ BooksOK'
      /\ DOMAIN byMAC' = DOMAIN byMAC \cup {u.mac}
      /\ byMAC'[u.mac] = After(u, Base(u), c, f)
      /\ DOMAIN byIP' = DOMAIN byIP \ {u.ip}
      /\ \A i \in DOMAIN byIP' : byIP'[i] = byIP[i]
  BY <1>1, IdentifiedEffect DEF Created
<1>3. /\ \A m \in DOMAIN byMAC : byMAC[m] \in Device /\ Sound(byMAC[m])
      /\ \A i \in DOMAIN byIP : byIP[i] \in Device /\ Sound(byIP[i])
  BY DEF SoundInv, BooksOK
<1>4. Found(u) \in Device /\ Sound(Found(u))
  BY <1>1, <1>3, NewDeviceType, NewDeviceSound DEF Found
<1>5. /\ Keeps(Found(u), Base(u))
      /\ u.ip \in DOMAIN byIP => Keeps(byIP[u.ip], Base(u))
  <2>1. CASE u.ip \in DOMAIN byIP
    BY <1>3, <1>4, <2>1, FoldKeeps DEF Base
  <2>2. CASE u.ip \notin DOMAIN byIP
    BY <1>4, <2>2, KeepsItself DEF Base
  <2>. QED
    BY <2>1, <2>2
<1>. HIDE DEF f, c
<1>6. Keeps(Base(u), byMAC'[u.mac]) /\ byMAC'[u.mac] \in Device
  <2>1. Sound(Base(u))
    BY <1>5 DEF Keeps
  <2>. QED
    BY <1>1, <1>2, <2>1, AfterKeeps, AfterType
<1>7. ASSUME NEW m \in DOMAIN byMAC PROVE m \in DOMAIN byMAC' /\ Keeps(byMAC[m], byMAC'[m])
  <2>1. CASE m = u.mac
    <3>1. Found(u) = byMAC[m]
      BY <2>1 DEF Found
    <3>. QED
      BY <1>2, <1>4, <1>5, <1>6, <2>1, <3>1, KeepsThrough
  <2>2. CASE m # u.mac
    BY <1>1, <1>2, <1>3, <2>2, IdentifiedBooks, RefreshedFacts, SameFactsKept, KeepsItself
  <2>. QED
    BY <2>1, <2>2
<1>8. ASSUME NEW i \in DOMAIN byIP
      PROVE  \/ i \in DOMAIN byIP' /\ Keeps(byIP[i], byIP'[i])
             \/ /\ i \notin DOMAIN byIP'
                /\ \E m \in DOMAIN byMAC' : i \in byMAC'[m].ips /\ Keeps(byIP[i], byMAC'[m])
  <2>1. CASE i = u.ip
    <3>1. u.ip # None
      BY <1>1, <2>1 DEF BooksOK
    <3>2. u.ip \in byMAC'[u.mac].ips
      BY <1>1, <3>1, IdentifiedOwners
    <3>3. Keeps(byIP[i], byMAC'[u.mac])
      BY <1>2, <1>3, <1>5, <1>6, <2>1, KeepsThrough
    <3>. QED
      BY <1>2, <2>1, <3>2, <3>3
  <2>2. CASE i # u.ip
    BY <1>2, <1>3, <2>2, KeepsItself
  <2>. QED
    BY <2>1, <2>2
<1>. QED
  BY <1>6, <1>7, <1>8 DEF NothingForgotten, Keeps

LEMMA AttributedForgetsNothing ==
    ASSUME SoundInv, NEW u, Genuine(u), u.ip # None, NEW m \in OwnersOf(u.ip),
           Attributed(u, m)
    PROVE  NothingForgotten
<1>1. BooksOK /\ OneOwnerPerIP /\ u \in Update
  BY DEF SoundInv, Genuine
<1>. DEFINE f == Scanned(portsByIP, u)
            c == FALSE
<1>2. /\ m \in DOMAIN byMAC /\ Scans(f) /\ c \in BOOLEAN
      /\ DOMAIN byMAC' = DOMAIN byMAC
      /\ byMAC'[m] = After(u, byMAC[m], c, f)
      /\ \A n \in DOMAIN byMAC \ {m} : byMAC'[n] = byMAC[n]
      /\ byIP' = byIP
  BY <1>1, AttributedEffect
<1>3. /\ \A n \in DOMAIN byMAC : byMAC[n] \in Device /\ Sound(byMAC[n])
      /\ \A i \in DOMAIN byIP : byIP[i] \in Device /\ Sound(byIP[i])
  BY DEF SoundInv, BooksOK
<1>. HIDE DEF f, c
<1>4. Keeps(byMAC[m], byMAC'[m])
  BY <1>2, <1>3, AfterKeeps
<1>. QED
  BY <1>2, <1>3, <1>4, KeepsItself DEF NothingForgotten

LEMMA UnidentifiedForgetsNothing ==
    ASSUME SoundInv, NEW u, Genuine(u), u.ip # None, Unidentified(u)
    PROVE  NothingForgotten /\ Sound(byIP'[u.ip])
<1>1. BooksOK /\ OneOwnerPerIP /\ u \in Update /\ u.time \in Nat /\ u.time >= 1
  BY DEF SoundInv, Genuine, Update
<1>. DEFINE f == Scanned(portsByIP, u)
            created == u.ip \notin DOMAIN byIP
<1>2. /\ AnonBase(u) \in Device /\ Scans(f) /\ created \in BOOLEAN
      /\ DOMAIN byIP' = DOMAIN byIP \cup {u.ip}
      /\ byIP'[u.ip] = After(u, AnonBase(u), created, f)
      /\ \A i \in DOMAIN byIP \ {u.ip} : byIP'[i] = byIP[i]
      /\ byMAC' = byMAC
  BY <1>1, UnidentifiedEffect
<1>3. /\ \A n \in DOMAIN byMAC : byMAC[n] \in Device /\ Sound(byMAC[n])
      /\ \A i \in DOMAIN byIP : byIP[i] \in Device /\ Sound(byIP[i])
  BY DEF SoundInv, BooksOK
<1>4. Sound(AnonBase(u))
  BY <1>1, <1>3, NewDeviceSound DEF AnonBase
<1>. HIDE DEF f, created
<1>5. Keeps(AnonBase(u), byIP'[u.ip])
  BY <1>2, <1>4, AfterKeeps
<1>6. u.ip \in DOMAIN byIP => Keeps(byIP[u.ip], byIP'[u.ip])
  BY <1>5 DEF AnonBase
<1>7. \A i \in DOMAIN byIP : i \in DOMAIN byIP' /\ Keeps(byIP[i], byIP'[i])
  BY <1>2, <1>3, <1>6, KeepsItself
<1>. QED
  BY <1>2, <1>3, <1>5, <1>7, KeepsItself DEF NothingForgotten, Keeps

\* No step forgets, and every entry it leaves is sound.
LEMMA StepForgetsNothing ==
    ASSUME SoundInv, TypeOK, [Next]_vars
    PROVE  NothingForgotten /\ SoundInv'
<1>1. BooksOK /\ OneOwnerPerIP /\ BooksOK' /\ OneOwnerPerIP'
  BY TypeOKStep, OneOwnerStep DEF SoundInv, TypeOK
<1>2. /\ \A n \in DOMAIN byMAC : byMAC[n] \in Device /\ Sound(byMAC[n])
      /\ \A i \in DOMAIN byIP : byIP[i] \in Device /\ Sound(byIP[i])
  BY <1>1 DEF SoundInv, BooksOK
<1>3. ASSUME NEW o \in Observation, NEW t \in 1..MaxTime, HandleUpdate(o, t)
      PROVE  /\ NothingForgotten
             /\ \A n \in DOMAIN byMAC' \ DOMAIN byMAC : Sound(byMAC'[n])
             /\ \A i \in DOMAIN byIP' \ DOMAIN byIP : Sound(byIP'[i])
  <2>1. PICK u \in Update :
          /\ u = Stamped(o, t)
          /\ \/ Identified(u)
             \/ u.ip # None /\ \E m \in OwnersOf(u.ip) : Attributed(u, m)
             \/ u.ip # None /\ Unidentified(u)
    BY <1>3, HandleUpdateCases
  <2>2. Genuine(u)
    BY <2>1, StampedGenuine
  <2>3. CASE Identified(u)
    <3>1. DOMAIN byMAC' = DOMAIN byMAC \cup {u.mac} /\ DOMAIN byIP' \subseteq DOMAIN byIP
      BY <1>1, <2>3, IdentifiedEffect
    <3>. QED
      BY <2>2, <2>3, <3>1, IdentifiedForgetsNothing
  <2>4. ASSUME u.ip # None, NEW m \in OwnersOf(u.ip), Attributed(u, m)
        PROVE  NothingForgotten /\ DOMAIN byMAC' = DOMAIN byMAC /\ byIP' = byIP
    BY <1>1, <2>2, <2>4, AttributedForgetsNothing, AttributedOwners
  <2>5. CASE u.ip # None /\ Unidentified(u)
    <3>1. byMAC' = byMAC /\ DOMAIN byIP' = DOMAIN byIP \cup {u.ip}
      BY <1>1, <2>5, UnidentifiedEffect
    <3>. QED
      BY <2>2, <2>5, <3>1, UnidentifiedForgetsNothing
  <2>. QED
    BY <2>1, <2>3, <2>4, <2>5
<1>4. ASSUME NEW t \in 1..MaxTime, Sweep(t)
      PROVE  /\ NothingForgotten
             /\ DOMAIN byMAC' = DOMAIN byMAC /\ DOMAIN byIP' = DOMAIN byIP
  <2>1. /\ DOMAIN byMAC' = DOMAIN byMAC /\ DOMAIN byIP' = DOMAIN byIP
        /\ \A m \in DOMAIN byMAC : byMAC'[m] = Aged(byMAC[m], t)
        /\ \A i \in DOMAIN byIP : byIP'[i] = Aged(byIP[i], t)
    BY <1>1, <1>4, SweepEffect
  <2>2. ASSUME NEW d \in Device, Sound(d) PROVE Keeps(d, Aged(d, t))
    BY <2>2, RefreshedFacts, SameFactsKept
  <2>3. /\ \A m \in DOMAIN byMAC : Keeps(byMAC[m], byMAC'[m])
        /\ \A i \in DOMAIN byIP : Keeps(byIP[i], byIP'[i])
    BY <1>2, <2>1, <2>2
  <2>4. DOMAIN byMAC' = DOMAIN byMAC /\ DOMAIN byIP' = DOMAIN byIP
    BY <2>1
  <2>5. NothingForgotten
    BY <2>3, <2>4 DEF NothingForgotten
  <2>. QED
    BY <2>4, <2>5
<1>5. ASSUME UNCHANGED books
      PROVE  /\ NothingForgotten
             /\ DOMAIN byMAC' = DOMAIN byMAC /\ DOMAIN byIP' = DOMAIN byIP
  BY <1>2, <1>5, KeepsItself DEF books, NothingForgotten
<1>6. /\ NothingForgotten
      /\ \A n \in DOMAIN byMAC' \ DOMAIN byMAC : Sound(byMAC'[n])
      /\ \A i \in DOMAIN byIP' \ DOMAIN byIP : Sound(byIP'[i])
  BY <1>3, <1>4, <1>5
  DEF Next, vars, SendLeft, AbandonSends, Stop, Tick, Receive, Cancel
<1>. QED
  BY <1>1, <1>6 DEF SoundInv, NothingForgotten, Keeps

\* Seen through the live map: the entry under a key goes on under that key, or is its MAC's.
LEMMA EntriesKeep ==
    ASSUME BooksOK, BooksOK', OneOwnerPerIP', NothingForgotten, NEW k \in Devices
    PROVE  Keeps(Entry(k), Entry(k)')
<1>1. DOMAIN byMAC \cap DOMAIN byIP = {} /\ DOMAIN byMAC' \cap IP = {} /\ DOMAIN byIP \subseteq IP
  BY DEF BooksOK
<1>2. CASE k \in DOMAIN byMAC
  BY <1>2 DEF NothingForgotten, Entry
<1>3. CASE k \in DOMAIN byIP
  <2>1. k \notin DOMAIN byMAC /\ k \notin DOMAIN byMAC' /\ Entry(k) = byIP[k]
    BY <1>1, <1>3 DEF Entry
  <2>2. CASE k \in DOMAIN byIP'
    BY <1>3, <2>1, <2>2 DEF NothingForgotten, Entry
  <2>3. CASE k \notin DOMAIN byIP'
    <3>1. PICK m \in DOMAIN byMAC' : k \in byMAC'[m].ips /\ Keeps(byIP[k], byMAC'[m])
      BY <1>3, <2>3 DEF NothingForgotten
    <3>2. OwnersOf(k)' = {m}
      BY <3>1 DEF OwnersOf, OneOwnerPerIP
    <3>3. TheOwner({m}) = m
      BY DEF TheOwner
    <3>4. Entry(k)' = byMAC'[m]
      BY <2>1, <2>3, <3>2, <3>3 DEF Entry
    <3>. QED
      BY <2>1, <3>1, <3>4
  <2>. QED
    BY <2>2, <2>3
<1>. QED
  BY <1>2, <1>3 DEF Devices

----------------------------------------------------------------------------
(* Histories of round trips *)

LEMMA AfterContinues ==
    ASSUME NEW base \in Device, NEW u \in Update, NEW c \in BOOLEAN, NEW f, Scans(f)
    PROVE  Continues(After(u, base, c, f).rtts, base.rtts)
<1>. DEFINE d == Observed(base, u, c)
<1>1. d \in Device
  BY ObservedType
<1>2. d.rtts = IF Measured(u) THEN Latest(Append(base.rtts, u.rtt)) ELSE base.rtts
  BY DEF Observed
<1>. HIDE DEF d
<1>3. Refreshed(d, f).rtts = d.rtts
  BY <1>1, RefreshedFacts DEF SameFacts
<1>4. base.rtts \in History /\ u.rtt \in Nat
  BY DEF Device, Update
<1>5. Continues(d.rtts, base.rtts)
  <2>1. CASE Measured(u)
    BY <1>2, <1>4, <2>1, LatestContinues
  <2>2. CASE ~Measured(u)
    BY <1>2, <2>2 DEF Continues
  <2>. QED
    BY <2>1, <2>2
<1>. QED
  BY <1>3, <1>5 DEF After, d

\* Where there is a history, it goes on.
RoundTripsFrom(old, new) == old.rtts # <<>> => Continues(new.rtts, old.rtts)

HistoriesContinue ==
    /\ \A m \in DOMAIN byMAC : RoundTripsFrom(byMAC[m], byMAC'[m])
    /\ \A i \in DOMAIN byIP \cap DOMAIN byIP' : RoundTripsFrom(byIP[i], byIP'[i])

LEMMA SameContinues ==
    ASSUME NEW d, NEW e, e.rtts = d.rtts
    PROVE  RoundTripsFrom(d, e)
BY DEF RoundTripsFrom, Continues

LEMMA UpdateContinues ==
    ASSUME BooksOK, NEW u \in Update,
           \/ Identified(u)
           \/ u.ip # None /\ \E m \in OwnersOf(u.ip) : Attributed(u, m)
           \/ u.ip # None /\ Unidentified(u)
    PROVE  HistoriesContinue
<1>1. /\ \A m \in DOMAIN byMAC : byMAC[m] \in Device
      /\ \A i \in DOMAIN byIP : byIP[i] \in Device
  BY DEF BooksOK
<1>2. CASE Identified(u)
  <2>1. /\ Base(u) \in Device /\ Scans(Scanned(Kept(u), u)) /\ Created(u) \in BOOLEAN
        /\ byMAC'[u.mac] = After(u, Base(u), Created(u), Scanned(Kept(u), u))
        /\ \A i \in DOMAIN byIP' : byIP'[i] = byIP[i]
    BY <1>2, IdentifiedEffect DEF Created
  <2>2. Continues(byMAC'[u.mac].rtts, Base(u).rtts)
    BY <2>1, AfterContinues
  <2>3. ASSUME NEW m \in DOMAIN byMAC PROVE RoundTripsFrom(byMAC[m], byMAC'[m])
    <3>1. CASE m = u.mac
      <4>1. byMAC[m].rtts # <<>> => Base(u).rtts = byMAC[m].rtts
        BY <3>1 DEF Base, Found, Fold, HasRTT
      <4>. QED
        BY <2>2, <3>1, <4>1 DEF RoundTripsFrom
    <3>2. CASE m # u.mac
      <4>1. byMAC'[m] = byMAC[m] \/ byMAC'[m] = Relieved(byMAC[m], u.ip, Kept(u))
        BY <1>2, <3>2, IdentifiedBooks
      <4>2. byMAC'[m].rtts = byMAC[m].rtts
        BY <1>1, <4>1, RefreshedFacts DEF SameFacts
      <4>. QED
        BY <4>2, SameContinues
    <3>. QED
      BY <3>1, <3>2
  <2>. QED
    BY <2>1, <2>3, SameContinues DEF HistoriesContinue
<1>3. ASSUME u.ip # None, NEW m \in OwnersOf(u.ip), Attributed(u, m) PROVE HistoriesContinue
  <2>1. /\ m \in DOMAIN byMAC /\ Scans(Scanned(portsByIP, u))
        /\ byMAC'[m] = After(u, byMAC[m], FALSE, Scanned(portsByIP, u))
        /\ \A n \in DOMAIN byMAC \ {m} : byMAC'[n] = byMAC[n]
        /\ byIP' = byIP
    BY <1>3, AttributedEffect
  <2>2. RoundTripsFrom(byMAC[m], byMAC'[m])
    BY <1>1, <2>1, AfterContinues DEF RoundTripsFrom
  <2>. QED
    BY <2>1, <2>2, SameContinues DEF HistoriesContinue
<1>4. CASE u.ip # None /\ Unidentified(u)
  <2>1. /\ AnonBase(u) \in Device /\ Scans(Scanned(portsByIP, u))
        /\ byIP'[u.ip] = After(u, AnonBase(u), u.ip \notin DOMAIN byIP, Scanned(portsByIP, u))
        /\ \A i \in DOMAIN byIP \ {u.ip} : byIP'[i] = byIP[i]
        /\ byMAC' = byMAC
    BY <1>4, UnidentifiedEffect
  <2>2. Continues(byIP'[u.ip].rtts, AnonBase(u).rtts)
    BY <2>1, AfterContinues
  <2>3. u.ip \in DOMAIN byIP => RoundTripsFrom(byIP[u.ip], byIP'[u.ip])
    BY <2>2 DEF AnonBase, RoundTripsFrom
  <2>. QED
    BY <2>1, <2>3, SameContinues DEF HistoriesContinue
<1>. QED
  BY <1>2, <1>3, <1>4

LEMMA HistoriesStep ==
    ASSUME BooksOK, [Next]_vars
    PROVE  HistoriesContinue
<1>1. ASSUME NEW o \in Observation, NEW t \in 1..MaxTime, HandleUpdate(o, t)
      PROVE  HistoriesContinue
  BY <1>1, HandleUpdateCases, UpdateContinues
<1>2. ASSUME NEW t \in 1..MaxTime, Sweep(t) PROVE HistoriesContinue
  <2>1. /\ \A m \in DOMAIN byMAC : byMAC'[m] = Aged(byMAC[m], t)
        /\ \A i \in DOMAIN byIP : byIP'[i] = Aged(byIP[i], t)
    BY <1>2, SweepEffect
  <2>2. ASSUME NEW d \in Device PROVE Aged(d, t).rtts = d.rtts
    BY <2>2, RefreshedFacts DEF SameFacts
  <2>. QED
    BY <2>1, <2>2, SameContinues DEF HistoriesContinue, BooksOK
<1>3. ASSUME UNCHANGED books PROVE HistoriesContinue
  BY <1>3, SameContinues DEF books, HistoriesContinue
<1>. QED
  BY <1>1, <1>2, <1>3
  DEF Next, vars, SendLeft, AbandonSends, Stop, Tick, Receive, Cancel

\* Seen through the live map.
LEMMA EntriesContinue ==
    ASSUME BooksOK, BooksOK', NothingForgotten, HistoriesContinue, NEW k \in Devices,
           k \in DOMAIN byMAC \cup DOMAIN byIP'
    PROVE  RoundTripsFrom(Entry(k), Entry(k)')
<1>1. DOMAIN byMAC \cap DOMAIN byIP = {} /\ DOMAIN byMAC' \cap IP = {} /\ DOMAIN byIP \subseteq IP
      /\ DOMAIN byIP' \subseteq IP
  BY DEF BooksOK
<1>2. CASE k \in DOMAIN byMAC
  BY <1>2 DEF NothingForgotten, HistoriesContinue, Entry
<1>3. CASE k \in DOMAIN byIP /\ k \in DOMAIN byIP'
  BY <1>1, <1>3 DEF HistoriesContinue, Entry
<1>. QED
  BY <1>1, <1>2, <1>3 DEF Devices

----------------------------------------------------------------------------
(* The theorems about what is kept *)

LEMMA EntriesKeepStep ==
    TypeOK /\ SoundInv /\ [Next]_vars => SoundInv' /\ \A k \in Devices : Keeps(Entry(k), Entry(k)')
BY StepForgetsNothing, EntriesKeep DEF SoundInv

LEMMA AlwaysSound == Spec => []SoundInv
<1>1. Init => SoundInv
  BY TypeOKInit DEF Init, TypeOK, SoundInv, OneOwnerPerIP
<1>2. TypeOK /\ SoundInv /\ [Next]_vars => SoundInv'
  BY EntriesKeepStep
<1>. QED
  BY <1>1, <1>2, TypeCorrect, PTL DEF Spec

\* No observation, however late, and no fold of an IP-only entry makes a device look newer
\* to the network, or idle for longer, than it is.
THEOREM SightingsAreKept == Spec => SightingsKept
<1>1. TypeOK /\ SoundInv /\ [Next]_vars =>
        [\A k \in Devices : /\ Entry(k)'.firstSeen <= Entry(k).firstSeen
                            /\ Entry(k)'.lastSeen >= Entry(k).lastSeen]_vars
  BY EntriesKeepStep DEF Keeps, SightingsFrom
<1>. QED
  BY <1>1, TypeCorrect, AlwaysSound, PTL DEF Spec, SightingsKept

\* No step and no fold loses the evidence the OS guess is made from, or a round trip of a
\* device that is not the eldest of a full history.
THEOREM EvidenceIsKept == Spec => EvidenceKept
<1>1. TypeOK /\ SoundInv /\ [Next]_vars =>
        [\A k \in Devices :
            LET old == Entry(k)
                new == Entry(k)'
            IN  /\ old.services \subseteq new.services
                /\ old.ttl # 0 => new.ttl # 0
                /\ old.nbns => new.nbns
                /\ PingIsWhole(new)
                /\ old.rtts # <<>> =>
                      /\ new.rtts # <<>>
                      /\ k \in DOMAIN byMAC \cup DOMAIN byIP' =>
                            Continues(new.rtts, old.rtts)]_vars
  <2>. SUFFICES ASSUME TypeOK, SoundInv, [Next]_vars, NEW k \in Devices
       PROVE  /\ EvidenceFrom(Entry(k), Entry(k)') /\ PingIsWhole(Entry(k)')
              /\ k \in DOMAIN byMAC \cup DOMAIN byIP' => RoundTripsFrom(Entry(k), Entry(k)')
    BY DEF EvidenceFrom, RoundTripsFrom
  <2>1. EvidenceFrom(Entry(k), Entry(k)') /\ PingIsWhole(Entry(k)')
    BY EntriesKeepStep DEF Keeps, Sound
  <2>2. NothingForgotten /\ HistoriesContinue /\ BooksOK /\ BooksOK'
    BY StepForgetsNothing, HistoriesStep DEF SoundInv
  <2>. QED
    BY <2>1, <2>2, EntriesContinue
<1>. QED
  BY <1>1, TypeCorrect, AlwaysSound, PTL DEF Spec, EvidenceKept

\* A name that a device announced itself gives way to no guess, through folds too.
THEOREM MDNSNamesStick == Spec => MDNSNameSticks
<1>1. TypeOK /\ SoundInv /\ [Next]_vars =>
        [\A k \in Devices : Entry(k).nameSource = "mdns" =>
            Entry(k)'.nameSource = "mdns" /\ Entry(k)'.name \in NamesFrom("mdns")]_vars
  BY EntriesKeepStep DEF Keeps, NameFrom
<1>. QED
  BY <1>1, TypeCorrect, AlwaysSound, PTL DEF Spec, MDNSNameSticks
=============================================================================
