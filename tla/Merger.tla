------------------------------- MODULE Merger -------------------------------
(***************************************************************************)
(* The merger of internal/scanner/merger.go: the one goroutine that turns  *)
(* the workers' observations into the live device map, ages the devices,   *)
(* and announces what it does on the events channel.                       *)
(*                                                                         *)
(* A step is one critical section of m.mu, or one channel operation of the *)
(* goroutine.  Lists whose order only matters for display (a device's IPs, *)
(* services and ports) are sets; the strings of the program are members of *)
(* small sets, and "" (None) is the empty string or the nil IP, as in Go.  *)
(***************************************************************************)
EXTENDS Naturals, Sequences, FiniteSets

CONSTANTS
    MAC, IP,            \* hardware addresses, IP addresses
    Name, Vendor,       \* host names, OUI vendors
    Service, Port,      \* mDNS service instances, open ports
    TTL,                \* the TTLs a ping reply can carry
    OSName,             \* the guesses OSDetect can return, None included
    OSDetect,           \* probe.OSDetect: evidence about a device -> OSName
    Observation,        \* what the workers can report, without its time stamp
    StaleAfter,         \* Online -> Stale after this idle time
    LeftAfter,          \* Stale -> Offline after this idle time
    HistoryCap,         \* length of the RTT history (10 in the code)
    Capacity,           \* buffer of the events channel (256 in the code)
    MaxLag,             \* bound: age of an observation or tick when handled
    MaxTime             \* bound: the last instant of the model's clock

None  == ""
Never == 0              \* the zero time.Time; the clock starts at 1

Source == {"arp-seed", "arp", "mdns", "active"}
Status == {"Online", "Stale", "Offline"}
Type   == {"Joined", "Updated", "Left"}
Key    == MAC \cup IP
Event  == [type : Type, key : Key]

\* Update of internal/scanner/interfaces.go; measured is its RTTMeasured.
ObservationType ==
    [source : Source, mac : MAC \cup {None}, ip : IP \cup {None},
     name : Name \cup {None}, vendor : Vendor \cup {None},
     services : SUBSET Service, ports : SUBSET Port, rtt : Nat,
     measured : BOOLEAN, ttl : TTL \cup {0}, nbns : BOOLEAN]

\* What the OS guess is made from.
Evidence ==
    [vendor : Vendor \cup {None}, services : SUBSET Service,
     ports : SUBSET Port, ttl : TTL \cup {0}, nbns : BOOLEAN]

History == {s \in Seq(Nat) : Len(s) <= HistoryCap}

Device ==
    [ips : SUBSET IP, name : Name \cup {None}, nameSource : Source \cup {None},
     vendor : Vendor \cup {None}, services : SUBSET Service,
     ports : SUBSET Port, os : OSName, status : Status,
     firstSeen : Nat, lastSeen : Nat, rtt : Nat, rtts : History,
     ttl : TTL \cup {0}, nbns : BOOLEAN]

ASSUME NamesAssumption ==
    /\ None \notin MAC \cup IP \cup Name \cup Vendor
    /\ MAC \cap IP = {}
    /\ None \in OSName
    /\ TTL \subseteq Nat

ASSUME OSDetectAssumption == OSDetect \in [Evidence -> OSName]

\* Only arp.go and arp_seed*.go know a MAC, only active.go scans ports, and the TTL and
\* the round trip are those of one reply to its ping (active.go:136-138 and :167-169).
ASSUME ObservationAssumption ==
    /\ Observation \subseteq ObservationType
    /\ \A o \in Observation :
          /\ o.mac # None \/ o.ip # None
          /\ o.source = "arp-seed" => o.mac # None
          /\ o.mac # None => o.source \in {"arp-seed", "arp"}
          /\ o.source # "active" => o.ports = {}
          /\ o.ttl > 0 \/ o.rtt > 0 => o.measured

\* An observation is handled before it is older than StaleAfter.
ASSUME TimingAssumption ==
    /\ StaleAfter \in Nat /\ LeftAfter \in Nat /\ MaxLag \in Nat
    /\ MaxTime \in Nat /\ MaxTime >= 1
    /\ StaleAfter < LeftAfter
    /\ MaxLag <= StaleAfter

ASSUME BufferAssumption == Capacity \in Nat \ {0} /\ HistoryCap \in Nat \ {0}

VARIABLES
    byMAC,      \* MAC -> Device, a partial function
    byIP,       \* IP -> Device for hosts whose MAC is not known yet
    portsByIP,  \* IP -> the open ports its latest scan found
    now,        \* the clock
    swept,      \* the tick of the last status sweep
    seeding,    \* no worker has reported yet: only cached neighbours arrive
    pending,    \* keys of the sweep's Left events that are not sent yet
    out,        \* the buffered events channel
    gone,       \* keys whose latest event the consumer received is Left
    cancelled,  \* ctx is done
    running     \* Run has not returned

books   == <<byMAC, byIP, portsByIP>>
channel == <<out, gone>>
vars    == <<books, now, swept, seeding, pending, channel, cancelled, running>>

----------------------------------------------------------------------------
(* Devices *)

NewDevice(t) ==
    [ips |-> {}, name |-> None, nameSource |-> None, vendor |-> None,
     services |-> {}, ports |-> {}, os |-> None, status |-> "Online",
     firstSeen |-> t, lastSeen |-> Never, rtt |-> 0, rtts |-> <<>>, ttl |-> 0,
     nbns |-> FALSE]

Without(f, x) == [y \in DOMAIN f \ {x} |-> f[y]]

Latest(s) == IF Len(s) > HistoryCap
             THEN SubSeq(s, Len(s) - HistoryCap + 1, Len(s)) ELSE s

\* Mutant: a round trip of zero is taken for none.
MeasuredPositive(o) == o.rtt > 0

Measured(o) == o.measured \/ o.rtt > 0

HasRTT(d) == d.rtt > 0 \/ d.rtts # <<>>

\* The union of the latest scans of the addresses in ips.
PortsOf(ips, scans) == UNION {scans[i] : i \in ips \cap DOMAIN scans}

\* refreshPorts: ports and OS guess are derived afresh.
Refreshed(d, scans) ==
    LET ports == PortsOf(d.ips, scans)
    IN  [d EXCEPT !.ports = ports,
                  !.os = OSDetect[[vendor |-> d.vendor, services |-> d.services,
                                   ports |-> ports, ttl |-> d.ttl, nbns |-> d.nbns]]]

\* Mutants: the old owner keeps its ports; it loses all its addresses.
RelievedUnrefreshed(d, ip, scans) == [d EXCEPT !.ips = @ \ {ip}]
RelievedOfAll(d, ip, scans) == Refreshed([d EXCEPT !.ips = {}], scans)

\* The device d after another MAC's claim of ip.
Relieved(d, ip, scans) == Refreshed([d EXCEPT !.ips = @ \ {ip}], scans)

\* Mutant: only an unnamed device takes the folded entry's name.
TakesNameIfUnnamed(dst, src) == src.name # None /\ dst.name = None

\* The rule under which a folded entry's host name replaces dst's.
TakesName(dst, src) ==
    /\ src.name # None
    /\ dst.name = None \/ (src.nameSource = "mdns" /\ dst.nameSource # "mdns")

\* Mutant: the fold moves nothing but the addresses.
FoldAddressesOnly(dst, src) == [dst EXCEPT !.ips = @ \cup src.ips]

\* mergeFromIPOnly, with the host name rule that precedes its call.
Fold(dst, src) ==
    LET newer == src.lastSeen > dst.lastSeen
    IN  [ips |-> dst.ips \cup src.ips,
         name |-> IF TakesName(dst, src) THEN src.name ELSE dst.name,
         nameSource |-> IF TakesName(dst, src) THEN src.nameSource ELSE dst.nameSource,
         vendor |-> dst.vendor,
         services |-> dst.services \cup src.services,
         ports |-> dst.ports,
         os |-> IF dst.os = None THEN src.os ELSE dst.os,
         status |-> IF newer THEN src.status ELSE dst.status,
         firstSeen |-> IF src.firstSeen < dst.firstSeen \/ dst.firstSeen = Never
                       THEN src.firstSeen ELSE dst.firstSeen,
         lastSeen |-> IF newer THEN src.lastSeen ELSE dst.lastSeen,
         rtt |-> IF HasRTT(dst) THEN dst.rtt ELSE src.rtt,
         rtts |-> IF HasRTT(dst) THEN dst.rtts ELSE src.rtts,
         ttl |-> IF dst.ttl = 0 THEN src.ttl ELSE dst.ttl,
         nbns |-> IF src.nbns THEN TRUE ELSE dst.nbns]

NamedBy(d, o) == o.name # None /\ (o.source = "mdns" \/ d.nameSource # "mdns")

\* mergeUpdate, with the seed status and host name rules that precede it.
Observed(d, o, created) ==
    LET fresh == o.source # "arp-seed"
    IN  [ips |-> d.ips \cup ({o.ip} \ {None}),
         name |-> IF NamedBy(d, o) THEN o.name ELSE d.name,
         nameSource |-> IF NamedBy(d, o) THEN o.source ELSE d.nameSource,
         vendor |-> IF o.vendor # None THEN o.vendor ELSE d.vendor,
         services |-> d.services \cup o.services,
         ports |-> d.ports,
         os |-> d.os,
         status |-> IF fresh THEN "Online" ELSE IF created THEN "Stale" ELSE d.status,
         firstSeen |-> IF d.firstSeen = Never THEN o.time ELSE d.firstSeen,
         lastSeen |-> IF fresh /\ o.time > d.lastSeen THEN o.time ELSE d.lastSeen,
         rtt |-> IF Measured(o) THEN o.rtt ELSE d.rtt,
         rtts |-> IF Measured(o) THEN Latest(Append(d.rtts, o.rtt)) ELSE d.rtts,
         ttl |-> IF o.ttl > 0 THEN o.ttl ELSE d.ttl,
         nbns |-> IF o.nbns THEN TRUE ELSE d.nbns]

\* The scans on file once observation o is: an active probe replaces its address's.
Scanned(scans, o) ==
    IF o.ip # None /\ o.source = "active"
    THEN [i \in DOMAIN scans \cup {o.ip} |-> IF i = o.ip THEN o.ports ELSE scans[i]]
    ELSE scans

\* findInMACByIP
OwnersOf(ip) == {m \in DOMAIN byMAC : ip \in byMAC[m].ips}

\* Mutant: the first sighting of a cached neighbour is a refresh.
EventTypeNoFirst(dev, created) ==
    IF created \/ dev.status = "Offline" THEN "Joined" ELSE "Updated"

\* The event about dev, the device as it was before o was applied to it.
EventType(dev, created) ==
    IF created \/ dev.status = "Offline" \/ dev.lastSeen = Never
    THEN "Joined" ELSE "Updated"

\* The non-blocking send: the event is dropped when the consumer lags.
Announce(o, key, dev, created) ==
    out' = IF o.source = "arp-seed" \/ Len(out) >= Capacity THEN out
           ELSE Append(out, [type |-> EventType(dev, created), key |-> key])

----------------------------------------------------------------------------
(* handleUpdate *)

\* Mutant: the address is not taken from its old owner.
LosersNone(o) == {}

\* The devices that lose o's address to its MAC.
Losers(o) == OwnersOf(o.ip) \ {o.mac}

\* Mutant: the old owner's scan stays on file.
KeptAll(o) == portsByIP

\* The scans on file once o's address is its MAC's: the old owner's is dropped.
Kept(o) == IF Losers(o) = {} THEN portsByIP ELSE Without(portsByIP, o.ip)

\* An observation with a MAC: the address moves to it, an IP-only entry is folded in.
Identified(o) ==
    LET known   == o.mac \in DOMAIN byMAC
        folding == o.ip \in DOMAIN byIP
        found   == IF known THEN byMAC[o.mac] ELSE NewDevice(o.time)
        dev     == IF folding THEN Fold(found, byIP[o.ip]) ELSE found
        created == ~known /\ ~folding
        scans   == Scanned(Kept(o), o)
    IN  /\ o.mac # None
        /\ byMAC' = [m \in DOMAIN byMAC \cup {o.mac} |->
               IF m = o.mac THEN Refreshed(Observed(dev, o, created), scans)
               ELSE IF m \in Losers(o)
                    THEN Relieved(byMAC[m], o.ip, Kept(o))
                    ELSE byMAC[m]]
        /\ byIP' = Without(byIP, o.ip)
        /\ portsByIP' = scans
        /\ Announce(o, o.mac, dev, created)

\* No MAC, and the address already belongs to the MAC-keyed device m.
Attributed(o, m) ==
    LET scans == Scanned(portsByIP, o)
    IN  /\ byMAC' = [byMAC EXCEPT
                        ![m] = Refreshed(Observed(@, o, FALSE), scans)]
        /\ portsByIP' = scans
        /\ Announce(o, m, byMAC[m], FALSE)
        /\ UNCHANGED byIP

\* No MAC, and no MAC-keyed device has the address: the IP-only entry.
Unidentified(o) ==
    LET created == o.ip \notin DOMAIN byIP
        dev     == IF created THEN NewDevice(o.time) ELSE byIP[o.ip]
        scans   == Scanned(portsByIP, o)
    IN  /\ OwnersOf(o.ip) = {}
        /\ byIP' = [i \in DOMAIN byIP \cup {o.ip} |->
               IF i = o.ip THEN Refreshed(Observed(dev, o, created), scans)
               ELSE byIP[i]]
        /\ portsByIP' = scans
        /\ Announce(o, o.ip, dev, created)
        /\ UNCHANGED byMAC

\* An observation o, stamped when it was made.
Stamped(o, t) ==
    [source |-> o.source, mac |-> o.mac, ip |-> o.ip, name |-> o.name,
     vendor |-> o.vendor, services |-> o.services, ports |-> o.ports,
     rtt |-> o.rtt, measured |-> o.measured, ttl |-> o.ttl, nbns |-> o.nbns,
     time |-> t]

Recent(t) == t <= now /\ now <= t + MaxLag

\* handleUpdate, called by Run, and by runWorkers' drain after Run has returned.
\* Seeds are stamped at the start and all queued before any worker runs.
HandleUpdate(o, t) ==
    /\ pending = {}
    /\ IF o.source = "arp-seed" THEN seeding /\ t = 1 ELSE Recent(t)
    /\ LET u == Stamped(o, t)
       IN  IF o.mac # None THEN Identified(u)
           ELSE \/ \E m \in OwnersOf(o.ip) : Attributed(u, m)
                \/ Unidentified(u)
    /\ seeding' = (seeding /\ o.source = "arp-seed")
    /\ UNCHANGED <<now, swept, pending, gone, cancelled, running>>

----------------------------------------------------------------------------
(* sweepStatus *)

LeftBy(d, t)  == d.lastSeen # Never /\ d.lastSeen + LeftAfter < t
StaleBy(d, t) == d.lastSeen # Never /\ d.lastSeen + StaleAfter < t

\* Mutant: a sweep moves a device one status further at most.
AgedOneStep(d, t) ==
    [d EXCEPT !.status = IF LeftBy(d, t) /\ @ = "Stale" THEN "Offline"
                         ELSE IF StaleBy(d, t) /\ @ = "Online" THEN "Stale"
                         ELSE @]

Aged(d, t) ==
    [d EXCEPT !.status = IF LeftBy(d, t) THEN "Offline"
                         ELSE IF StaleBy(d, t) /\ @ = "Online" THEN "Stale"
                         ELSE @]

Departing(f, t) == {k \in DOMAIN f : LeftBy(f[k], t) /\ f[k].status # "Offline"}

\* The locked part of the sweep; the tick may have waited in the ticker's channel.
Sweep(t) ==
    /\ running /\ pending = {}
    /\ Recent(t) /\ swept <= t
    /\ byMAC' = [m \in DOMAIN byMAC |-> Aged(byMAC[m], t)]
    /\ byIP' = [i \in DOMAIN byIP |-> Aged(byIP[i], t)]
    /\ pending' = Departing(byMAC, t) \cup Departing(byIP, t)
    /\ swept' = t
    /\ UNCHANGED <<portsByIP, now, seeding, channel, cancelled, running>>

\* The keys whose Left event may be sent next: the MAC-keyed devices come first.
NextToLeave == IF pending \cap MAC # {} THEN pending \cap MAC ELSE pending

\* Mutant: the send does not block, so a departure is dropped when the channel is full.
SendLeftDropping(k) ==
    /\ k \in NextToLeave
    /\ out' = IF Len(out) < Capacity
              THEN Append(out, [type |-> "Left", key |-> k]) ELSE out
    /\ pending' = pending \ {k}
    /\ UNCHANGED <<books, now, swept, seeding, gone, cancelled, running>>

\* One blocking send of the sweep, outside the lock.
SendLeft(k) ==
    /\ k \in NextToLeave
    /\ Len(out) < Capacity
    /\ out' = Append(out, [type |-> "Left", key |-> k])
    /\ pending' = pending \ {k}
    /\ UNCHANGED <<books, now, swept, seeding, gone, cancelled, running>>

\* Mutant: the sweep gives up on a slow consumer.
AbandonSlowConsumer ==
    /\ pending # {} /\ Len(out) = Capacity
    /\ pending' = {}
    /\ UNCHANGED <<books, now, swept, seeding, channel, cancelled, running>>

\* ctx.Done wins the select of a blocked send: the sweep returns early.
AbandonSends ==
    /\ cancelled /\ pending # {}
    /\ pending' = {}
    /\ UNCHANGED <<books, now, swept, seeding, channel, cancelled, running>>

\* ctx.Done wins the select of Run.
Stop ==
    /\ cancelled /\ running /\ pending = {}
    /\ running' = FALSE
    /\ UNCHANGED <<books, now, swept, seeding, pending, channel, cancelled>>

----------------------------------------------------------------------------
(* The environment: the clock, the consumer of the events, the caller *)

Tick ==
    /\ now < MaxTime
    /\ now' = now + 1
    /\ UNCHANGED <<books, swept, seeding, pending, channel, cancelled, running>>

Receive ==
    /\ out # <<>>
    /\ out' = Tail(out)
    /\ gone' = IF Head(out).type = "Left" THEN gone \cup {Head(out).key}
               ELSE gone \ {Head(out).key}
    /\ UNCHANGED <<books, now, swept, seeding, pending, cancelled, running>>

Cancel ==
    /\ ~cancelled
    /\ cancelled' = TRUE
    /\ UNCHANGED <<books, now, swept, seeding, pending, channel, running>>

Init ==
    /\ byMAC = <<>> /\ byIP = <<>> /\ portsByIP = <<>>
    /\ now = 1 /\ swept = 0
    /\ seeding = TRUE
    /\ pending = {} /\ out = <<>> /\ gone = {}
    /\ cancelled = FALSE /\ running = TRUE

Next ==
    \/ \E o \in Observation, t \in 1..MaxTime : HandleUpdate(o, t)
    \/ \E t \in 1..MaxTime : Sweep(t)
    \/ \E k \in Key : SendLeft(k)
    \/ AbandonSends
    \/ Stop
    \/ Tick
    \/ Receive
    \/ Cancel

Spec == Init /\ [][Next]_vars

\* Go's select picks among ready cases at random, so ctx.Done is not passed over
\* for ever.  The consumers (runOnce's drain, the TUI) receive until the end of
\* the session; the TUI stops receiving once the user quits.
Fairness ==
    /\ WF_vars(~cancelled /\ Receive)
    /\ WF_vars(\E k \in Key : SendLeft(k))
    /\ WF_vars(AbandonSends)
    /\ SF_vars(Stop)

FairSpec == Spec /\ Fairness

----------------------------------------------------------------------------
(* Properties *)

TheOwner(S) == CHOOSE m \in S : TRUE

\* Devices : the keys of the live map, and the entry under a key; the entry that
\* holds an address after it was folded into a MAC is the MAC's.
Devices  == DOMAIN byMAC \cup DOMAIN byIP
Entry(k) == IF k \in DOMAIN byMAC THEN byMAC[k]
            ELSE IF k \in DOMAIN byIP THEN byIP[k]
            ELSE byMAC[TheOwner(OwnersOf(k))]

BooksOK ==
    /\ DOMAIN byMAC \subseteq MAC /\ byMAC \in [DOMAIN byMAC -> Device]
    /\ DOMAIN byIP \subseteq IP /\ byIP \in [DOMAIN byIP -> Device]
    /\ DOMAIN portsByIP \subseteq IP
    /\ portsByIP \in [DOMAIN portsByIP -> SUBSET Port]

\* The state has its types, and the RTT history and the channel their limits.
TypeOK ==
    /\ BooksOK
    /\ now \in 1..MaxTime /\ swept \in 0..now
    /\ pending \subseteq Key /\ gone \subseteq Key
    /\ out \in Seq(Event) /\ Len(out) <= Capacity
    /\ seeding \in BOOLEAN /\ cancelled \in BOOLEAN /\ running \in BOOLEAN

\* An address is one MAC's or one IP-only entry's, never both and never two's, so
\* a MAC-less probe (merger.go:164-177) has one device to be attributed to.
OneOwnerPerIP ==
    /\ \A m, n \in DOMAIN byMAC : m # n => byMAC[m].ips \cap byMAC[n].ips = {}
    /\ \A i \in DOMAIN byIP : byIP[i].ips = {i} /\ OwnersOf(i) = {}

\* The ports and the OS guess on display are those of the latest scans of exactly
\* the addresses the device owns now, and no scan is kept for an unowned address.
DerivedInSync ==
    /\ \A k \in Devices : Entry(k) = Refreshed(Entry(k), portsByIP)
    /\ DOMAIN portsByIP \subseteq UNION {Entry(k).ips : k \in Devices}

\* A MAC that takes an address over does not inherit its old owner's ports.
NoInheritedPorts ==
    [][\A m \in DOMAIN byMAC, i \in DOMAIN portsByIP :
          (i \in byMAC[m].ips /\ i \notin byMAC'[m].ips) => i \notin DOMAIN portsByIP']_vars

\* The owner of an address, as the live map shows it.
Owner == [i \in IP |-> IF OwnersOf(i) # {} THEN TheOwner(OwnersOf(i))
                       ELSE IF i \in DOMAIN byIP THEN "unidentified" ELSE "nobody"]

Addresses == INSTANCE AddressBook
    WITH owner <- Owner, Free <- "nobody", Anonymous <- "unidentified"

\* The merger implements the address book: ownership only moves by an ARP claim.
AddressBookSpec == Addresses!Spec

\* The status a device seen at t last deserves at the sweep of instant s.
Deserved(t, s) ==
    IF t = Never THEN "Stale"
    ELSE IF t + LeftAfter < s THEN "Offline"
    ELSE IF t + StaleAfter < s THEN "Stale" ELSE "Online"

\* A status is what the age at the last sweep deserves, whatever was folded or
\* arrived late, and a neighbour known from the cache alone stays Stale.
StatusMatchesAge ==
    \A k \in Devices : Entry(k).status = Deserved(Entry(k).lastSeen, swept)

\* No step, and no fold of an IP-only entry into a MAC, forgets an earlier first
\* sighting or a later last one: an observation that arrives late never makes a
\* device look idle for longer than it is.
SightingsKept ==
    [][\A k \in Devices : /\ Entry(k)'.firstSeen <= Entry(k).firstSeen
                          /\ Entry(k)'.lastSeen >= Entry(k).lastSeen]_vars

\* The history new is old, or old with one more round trip, for which the eldest of a full
\* one makes room.
Continues(new, old) ==
    LET lost == IF Len(old) = HistoryCap THEN 1 ELSE 0
    IN  \/ new = old
        \/ /\ Len(new) = Len(old) - lost + 1
           /\ \A n \in (lost + 1)..Len(old) : new[n - lost] = old[n]

\* What was learned of ping belongs together: the round trip, also one of zero, came with
\* the TTL, and the latest one is the last of the history.
PingIsWhole(d) ==
    /\ d.ttl # 0 => d.rtts # <<>>
    /\ d.rtt = IF d.rtts = <<>> THEN 0 ELSE d.rtts[Len(d.rtts)]

\* Evidence survives folds: services, TTL and NetBIOS answer for the OS guess, and the
\* round trips.  A device's history goes on, the latest in order, whatever is folded into
\* it; the history of a folded address gives way to none but another.
EvidenceKept ==
    [][\A k \in Devices :
          LET old == Entry(k)
              new == Entry(k)'
          IN  /\ old.services \subseteq new.services
              /\ old.ttl # 0 => new.ttl # 0
              /\ old.nbns => new.nbns
              /\ PingIsWhole(new)
              /\ old.rtts # <<>> =>
                    /\ new.rtts # <<>>
                    /\ k \in DOMAIN byMAC \cup DOMAIN byIP' =>
                          Continues(new.rtts, old.rtts)]_vars

\* The names a source can give.
NamesFrom(src) == {o.name : o \in {x \in Observation : x.source = src}}

\* A name from mDNS only gives way to a name from mDNS, through folds too.
MDNSNameSticks ==
    [][\A k \in Devices : Entry(k).nameSource = "mdns" =>
          Entry(k)'.nameSource = "mdns" /\ Entry(k)'.name \in NamesFrom("mdns")]_vars

\* The keys a consumer that misses nothing would list as present.
Present == {k \in Devices : Entry(k).lastSeen # Never /\ Entry(k).status # "Offline"}

Announcements == INSTANCE Census
    WITH present <- Present, owed <- pending, feed <- out, closing <- cancelled

\* Joined and Left alternate for an identity, seeds are silent, no Left is lost
\* or repeated: the merger implements the census.
CensusSpec == Announcements!Spec

\* The consumer will have Left as the last word on an Offline device: it has it,
\* or its latest event in the channel is Left, or the sweep still owes it.
DeparturesNotLost ==
    \A k \in Devices : Entry(k).status = "Offline" =>
        LET about == {n \in DOMAIN out : out[n].key = k}
        IN  \/ cancelled
            \/ k \in pending
            \/ about = {} /\ k \in gone
            \/ \E n \in about : out[n].type = "Left" /\ \A j \in about : j <= n

\* A departure is heard although sends block, unless the session ends.
DepartureHeard == \A k \in Key : (k \in pending) ~> (k \in gone \/ cancelled)

\* Offline in a session that goes on: the consumer has heard the Left, and an address that
\* is only known by itself was first heard after the sweep.
Departed(m) ==
    /\ ~cancelled /\ byMAC[m].status = "Offline" /\ m \in gone
    /\ \A i \in DOMAIN byIP : byIP[i].firstSeen > swept

\* docs/superpowers/specs/2026-04-25-lan-inventory-design.md:193 says of EventJoined
\* "first sighting (or returning after Left)".
ReturnIsJoined ==
    [][\A m \in DOMAIN byMAC :
          (Departed(m) /\ byMAC'[m].status = "Online" /\ out' # out)
          => out'[Len(out')].type = "Joined"]_vars
=============================================================================
