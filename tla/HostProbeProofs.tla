-------------------------- MODULE HostProbeProofs --------------------------
(***************************************************************************)
(* Theorems about HostProbe, for every host and every network: how long a  *)
(* probe outlives a cancellation, that evidence, in whatever order it      *)
(* comes in, takes no label from a device, and, for every datagram, that   *)
(* the names NBNS returns are those of whole answers.                      *)
(***************************************************************************)
EXTENDS HostProbe, FiniteSetTheorems, WellFoundedInduction, TLAPS

----------------------------------------------------------------------------
(* Type correctness *)

Stages == {"start", "ping", "tcp", "recheck", "nbns", "ports", "system", "gateway", "again",
           "mdns", "send", "dropped", "reported"}

\* Only a probe flies.
TypeInv ==
    /\ net \in Network
    /\ stage \in Stages /\ flying \in BOOLEAN /\ (flying => stage \in ProbeStage)
    /\ cancelled \in BOOLEAN /\ late \in Nat

LEMMA ProbeStages ==
    ProbeStage = {"ping", "tcp", "nbns", "ports", "system", "gateway", "again", "mdns"}
BY DEF ProbeStage, Timeout

LEMMA Timeouts ==
    /\ Timeout["ping"] = 10 /\ Timeout["tcp"] = 2 /\ Timeout["nbns"] = 5
    /\ Timeout["ports"] = 5 /\ Timeout["system"] = 5 /\ Timeout["gateway"] = 5
    /\ Timeout["again"] = 5 /\ Timeout["mdns"] = 5
BY DEF Timeout

\* The network says whether it is the one of a Windows host.
LEMMA NetworkTypes == ASSUME TypeInv PROVE net.windows \in BOOLEAN /\ net.lossy \in BOOLEAN
BY NetworkAssumption DEF TypeInv

----------------------------------------------------------------------------
(* How long a probe outlives a cancellation *)

\* Once ctx is done: the most that the probes after s take, and those from s on if it is
\* not in flight.  Only status queries begin.
After(s) ==
    IF s \in {"ping", "tcp"} THEN 10
    ELSE IF s \in {"nbns", "ports", "system", "gateway"} THEN 5 ELSE 0

From(s) ==
    IF s \in {"ping", "tcp", "recheck", "nbns"} THEN 10
    ELSE IF s \in {"ports", "system", "gateway", "again"} THEN 5 ELSE 0

\* What is in flight takes its timeout, unless the cancellation ends it.
InFlight(s) ==
    IF s \in {"tcp", "ports", "gateway"} THEN 0
    ELSE IF s = "ping" THEN IF net.windows THEN 10 ELSE 0
    ELSE IF s = "system" THEN IF net.windows THEN 0 ELSE 5
    ELSE 5

Left == IF flying THEN InFlight(stage) + After(stage) ELSE From(stage)

Limit == IF net.windows THEN 20 ELSE 10

DrainInv ==
    /\ TypeInv
    /\ IF cancelled THEN late + Left <= Limit ELSE late = 0

\* A cancellation finds no more than the limit left.
LEMMA LeftBound == ASSUME TypeInv PROVE Left \in Nat /\ Left <= Limit
<1>1. ASSUME flying PROVE stage \in ProbeStage
  BY <1>1 DEF TypeInv
<1>. QED
  BY <1>1, NetworkTypes, ProbeStages DEF Left, Limit, InFlight, After, From

\* A landing takes no more than what was in flight had left.
LEMMA LandingTakes ==
    ASSUME DrainInv, NEW answered \in BOOLEAN, Lands(answered)
    PROVE  /\ stage \in ProbeStage /\ ~flying' /\ UNCHANGED <<net, cancelled, device>>
           /\ late' \in Nat
           /\ cancelled => late' + After(stage) <= Limit
           /\ ~cancelled => late' = 0
<1>. USE DEF DrainInv
<1>1. /\ flying /\ flying' = FALSE /\ UNCHANGED <<net, cancelled, device>>
      /\ \E t \in Durations : late' = IF cancelled THEN late + t ELSE late
  BY DEF Lands
<1>2. stage \in ProbeStage
  BY <1>1 DEF TypeInv
<1>3. \A t \in Durations : t \in Nat /\ (cancelled => t <= InFlight(stage))
  BY <1>2, NetworkTypes, ProbeStages, Timeouts DEF Durations, Interrupted, InFlight
<1>4. InFlight(stage) \in Nat /\ After(stage) \in Nat /\ late \in Nat
  BY DEF InFlight, After, TypeInv
<1>5. cancelled => late + (InFlight(stage) + After(stage)) <= Limit
  BY <1>1 DEF Left
<1>6. Limit \in Nat
  BY DEF Limit
<1>. QED
  BY <1>1, <1>2, <1>3, <1>4, <1>5, <1>6

\* A probe that is refused takes no time.
LEMMA RefusalTakes ==
    ASSUME DrainInv, Refuses
    PROVE  /\ stage \in ProbeStage /\ stage \notin Persistent /\ cancelled
           /\ ~flying' /\ UNCHANGED <<net, cancelled, device, late>>
           /\ late + From(stage) <= Limit /\ late \in Nat
BY DEF Refuses, Refused, DrainInv, Left, TypeInv

\* So whatever becomes of a probe, what is left afterwards fits the limit: s is where
\* probeOne goes on.
LEMMA OutcomeDrains ==
    ASSUME DrainInv, Answers \/ Fails, NEW s \in Stages, stage' = s,
           From(s) <= After(stage)
    PROVE  DrainInv'
<1>. USE DEF DrainInv
<1>1. /\ From(s) \in Nat /\ After(stage) \in Nat /\ From(stage) \in Nat
      /\ After(stage) <= From(stage)
  BY DEF From, After
<1>2. ASSUME NEW answered \in BOOLEAN, Lands(answered) PROVE DrainInv'
  <2>1. /\ ~flying' /\ flying' \in BOOLEAN /\ UNCHANGED <<net, cancelled>> /\ late' \in Nat
        /\ cancelled => late' + After(stage) <= Limit
        /\ ~cancelled => late' = 0
    BY <1>2, LandingTakes DEF Lands
  <2>2. cancelled => late' + From(s) <= Limit
    BY <1>1, <2>1 DEF Limit
  <2>. QED
    BY <2>1, <2>2 DEF TypeInv, Left, From, Limit
<1>3. ASSUME Refuses PROVE DrainInv'
  <2>1. /\ ~flying' /\ flying' \in BOOLEAN /\ cancelled /\ UNCHANGED <<net, cancelled, late>>
        /\ late + From(stage) <= Limit /\ late \in Nat
    BY <1>3, RefusalTakes DEF Refuses, TypeInv
  <2>2. late + From(s) <= Limit
    BY <1>1, <1>3, <2>1 DEF Limit
  <2>. QED
    BY <2>1, <2>2 DEF TypeInv, Left, From, Limit
<1>. QED
  BY <1>2, <1>3 DEF Answers, Fails

\* Every step keeps the balance.
LEMMA DrainStep == DrainInv /\ [Next]_vars => DrainInv'
<1>. SUFFICES ASSUME DrainInv, [Next]_vars PROVE DrainInv'
  OBVIOUS
<1>. USE DEF Stages
<1>1. ASSUME UNCHANGED <<net, stage, flying, cancelled, late>> PROVE DrainInv'
  BY <1>1 DEF DrainInv, TypeInv, Left, InFlight, Limit
<1>2. ASSUME Start PROVE DrainInv'
  <2>1. cancelled => stage' = "dropped"
    BY <1>2 DEF Start
  <2>. QED
    BY <1>2, <2>1, NetworkTypes, ProbeStages DEF Start, DrainInv, TypeInv, Left, From, Limit
<1>3. ASSUME Launch PROVE DrainInv'
  <2>1. /\ stage \in ProbeStage /\ ~flying /\ flying' = TRUE
        /\ UNCHANGED <<net, stage, cancelled, late>>
        /\ cancelled => stage \in {"nbns", "again"}
    BY <1>3 DEF Launch, Refused, Persistent
  <2>2. cancelled => InFlight(stage) + After(stage) = From(stage)
    BY <2>1 DEF InFlight, After, From
  <2>3. TypeInv'
    BY <2>1 DEF DrainInv, TypeInv
  <2>4. cancelled => late' + Left' <= Limit'
    BY <2>1, <2>2 DEF DrainInv, Left, Limit, InFlight
  <2>. QED
    BY <2>1, <2>3, <2>4 DEF DrainInv
<1>4. ASSUME Pinged PROVE DrainInv'
  <2>1. stage' = "nbns" \/ stage' = "tcp"
    BY <1>4 DEF Pinged
  <2>2. stage = "ping" /\ (Answers \/ Fails)
    BY <1>4 DEF Pinged
  <2>. QED
    BY <2>1, <2>2, OutcomeDrains DEF From, After
<1>5. ASSUME Connected PROVE DrainInv'
  <2>1. stage' = "nbns" \/ stage' = "recheck" \/ stage' = "tcp"
    BY <1>5 DEF Connected
  <2>2. stage = "tcp" /\ (Answers \/ Fails)
    BY <1>5 DEF Connected
  <2>. QED
    BY <2>1, <2>2, OutcomeDrains DEF From, After
<1>6. ASSUME Recheck PROVE DrainInv'
  <2>1. stage = "recheck" /\ stage' \in {"nbns", "dropped"}
        /\ UNCHANGED <<net, flying, cancelled, late>>
    BY <1>6 DEF Recheck
  <2>2. ~flying
    BY <2>1, ProbeStages DEF DrainInv, TypeInv
  <2>. QED
    BY <2>1, <2>2 DEF DrainInv, TypeInv, Left, From, Limit
<1>7. ASSUME Queried PROVE DrainInv'
  <2>1. stage = "nbns" /\ stage' = "ports" /\ (Answers \/ Fails)
    BY <1>7 DEF Queried
  <2>. QED
    BY <2>1, OutcomeDrains DEF From, After
<1>8. ASSUME Scanned PROVE DrainInv'
  <2>1. stage' = "system" \/ stage' = "dropped"
    BY <1>8 DEF Scanned
  <2>2. stage = "ports" /\ (Answers \/ Fails)
    BY <1>8 DEF Scanned
  <2>. QED
    BY <2>1, <2>2, OutcomeDrains DEF From, After
<1>9. ASSUME Resolved PROVE DrainInv'
  <2>1. /\ stage \in {"system", "gateway", "again", "mdns"} /\ (Answers \/ Fails)
        /\ stage' = NextLookup \/ stage' = "send"
    BY <1>9 DEF Resolved
  <2>2. /\ NextLookup \in Stages /\ From(NextLookup) <= After(stage)
        /\ "send" \in Stages /\ From("send") <= After(stage)
    BY <2>1 DEF NextLookup, From, After
  <2>. QED
    BY <2>1, <2>2, OutcomeDrains
<1>10. ASSUME Report \/ Drop PROVE DrainInv'
  <2>1. stage = "send" /\ stage' \in {"reported", "dropped"}
        /\ UNCHANGED <<net, flying, cancelled, late>>
    BY <1>10 DEF Report, Drop
  <2>2. ~flying
    BY <2>1, ProbeStages DEF DrainInv, TypeInv
  <2>. QED
    BY <2>1, <2>2 DEF DrainInv, TypeInv, Left, From, Limit
<1>11. ASSUME Cancel PROVE DrainInv'
  <2>1. cancelled' = TRUE /\ late = 0 /\ UNCHANGED <<net, stage, flying, late>>
    BY <1>11 DEF Cancel, DrainInv
  <2>2. Left \in Nat /\ Left <= Limit
    BY LeftBound DEF DrainInv
  <2>. QED
    BY <2>1, <2>2 DEF DrainInv, TypeInv, Left, InFlight, Limit
<1>12. ASSUME Heard \/ (\E s \in net.services : Announced(s)) \/ Over \/ UNCHANGED vars
       PROVE  DrainInv'
  BY <1>1, <1>12 DEF Heard, Announced, Over, vars
<1>. QED
  BY <1>2, <1>3, <1>4, <1>5, <1>6, <1>7, <1>8, <1>9, <1>10, <1>11, <1>12 DEF Next

LEMMA DrainInit == Init => DrainInv
<1>. SUFFICES ASSUME Init PROVE DrainInv
  OBVIOUS
<1>1. /\ net \in Network /\ stage = "start" /\ flying = FALSE
      /\ cancelled = FALSE /\ late = 0
  BY DEF Init
<1>. QED
  BY <1>1 DEF DrainInv, TypeInv, Stages

\* active.go:159, dns.go:73-75: whenever ctx is cancelled, whatever is in flight then and
\* however late its answer is, no probe of any host on any network outlives it by more
\* than a second, or two on Windows.
THEOREM ProbesDrainInTime == Spec => []DrainsInTime
<1>1. DrainInv => DrainsInTime
  <2>. SUFFICES ASSUME DrainInv PROVE DrainsInTime
    OBVIOUS
  <2>1. Left \in Nat /\ late \in Nat /\ Limit \in Nat
    BY LeftBound DEF DrainInv, TypeInv, Limit
  <2>. QED
    BY <2>1 DEF DrainInv, DrainsInTime, Limit
<1>. QED
  BY <1>1, DrainInit, DrainStep, PTL DEF Spec

----------------------------------------------------------------------------
(* The first rule that applies *)

\* A set of numbers has a least one.
LEMMA LeastOf ==
    ASSUME NEW S \in SUBSET Nat, S # {}
    PROVE  Least(S) \in S /\ \A k \in S : Least(S) <= k
<1>. DEFINE less == OpToRel(<, Nat)
<1>1. PICK n \in S : \A k \in S : ~(<<k, n>> \in less)
  BY NatLessThanWellFounded, WFMin, Zenon
<1>2. ASSUME NEW k \in S PROVE n <= k
  <2>1. n \in Nat /\ k \in Nat
    OBVIOUS
  <2>2. <<k, n>> \in less <=> k < n
    BY <2>1 DEF OpToRel
  <2>3. ~(<<k, n>> \in less)
    BY <1>1
  <2>. HIDE DEF less
  <2>. QED
    BY <2>1, <2>2, <2>3
<1>. QED
  BY <1>2 DEF Least

\* No words, no family.
LEMMA NoFamily == FamilyOf({}) = Unknown
BY DEF FamilyOf, FirstOf

\* A vendor's family is one of those that are searched for.
LEMMA FamilyTypes ==
    ASSUME NEW vendor
    PROVE  FamilyOf(vendor) \in {"Apple", "Network", "LinuxBoard", "Printer", "IoT", Unknown}
<1>. DEFINE named == {n \in DOMAIN Families : Families[n] \in vendor}
<1>1. FamilyOf(vendor) = IF named = {} THEN Unknown ELSE Families[Least(named)]
  BY DEF FamilyOf, FirstOf
<1>2. DOMAIN Families = 1..5
  BY DEF Families
<1>3. named \in SUBSET Nat /\ named \subseteq 1..5
  BY <1>2
<1>4. \A n \in 1..5 : Families[n] \in {"Apple", "Network", "LinuxBoard", "Printer", "IoT"}
  BY DEF Families
<1>. HIDE DEF named
<1>. QED
  BY <1>1, <1>3, <1>4, LeastOf

\* Without a TTL there is no guess from it.
LEMMA NoTTL == OSGuess(0) = Unknown
BY DEF OSGuess

\* The chain has fifteen rules, and every one of them a label.
LEMMA RulesAre ==
    ASSUME NEW e
    PROVE  /\ DOMAIN Rules(e) = 1..15
           /\ Rules(e)[1].label = "iOS" /\ Rules(e)[2].label = "iOS"
           /\ Rules(e)[3].label = "macOS"
           /\ Rules(e)[1].applies <=> Says(e, "mobile")
           /\ Rules(e)[2].applies <=> Offers(e, {"_apple-mobdev2"})
           /\ Rules(e)[3].applies <=> Says(e, "mac")
           /\ Rules(e)[12].applies <=> Open(e, {9100, 631})
           /\ \A n \in 1..15 : Rules(e)[n].label # Unknown
<1>1. /\ DOMAIN Rules(e) = 1..15
      /\ Rules(e)[1].label = "iOS" /\ Rules(e)[2].label = "iOS"
      /\ Rules(e)[3].label = "macOS"
      /\ Rules(e)[1].applies <=> Says(e, "mobile")
      /\ Rules(e)[2].applies <=> Offers(e, {"_apple-mobdev2"})
      /\ Rules(e)[3].applies <=> Says(e, "mac")
      /\ Rules(e)[12].applies <=> Open(e, {9100, 631})
  BY DEF Rules, Rule
<1>2. ASSUME NEW n \in 1..15 PROVE Rules(e)[n].label # Unknown
  <2>1. Rules(e)[n].label \in {"iOS", "macOS", "Windows", "Network", "Linux"}
    BY <1>2 DEF Rules, Rule
  <2>. QED
    BY <2>1 DEF Unknown
<1>. QED
  BY <1>1, <1>2

\* A device has a label exactly if a rule applies.
LEMMA LabelOf ==
    ASSUME NEW e
    PROVE  /\ OSDetect(e) # Unknown <=> \E n \in 1..15 : Rules(e)[n].applies
           /\ Says(e, "mobile") => OSDetect(e) = "iOS"
           /\ Says(e, "mac") => OSDetect(e) \in {"macOS", "iOS"}
<1>. DEFINE applying == {n \in DOMAIN Rules(e) : Rules(e)[n].applies}
<1>1. OSDetect(e) = IF applying = {} THEN Unknown ELSE Rules(e)[Least(applying)].label
  BY DEF OSDetect
<1>2. applying \in SUBSET Nat /\ applying \subseteq 1..15
  BY RulesAre
<1>3. applying = {} <=> ~\E n \in 1..15 : Rules(e)[n].applies
  BY RulesAre
<1>4. ASSUME NEW n \in 1..15 PROVE n \in applying <=> Rules(e)[n].applies
  BY RulesAre
<1>. HIDE DEF applying
<1>5. applying # {} => /\ Least(applying) \in applying /\ Least(applying) \in 1..15
                       /\ \A k \in applying : Least(applying) <= k
  BY <1>2, LeastOf
<1>6. OSDetect(e) # Unknown <=> applying # {}
  BY <1>1, <1>5, RulesAre
<1>7. ASSUME Says(e, "mobile") PROVE OSDetect(e) = "iOS"
  <2>1. 1 \in applying
    BY <1>4, <1>7, RulesAre
  <2>2. Least(applying) = 1
    BY <1>5, <2>1
  <2>. QED
    BY <1>1, <2>1, <2>2, RulesAre
<1>8. ASSUME Says(e, "mac") PROVE OSDetect(e) \in {"macOS", "iOS"}
  <2>1. 3 \in applying
    BY <1>4, <1>8, RulesAre
  <2>2. Least(applying) \in {1, 2, 3}
    BY <1>5, <2>1
  <2>. QED
    BY <1>1, <2>1, <2>2, RulesAre
<1>. QED
  BY <1>3, <1>6, <1>7, <1>8

\* What makes some rule apply, whatever the order of the rules is.
Labelled(e) ==
    LET family == FamilyOf(e.vendor)
        ttl == OSGuess(e.ttl)
    IN  \/ Says(e, "mobile") \/ Says(e, "mac") \/ Offers(e, {"_apple-mobdev2"})
        \/ family \in Appliance \cup {"Apple", "LinuxBoard"}
        \/ e.nbns /\ (ttl = "Windows" \/ family = Unknown)
        \/ Offers(e, {"_workstation"})
        \/ Open(e, {9100, 631})
        \/ ttl \in {"Windows", "Linux/macOS", "RTOS/Network"}

LEMMA LabelledExactly == ASSUME NEW e PROVE OSDetect(e) # Unknown <=> Labelled(e)
<1>0. PICK family, ttl : family = FamilyOf(e.vendor) /\ ttl = OSGuess(e.ttl)
  OBVIOUS
<1>1. /\ Rules(e)[4].applies = (family = "Apple" /\ Offers(e, {"_airplay", "_smb", "_ssh",
                                                                 "_device-info"}))
      /\ Rules(e)[5].applies = (e.nbns /\ family # "LinuxBoard"
                                        /\ (ttl = "Windows" \/ family = Unknown))
      /\ Rules(e)[6].applies = (family = "Apple")
      /\ Rules(e)[7].applies = (ttl = "Windows" /\ Open(e, {445, 137}))
      /\ Rules(e)[8].applies = (family \in Appliance)
      /\ Rules(e)[9].applies = (family = "LinuxBoard")
      /\ Rules(e)[10].applies = (ttl = "Linux/macOS" /\ Open(e, {22}))
      /\ Rules(e)[11].applies = (family # "Apple" /\ Offers(e, {"_workstation"}))
      /\ Rules(e)[13].applies = (ttl = "RTOS/Network")
      /\ Rules(e)[14].applies = (ttl = "Linux/macOS")
      /\ Rules(e)[15].applies = (ttl = "Windows")
  BY <1>0 DEF Rules, Rule
<1>2. Labelled(e) <=>
         \/ Says(e, "mobile") \/ Says(e, "mac") \/ Offers(e, {"_apple-mobdev2"})
         \/ family \in Appliance \cup {"Apple", "LinuxBoard"}
         \/ e.nbns /\ (ttl = "Windows" \/ family = Unknown)
         \/ Offers(e, {"_workstation"})
         \/ Open(e, {9100, 631})
         \/ ttl \in {"Windows", "Linux/macOS", "RTOS/Network"}
  BY <1>0 DEF Labelled
<1>3. /\ Rules(e)[4].applies => family = "Apple"
      /\ Rules(e)[6].applies <=> family = "Apple"
      /\ Rules(e)[7].applies => ttl = "Windows"
      /\ Rules(e)[8].applies <=> family \in Appliance
      /\ Rules(e)[9].applies <=> family = "LinuxBoard"
      /\ Rules(e)[10].applies => ttl = "Linux/macOS"
      /\ Rules(e)[11].applies <=> family # "Apple" /\ Offers(e, {"_workstation"})
      /\ Rules(e)[13].applies <=> ttl = "RTOS/Network"
      /\ Rules(e)[14].applies <=> ttl = "Linux/macOS"
      /\ Rules(e)[15].applies <=> ttl = "Windows"
  BY <1>1
<1>4. Rules(e)[5].applies <=>
         e.nbns /\ family # "LinuxBoard" /\ (ttl = "Windows" \/ family = Unknown)
  BY <1>1
<1>5. (\E n \in 1..15 : Rules(e)[n].applies) <=>
         \/ Rules(e)[1].applies \/ Rules(e)[2].applies \/ Rules(e)[3].applies
         \/ Rules(e)[4].applies \/ Rules(e)[5].applies \/ Rules(e)[6].applies
         \/ Rules(e)[7].applies \/ Rules(e)[8].applies \/ Rules(e)[9].applies
         \/ Rules(e)[10].applies \/ Rules(e)[11].applies \/ Rules(e)[12].applies
         \/ Rules(e)[13].applies \/ Rules(e)[14].applies \/ Rules(e)[15].applies
  OBVIOUS
<1>6. Labelled(e) <=> \E n \in 1..15 : Rules(e)[n].applies
  BY <1>2, <1>3, <1>4, <1>5, RulesAre
<1>. QED
  BY <1>6, LabelOf

----------------------------------------------------------------------------
(* Evidence comes in *)

\* More is known of the device: a vendor, services, or all that a sweep says at once.
Grows(d, e) ==
    /\ d.vendor \in {{}, e.vendor}
    /\ d.services \subseteq e.services
    /\ d.ports \in {{}, e.ports}
    /\ d.ttl \in {0, e.ttl}
    /\ d.nbns => e.nbns /\ e.ttl = d.ttl

\* What was learned of a device is not unlearned: its label may change, but not go.
LEMMA LabelsGrow ==
    ASSUME NEW d, NEW e, Grows(d, e)
    PROVE  /\ OSDetect(d) # Unknown => OSDetect(e) # Unknown
           /\ Says(d, "mobile") => OSDetect(e) = "iOS"
           /\ Says(d, "mac") => OSDetect(e) \in {"macOS", "iOS"}
<1>1. \A model : Says(d, model) => Says(e, model)
  BY DEF Grows, Says
<1>2. \A types : Offers(d, types) => Offers(e, types)
  BY DEF Grows, Offers
<1>3. \A ports_ : Open(d, ports_) => Open(e, ports_)
  BY DEF Grows, Open
<1>4. OSGuess(d.ttl) = Unknown \/ OSGuess(e.ttl) = OSGuess(d.ttl)
  BY NoTTL DEF Grows
<1>5. FamilyOf(d.vendor) = Unknown \/ FamilyOf(e.vendor) = FamilyOf(d.vendor)
  BY NoFamily DEF Grows
<1>6. d.nbns => e.nbns /\ OSGuess(e.ttl) = OSGuess(d.ttl)
  BY DEF Grows
<1>7. Labelled(d) => Labelled(e)
  <2>1. FamilyOf(e.vendor) \in Appliance \cup {"Apple", "LinuxBoard", Unknown}
    BY FamilyTypes DEF Appliance
  <2>2. Unknown \notin Appliance \cup {"Apple", "LinuxBoard", "Windows", "Linux/macOS", "RTOS/Network"}
    BY DEF Unknown, Appliance
  <2>. QED
    BY <1>1, <1>2, <1>3, <1>4, <1>5, <1>6, <2>1, <2>2 DEF Labelled
<1>. QED
  BY <1>1, <1>7, LabelledExactly, LabelOf

\* Of a device that no sweep has reported, no ping, port or NetBIOS name is known.
DeviceInv ==
    /\ device = [vendor |-> device.vendor, services |-> device.services, ports |-> device.ports,
                 ttl |-> device.ttl, nbns |-> device.nbns]
    /\ device.vendor \in {{}, net.vendor}
    /\ stage # "reported" => device.ports = {} /\ device.ttl = 0 /\ device.nbns = FALSE

LEMMA DeviceStep ==
    ASSUME DeviceInv, [Next]_vars
    PROVE  DeviceInv' /\ Grows(device, device')
<1>1. ASSUME UNCHANGED <<net, device>>, stage' = "reported" \/ stage # "reported"
      PROVE  DeviceInv' /\ Grows(device, device')
  BY <1>1 DEF DeviceInv, Grows
<1>2. ASSUME Start \/ Launch \/ Recheck \/ Drop \/ Cancel
      PROVE  DeviceInv' /\ Grows(device, device')
  BY <1>1, <1>2 DEF Start, Launch, Recheck, Drop, Cancel
<1>3. ASSUME Pinged \/ Connected \/ Queried \/ Scanned \/ Resolved
      PROVE  DeviceInv' /\ Grows(device, device')
  <2>1. stage # "reported"
    BY <1>3 DEF Pinged, Connected, Queried, Scanned, Resolved
  <2>2. UNCHANGED <<net, device>>
    BY <1>3 DEF Pinged, Connected, Queried, Scanned, Resolved, Answers, Fails, Lands, Refuses
  <2>. QED
    BY <1>1, <2>1, <2>2
<1>4. ASSUME Report PROVE DeviceInv' /\ Grows(device, device')
  <2>1. /\ stage = "send" /\ stage' = "reported" /\ UNCHANGED net
        /\ device'.vendor = device.vendor /\ device'.services = device.services
    BY <1>4 DEF Report, DeviceInv
  <2>2. device' = [vendor |-> device'.vendor, services |-> device'.services,
                   ports |-> device'.ports, ttl |-> device'.ttl, nbns |-> device'.nbns]
    BY <1>4 DEF Report, DeviceInv
  <2>. QED
    BY <2>1, <2>2 DEF DeviceInv, Grows
<1>5. ASSUME Heard PROVE DeviceInv' /\ Grows(device, device')
  <2>1. /\ device.vendor = {} /\ device'.vendor = net.vendor /\ UNCHANGED <<net, stage>>
        /\ device'.services = device.services /\ device'.ports = device.ports
        /\ device'.ttl = device.ttl /\ device'.nbns = device.nbns
    BY <1>5 DEF Heard, DeviceInv
  <2>2. device' = [vendor |-> device'.vendor, services |-> device'.services,
                   ports |-> device'.ports, ttl |-> device'.ttl, nbns |-> device'.nbns]
    BY <1>5 DEF Heard, DeviceInv
  <2>. QED
    BY <2>1, <2>2 DEF DeviceInv, Grows
<1>6. ASSUME NEW s \in net.services, Announced(s) PROVE DeviceInv' /\ Grows(device, device')
  <2>1. /\ device'.vendor = device.vendor /\ UNCHANGED <<net, stage>>
        /\ device'.services = device.services \cup {s} /\ device'.ports = device.ports
        /\ device'.ttl = device.ttl /\ device'.nbns = device.nbns
    BY <1>6 DEF Announced, DeviceInv
  <2>2. device' = [vendor |-> device'.vendor, services |-> device'.services,
                   ports |-> device'.ports, ttl |-> device'.ttl, nbns |-> device'.nbns]
    BY <1>6 DEF Announced, DeviceInv
  <2>. QED
    BY <2>1, <2>2 DEF DeviceInv, Grows
<1>7. ASSUME Over \/ UNCHANGED vars PROVE DeviceInv' /\ Grows(device, device')
  BY <1>1, <1>7 DEF Over, vars
<1>. QED
  BY <1>2, <1>3, <1>4, <1>5, <1>6, <1>7 DEF Next

LEMMA DeviceInit == Init => DeviceInv
BY DEF Init, DeviceInv

\* osguess.go:127-132: of any host, whatever its services, ports and vendor are and however
\* what the sweep, the listeners and the vendor lookup learn interleaves, no evidence takes
\* a label away, and what a device declares of itself is never overruled.
THEOREM EvidenceTakesNoLabel == Spec => LabelsSurvive
<1>1. ASSUME DeviceInv, [Next]_vars
      PROVE  [/\ OSDetect(device) # Unknown => OSDetect(device') # Unknown
              /\ Says(device, "mobile") => OSDetect(device') = "iOS"
              /\ Says(device, "mac") => OSDetect(device') \in {"macOS", "iOS"}]_vars
  BY <1>1, DeviceStep, LabelsGrow
<1>2. DeviceInv /\ [Next]_vars => DeviceInv'
  BY DeviceStep
<1>. QED
  BY <1>1, <1>2, DeviceInit, PTL DEF Spec, LabelsSurvive

----------------------------------------------------------------------------
(* Induction over numbers *)

\* A set that holds 0 and every successor holds all numbers: induction without a parameter.
LEMMA SetInduction ==
    ASSUME NEW T, 0 \in T, \A n \in Nat : n \in T => n + 1 \in T
    PROVE  Nat \subseteq T
<1>. DEFINE rest == Nat \ T
<1>. SUFFICES ASSUME rest # {} PROVE FALSE
  OBVIOUS
<1>1. PICK n \in rest : \A k \in rest : n <= k
  <2>1. rest \in SUBSET Nat
    OBVIOUS
  <2>. HIDE DEF rest
  <2>. QED
    BY <2>1, LeastOf
<1>2. n \in Nat /\ n # 0 /\ n - 1 \in Nat
  OBVIOUS
<1>3. n - 1 \in T
  BY <1>1, <1>2
<1>4. (n - 1) + 1 \in T
  BY <1>2, <1>3
<1>. QED
  BY <1>2, <1>4

\* A function by recursion over numbers, each value made of the one before.
Follows(f, N, V, a, G) ==
    f \in [0..N -> V] /\ f[0] = a /\ \A n \in 1..N : f[n] = G[<<n, f[n - 1]>>]

LEMMA Recursion ==
    ASSUME NEW N \in Nat, NEW V, NEW a \in V, NEW G, G \in [(1..N) \X V -> V]
    PROVE  \E f : Follows(f, N, V, a, G)
<1>. DEFINE Fits(f, k) == f[0] = a /\ \A n \in 1..k : f[n] = G[<<n, f[n - 1]>>]
            T == {k \in Nat : k <= N => \E f \in [0..k -> V] : Fits(f, k)}
<1>1. 0 \in T
  <2>. DEFINE f == [n \in 0..0 |-> a]
  <2>1. f \in [0..0 -> V] /\ f[0] = a /\ 1..0 = {}
    OBVIOUS
  <2>. HIDE DEF f
  <2>2. Fits(f, 0)
    BY <2>1
  <2>. QED
    BY <2>1, <2>2
<1>2. ASSUME NEW k \in Nat, k \in T PROVE k + 1 \in T
  <2>. SUFFICES ASSUME k + 1 <= N PROVE \E f \in [0..(k + 1) -> V] : Fits(f, k + 1)
    OBVIOUS
  <2>1. PICK g \in [0..k -> V] : Fits(g, k)
    BY <1>2
  <2>. DEFINE f == [n \in 0..(k + 1) |-> IF n <= k THEN g[n] ELSE G[<<n, g[n - 1]>>]]
  <2>2. g[k] \in V /\ G[<<k + 1, g[k]>>] \in V
    OBVIOUS
  <2>3. f \in [0..(k + 1) -> V]
    <3>1. ASSUME NEW n \in 0..(k + 1) PROVE f[n] \in V
      <4>1. CASE n <= k
        BY <4>1
      <4>2. CASE n = k + 1
        <5>1. n - 1 = k
          BY <4>2
        <5>. QED
          BY <2>2, <4>2, <5>1
      <4>. QED
        BY <4>1, <4>2
    <3>. QED
      BY <3>1
  <2>4. f[0] = a
    BY <2>1
  <2>5. ASSUME NEW n \in 1..(k + 1) PROVE f[n] = G[<<n, f[n - 1]>>]
    <3>1. n - 1 \in 0..k /\ f[n - 1] = g[n - 1]
      OBVIOUS
    <3>2. CASE n <= k
      BY <2>1, <3>1, <3>2
    <3>3. CASE n = k + 1
      BY <3>1, <3>3
    <3>. QED
      BY <3>2, <3>3
  <2>. HIDE DEF f
  <2>. QED
    BY <2>3, <2>4, <2>5
<1>3. N \in T
  <2>. HIDE DEF T
  <2>. QED
    BY <1>1, <1>2, SetInduction
<1>4. \E f \in [0..N -> V] : Fits(f, N)
  BY <1>3
<1>. QED
  BY <1>4 DEF Follows
----------------------------------------------------------------------------
(* The way through a name *)

\* The offsets that follow an offset, one at most.
Onward(buf, o) == Along(buf, o) \cup Back(buf, o)

LEMMA OnwardIs ==
    ASSUME NEW buf \in Seq(Nat), NEW o \in Offsets(buf)
    PROVE  /\ o \in Nat /\ o < Len(buf) /\ At(buf, o) \in Nat
           /\ \/ /\ IsText(buf, o) /\ At(buf, o) \in 1..(Quarter - 1)
                 /\ Along(buf, o) = {o + At(buf, o) + 1} /\ Onward(buf, o) = {o + At(buf, o) + 1}
              \/ /\ ~IsText(buf, o) /\ Along(buf, o) = {} /\ IsLink(buf, o)
                 /\ Target(buf, o) \in HeaderSize..(o - 1) /\ Onward(buf, o) = {Target(buf, o)}
              \/ /\ ~IsText(buf, o) /\ Along(buf, o) = {} /\ Onward(buf, o) = {}
           /\ At(buf, o) = 0 => ~IsText(buf, o) /\ Onward(buf, o) = {} /\ ~IsPointer(At(buf, o))
<1>1. HeaderSize \in Nat /\ HeaderSize > 0 /\ Quarter \in Nat /\ Quarter > 0 /\ LowBytes \in Nat
  BY ScaleAssumption
<1>2. Len(buf) \in Nat /\ o \in Nat /\ o < Len(buf)
  BY <1>1 DEF Offsets
<1>3. At(buf, o) \in Nat
  BY <1>2 DEF At
<1>4. IsText(buf, o) => ~IsPointer(At(buf, o)) /\ At(buf, o) \in 1..(Quarter - 1)
  BY <1>1, <1>3 DEF IsText, IsLength, IsPointer
<1>5. At(buf, o) = 0 => ~IsText(buf, o) /\ ~IsPointer(At(buf, o))
  BY <1>1 DEF IsText, IsPointer
<1>6. IsText(buf, o) => Back(buf, o) = {} /\ Along(buf, o) = {o + At(buf, o) + 1}
  BY <1>4 DEF Back, Along, IsLink
<1>7. ~IsText(buf, o) => Along(buf, o) = {}
  BY DEF Along
<1>8. \/ Back(buf, o) = {}
      \/ IsLink(buf, o) /\ Target(buf, o) \in HeaderSize..(o - 1) /\ Back(buf, o) = {Target(buf, o)}
  BY DEF Back
<1>9. At(buf, o) = 0 => Back(buf, o) = {}
  BY <1>5 DEF Back, IsLink
<1>. QED
  BY <1>2, <1>3, <1>4, <1>5, <1>6, <1>7, <1>8, <1>9 DEF Onward

\* A way through a name, from its beginning to the zero byte, K steps on.
Path(buf, p, K) ==
    /\ K \in Nat /\ p \in [0..K -> Offsets(buf)]
    /\ \A i \in 1..K : Onward(buf, p[i - 1]) = {p[i]}
    /\ At(buf, p[K]) = 0

\* It never comes back, for then it would not end.
LEMMA Distinct ==
    ASSUME NEW buf \in Seq(Nat), NEW p, NEW K, Path(buf, p, K),
           NEW i \in 0..K, NEW j \in 0..K, p[i] = p[j]
    PROVE  i = j
<1>1. ASSUME NEW a \in 0..K, NEW b \in 0..K, a < b, p[a] = p[b] PROVE FALSE
  <2>. DEFINE T == {m \in Nat : b + m <= K => p[a + m] = p[b + m]}
  <2>1. K \in Nat
    BY DEF Path
  <2>2. 0 \in T
    BY <1>1
  <2>3. ASSUME NEW m \in Nat, m \in T PROVE m + 1 \in T
    <3>. SUFFICES ASSUME b + (m + 1) <= K PROVE p[a + (m + 1)] = p[b + (m + 1)]
      OBVIOUS
    <3>1. p[a + m] = p[b + m]
      BY <2>1, <2>3
    <3>2. /\ a + (m + 1) \in 1..K /\ (a + (m + 1)) - 1 = a + m
          /\ b + (m + 1) \in 1..K /\ (b + (m + 1)) - 1 = b + m
      BY <1>1, <2>1
    <3>3. Onward(buf, p[a + m]) = {p[a + (m + 1)]} /\ Onward(buf, p[b + m]) = {p[b + (m + 1)]}
      BY <3>2 DEF Path
    <3>. QED
      BY <3>1, <3>3
  <2>4. K - b \in T /\ K - b \in Nat
    <3>1. K - b \in Nat
      BY <2>1
    <3>. HIDE DEF T
    <3>. QED
      BY <2>2, <2>3, <3>1, SetInduction
  <2>5. p[a + (K - b)] = p[K]
    <3>1. b + (K - b) = K /\ b + (K - b) <= K
      BY <2>1
    <3>. QED
      BY <2>4, <3>1
  <2>6. a + (K - b) + 1 \in 1..K /\ (a + (K - b) + 1) - 1 = a + (K - b) /\ a + (K - b) \in 0..K
    BY <1>1, <2>1
  <2>7. Onward(buf, p[a + (K - b)]) # {}
    BY <2>6 DEF Path
  <2>8. p[K] \in Offsets(buf) /\ At(buf, p[K]) = 0
    BY <2>1 DEF Path
  <2>. QED
    BY <2>5, <2>7, <2>8, OnwardIs
<1>2. K \in Nat /\ i \in Int /\ j \in Int
  BY DEF Path
<1>. QED
  BY <1>1, <1>2

\* As many passes as there are bytes are enough.
LEMMA PathIsShort ==
    ASSUME NEW buf \in Seq(Nat), NEW p, NEW K, Path(buf, p, K)
    PROVE  K < Len(buf)
<1>1. K \in Nat /\ Len(buf) \in Nat /\ HeaderSize \in Nat /\ HeaderSize > 0
  BY ScaleAssumption DEF Path
<1>2. IsFiniteSet(0..K) /\ Cardinality(0..K) = K + 1
  BY <1>1, FS_Interval
<1>3. IsFiniteSet(Offsets(buf)) /\ Cardinality(Offsets(buf)) <= Len(buf)
  <2>1. HeaderSize \in Int /\ Len(buf) - 1 \in Int
    BY <1>1
  <2>2. /\ IsFiniteSet(HeaderSize..(Len(buf) - 1))
        /\ Cardinality(HeaderSize..(Len(buf) - 1)) =
               IF HeaderSize > Len(buf) - 1 THEN 0 ELSE (Len(buf) - 1) - HeaderSize + 1
    BY <2>1, FS_Interval
  <2>. QED
    BY <1>1, <2>2 DEF Offsets
<1>4. p \in Injection(0..K, Offsets(buf))
  <2>1. p \in [0..K -> Offsets(buf)]
    BY DEF Path
  <2>2. \A i, j \in 0..K : p[i] = p[j] => i = j
    BY Distinct
  <2>. QED
    BY <2>1, <2>2 DEF Injection, IsInjective
<1>5. Cardinality(0..K) <= Cardinality(Offsets(buf))
  BY <1>3, <1>4, FS_Injection
<1>6. Cardinality(Offsets(buf)) \in Nat
  BY <1>3, FS_CardinalityType
<1>. QED
  BY <1>1, <1>2, <1>3, <1>5, <1>6

----------------------------------------------------------------------------
(* Closures *)

\* What is reached in one step more.
Grown(buf, onward, S) == S \cup UNION {onward[o] : o \in S \cap Offsets(buf)}

\* The closure as the last of a sequence of sets.
Reaches(f, buf, off, onward) ==
    /\ f[0] = {off} /\ \A n \in 1..Len(buf) : f[n] = Grown(buf, onward, f[n - 1])
    /\ Closure(buf, off, onward) = f[Len(buf)]

LEMMA ClosureIs ==
    ASSUME NEW buf \in Seq(Nat), NEW off \in Nat, NEW onward,
           onward \in [Offsets(buf) -> SUBSET Nat]
    PROVE  \E f : Reaches(f, buf, off, onward)
<1>. DEFINE len == Len(buf)
            V == SUBSET Nat
            G == [q \in (1..len) \X V |-> Grown(buf, onward, q[2])]
            IsIt(f) == f = [n \in 0..len |-> IF n = 0 THEN {off} ELSE Grown(buf, onward, f[n - 1])]
            reached == CHOOSE f : IsIt(f)
<1>1. len \in Nat
  OBVIOUS
<1>2. \E f : IsIt(f)
  <2>1. G \in [(1..len) \X V -> V]
    <3>1. ASSUME NEW S \in V PROVE Grown(buf, onward, S) \in V
      BY DEF Grown
    <3>. QED
      BY <3>1
  <2>2. {off} \in V
    OBVIOUS
  <2>3. PICK f : Follows(f, len, V, {off}, G)
    <3>. HIDE DEF G, len, V
    <3>. QED
      BY <1>1, <2>1, <2>2, Recursion, Zenon
  <2>4. ASSUME NEW n \in 1..len PROVE f[n] = Grown(buf, onward, f[n - 1])
    <3>1. n - 1 \in 0..len
      BY <1>1
    <3>2. f[n - 1] \in V
      <4>. HIDE DEF G, len, V
      <4>. QED
        BY <2>3, <3>1 DEF Follows
    <3>3. G[<<n, f[n - 1]>>] = Grown(buf, onward, f[n - 1])
      <4>. HIDE DEF len, V
      <4>. QED
        BY <3>2
    <3>. HIDE DEF G, len, V
    <3>. QED
      BY <2>3, <3>3 DEF Follows
  <2>5. IsIt(f)
    <3>. HIDE DEF G, len, V
    <3>1. f = [n \in 0..len |-> f[n]] /\ f[0] = {off}
      BY <2>3 DEF Follows
    <3>2. \A n \in 0..len : f[n] = IF n = 0 THEN {off} ELSE Grown(buf, onward, f[n - 1])
      <4>1. \A n \in 0..len : n = 0 \/ n \in 1..len
        BY <1>1
      <4>. QED
        BY <2>4, <3>1, <4>1, Zenon
    <3>. QED
      BY <3>1, <3>2, Zenon
  <2>. QED
    BY <2>5
<1>3. IsIt(reached)
  <2>. HIDE DEF IsIt
  <2>. QED
    BY <1>2
<1>4. Closure(buf, off, onward) = reached[len]
  BY DEF Closure, Grown
<1>. HIDE DEF reached
<1>5. reached[0] = {off} /\ \A n \in 1..len : reached[n] = Grown(buf, onward, reached[n - 1])
  <2>. HIDE DEF len
  <2>1. reached = [n \in 0..len |-> IF n = 0 THEN {off} ELSE Grown(buf, onward, reached[n - 1])]
    BY <1>3
  <2>2. 0 \in 0..len /\ \A n \in 1..len : n \in 0..len /\ n # 0
    BY <1>1
  <2>3. reached[0] = {off}
    BY <2>1, <2>2
  <2>4. ASSUME NEW n \in 1..len PROVE reached[n] = Grown(buf, onward, reached[n - 1])
    BY <2>1, <2>2
  <2>. QED
    BY <2>3, <2>4
<1>. QED
  BY <1>4, <1>5 DEF Reaches

\* Where each offset but the last has one successor, they are all that is reached.
Line(buf, onward, p, K) ==
    /\ K \in Nat /\ K <= Len(buf) /\ p \in [0..K -> Offsets(buf)]
    /\ \A i \in 1..K : onward[p[i - 1]] = {p[i]}
    /\ onward[p[K]] = {}

Between(p, i, j) == {p[k] : k \in i..j}

LEMMA LineIsClosure ==
    ASSUME NEW buf \in Seq(Nat), NEW onward, onward \in [Offsets(buf) -> SUBSET Nat],
           NEW p, NEW K, Line(buf, onward, p, K)
    PROVE  Closure(buf, p[0], onward) = Between(p, 0, K)
<1>. DEFINE len == Len(buf)
            Most(n) == IF n < K THEN n ELSE K
            Upto(n) == {p[i] : i \in 0..Most(n)}
<1>1. K \in Nat /\ K <= len /\ len \in Nat /\ p \in [0..K -> Offsets(buf)]
  BY DEF Line
<1>2. p[0] \in Nat /\ p[0] \in Offsets(buf)
  BY <1>1, ScaleAssumption DEF Offsets
<1>3. PICK f : Reaches(f, buf, p[0], onward)
  BY <1>2, ClosureIs
<1>4. ASSUME NEW n \in Nat PROVE Grown(buf, onward, Upto(n)) = Upto(n + 1)
  <2>1. CASE n < K
    <3>1. Most(n) = n /\ Most(n + 1) = n + 1
      BY <1>1, <2>1
    <3>2. ASSUME NEW i \in 0..n PROVE onward[p[i]] = {p[i + 1]} /\ p[i] \in Offsets(buf)
      <4>1. i + 1 \in 1..K /\ (i + 1) - 1 = i /\ i \in 0..K
        BY <1>1, <2>1
      <4>. QED
        BY <1>1, <4>1 DEF Line
    <3>0. \A o : o \in Upto(n) <=> \E i \in 0..n : o = p[i]
      BY <3>1
    <3>3. \A o : o \in Grown(buf, onward, Upto(n)) <=> \E i \in 0..n : o = p[i] \/ o = p[i + 1]
      <4>. HIDE DEF Upto
      <4>1. \A o : o \in Grown(buf, onward, Upto(n)) <=>
                       o \in Upto(n) \/ \E w \in Upto(n) : w \in Offsets(buf) /\ o \in onward[w]
        BY DEF Grown
      <4>2. ASSUME NEW o, NEW w \in Upto(n), o \in onward[w] PROVE \E i \in 0..n : o = p[i + 1]
        BY <3>0, <3>2, <4>2
      <4>3. ASSUME NEW i \in 0..n
            PROVE  p[i] \in Upto(n) /\ p[i] \in Offsets(buf) /\ p[i + 1] \in onward[p[i]]
        BY <3>0, <3>2
      <4>4. ASSUME NEW o, o \in Grown(buf, onward, Upto(n))
            PROVE  \E i \in 0..n : o = p[i] \/ o = p[i + 1]
        BY <3>0, <4>1, <4>2, <4>4
      <4>5. ASSUME NEW o, NEW i \in 0..n, o = p[i] \/ o = p[i + 1]
            PROVE  o \in Grown(buf, onward, Upto(n))
        BY <4>1, <4>3, <4>5
      <4>. QED
        BY <4>4, <4>5
    <3>4. \A o : o \in Upto(n + 1) <=> \E i \in 0..(n + 1) : o = p[i]
      BY <3>1
    <3>5. ASSUME NEW i \in 0..(n + 1) PROVE i \in 0..n \/ (i = n + 1 /\ n \in 0..n)
      OBVIOUS
    <3>6. ASSUME NEW i \in 0..n PROVE i \in 0..(n + 1) /\ i + 1 \in 0..(n + 1)
      OBVIOUS
    <3>. HIDE DEF Upto
    <3>7. ASSUME NEW o \in Upto(n + 1) PROVE o \in Grown(buf, onward, Upto(n))
      BY <3>3, <3>4, <3>5
    <3>8. ASSUME NEW o \in Grown(buf, onward, Upto(n)) PROVE o \in Upto(n + 1)
      BY <3>3, <3>4, <3>6
    <3>. QED
      BY <3>7, <3>8
  <2>2. CASE ~(n < K)
    <3>1. Most(n) = K /\ Most(n + 1) = K
      BY <1>1, <2>2
    <3>2. ASSUME NEW i \in 0..K PROVE onward[p[i]] \subseteq {p[j] : j \in 0..K}
      <4>1. CASE i = K
        BY <4>1 DEF Line
      <4>2. CASE i # K
        <5>1. i + 1 \in 1..K /\ (i + 1) - 1 = i /\ i + 1 \in 0..K
          BY <1>1, <4>2
        <5>2. onward[p[i]] = {p[i + 1]}
          BY <5>1 DEF Line
        <5>. QED
          BY <5>1, <5>2
      <4>. QED
        BY <4>1, <4>2
    <3>. QED
      BY <3>1, <3>2 DEF Grown
  <2>. QED
    BY <2>1, <2>2
<1>5. f[len] = Upto(len)
  <2>. DEFINE T == {n \in Nat : n <= len => f[n] = Upto(n)}
  <2>1. 0 \in T
    <3>1. Most(0) = 0
      BY <1>1
    <3>2. Upto(0) = {p[0]}
      BY <3>1
    <3>3. f[0] = {p[0]}
      BY <1>3 DEF Reaches
    <3>. HIDE DEF Upto
    <3>. QED
      BY <3>2, <3>3
  <2>2. ASSUME NEW n \in Nat, n \in T PROVE n + 1 \in T
    <3>. HIDE DEF Upto
    <3>. SUFFICES ASSUME n + 1 <= len PROVE f[n + 1] = Upto(n + 1)
      OBVIOUS
    <3>1. n + 1 \in 1..len /\ (n + 1) - 1 = n /\ f[n] = Upto(n)
      BY <1>1, <2>2
    <3>2. f[n + 1] = Grown(buf, onward, f[n])
      BY <1>3, <3>1 DEF Reaches
    <3>. QED
      BY <1>4, <3>1, <3>2
  <2>3. len \in T
    <3>. HIDE DEF T
    <3>. QED
      BY <1>1, <2>1, <2>2, SetInduction
  <2>. HIDE DEF Upto
  <2>. QED
    BY <1>1, <2>3
<1>6. Most(len) = K
  BY <1>1
<1>7. Closure(buf, p[0], onward) = {p[i] : i \in 0..K}
  BY <1>3, <1>5, <1>6 DEF Reaches
<1>. QED
  BY <1>7 DEF Between

\* The successors of an offset, as a closure takes them.
AllParts(buf)  == [o \in Offsets(buf) |-> Along(buf, o) \cup Back(buf, o)]
InlineOnly(buf) == [o \in Offsets(buf) |-> Along(buf, o)]

LEMMA SuccessorsAre ==
    ASSUME NEW buf \in Seq(Nat)
    PROVE  /\ AllParts(buf) \in [Offsets(buf) -> SUBSET Nat]
           /\ InlineOnly(buf) \in [Offsets(buf) -> SUBSET Nat]
           /\ \A o \in Offsets(buf) : AllParts(buf)[o] = Onward(buf, o)
           /\ \A o \in Offsets(buf) : InlineOnly(buf)[o] = Along(buf, o)
           /\ \A off : Parts(buf, off) = Closure(buf, off, AllParts(buf))
           /\ \A off : Inline(buf, off) = Closure(buf, off, InlineOnly(buf))
<1>1. ASSUME NEW o \in Offsets(buf)
      PROVE  Onward(buf, o) \subseteq Nat /\ Along(buf, o) \subseteq Nat
  <2>1. HeaderSize \in Nat
    BY ScaleAssumption
  <2>2. Target(buf, o) \in HeaderSize..(o - 1) => Target(buf, o) \in Nat
    BY <2>1
  <2>3. At(buf, o) \in Nat /\ o \in Nat
    BY OnwardIs
  <2>4. o + At(buf, o) + 1 \in Nat
    BY <2>3
  <2>. QED
    BY <2>2, <2>4, OnwardIs
<1>2. \A o \in Offsets(buf) :
         AllParts(buf)[o] = Onward(buf, o) /\ InlineOnly(buf)[o] = Along(buf, o)
  BY DEF AllParts, InlineOnly, Onward
<1>3. AllParts(buf) = [o \in Offsets(buf) |-> Onward(buf, o)]
      /\ InlineOnly(buf) = [o \in Offsets(buf) |-> Along(buf, o)]
  BY DEF AllParts, InlineOnly, Onward
<1>4. /\ AllParts(buf) \in [Offsets(buf) -> SUBSET Nat]
      /\ InlineOnly(buf) \in [Offsets(buf) -> SUBSET Nat]
  BY <1>1, <1>3
<1>. QED
  BY <1>2, <1>4 DEF Parts, Inline, AllParts, InlineOnly

\* The parts of a name that ends, from any offset on its way.
LEMMA PartsOfPath ==
    ASSUME NEW buf \in Seq(Nat), NEW p, NEW K, Path(buf, p, K), NEW i \in 0..K
    PROVE  Parts(buf, p[i]) = Between(p, i, K)
<1>. DEFINE q == [j \in 0..(K - i) |-> p[i + j]]
<1>1. K \in Nat /\ K - i \in Nat /\ K < Len(buf) /\ Len(buf) \in Nat
  BY PathIsShort DEF Path
<1>2. \A j \in 0..(K - i) : i + j \in 0..K /\ q[j] = p[i + j]
  BY <1>1
<1>3. q \in [0..(K - i) -> Offsets(buf)]
  BY <1>2 DEF Path
<1>4. ASSUME NEW j \in 1..(K - i) PROVE Onward(buf, q[j - 1]) = {q[j]}
  <2>1. i + j \in 1..K /\ (i + j) - 1 = i + (j - 1) /\ j - 1 \in 0..(K - i) /\ j \in 0..(K - i)
    BY <1>1
  <2>2. q[j - 1] = p[(i + j) - 1] /\ q[j] = p[i + j]
    BY <2>1
  <2>. HIDE DEF q
  <2>. QED
    BY <2>1, <2>2 DEF Path
<1>5. Onward(buf, q[K - i]) = {}
  <2>1. i + (K - i) = K /\ K - i \in 0..(K - i) /\ K \in 0..K
    BY <1>1
  <2>2. q[K - i] = p[K]
    BY <2>1
  <2>3. p[K] \in Offsets(buf) /\ At(buf, p[K]) = 0
    BY <2>1 DEF Path
  <2>. HIDE DEF q
  <2>. QED
    BY <2>2, <2>3, OnwardIs
<1>6. q[0] = p[i]
  BY <1>1
<1>7. Line(buf, AllParts(buf), q, K - i)
  <2>. HIDE DEF q
  <2>1. \A j \in 0..(K - i) : AllParts(buf)[q[j]] = Onward(buf, q[j])
    BY <1>3, SuccessorsAre
  <2>2. \A j \in 1..(K - i) : j - 1 \in 0..(K - i)
    BY <1>1
  <2>3. K - i \in 0..(K - i) /\ K - i <= Len(buf)
    BY <1>1
  <2>. QED
    BY <1>1, <1>3, <1>4, <1>5, <2>1, <2>2, <2>3 DEF Line
<1>8. Parts(buf, p[i]) = {q[j] : j \in 0..(K - i)}
  <2>. HIDE DEF q
  <2>1. AllParts(buf) \in [Offsets(buf) -> SUBSET Nat]
    BY SuccessorsAre
  <2>2. Closure(buf, q[0], AllParts(buf)) = Between(q, 0, K - i)
    BY <1>7, <2>1, LineIsClosure
  <2>3. Parts(buf, p[i]) = Closure(buf, p[i], AllParts(buf))
    BY SuccessorsAre
  <2>. QED
    BY <1>6, <2>2, <2>3 DEF Between
<1>9. {q[j] : j \in 0..(K - i)} = {p[j] : j \in i..K}
  <2>1. \A j \in i..K : j - i \in 0..(K - i) /\ q[j - i] = p[j]
    BY <1>1
  <2>2. \A j \in 0..(K - i) : i + j \in i..K /\ q[j] = p[i + j]
    BY <1>1
  <2>. HIDE DEF q
  <2>. QED
    BY <2>1, <2>2
<1>. QED
  BY <1>8, <1>9 DEF Between

\* The parts that are written where it begins: its labels up to the first other offset.
LEMMA InlineOfPath ==
    ASSUME NEW buf \in Seq(Nat), NEW p, NEW K, Path(buf, p, K), NEW m \in 0..K,
           ~IsText(buf, p[m]), \A i \in 0..(m - 1) : IsText(buf, p[i])
    PROVE  Inline(buf, p[0]) = Between(p, 0, m)
<1>. DEFINE q == [i \in 0..m |-> p[i]]
<1>1. K \in Nat /\ m \in Nat /\ m < Len(buf) /\ Len(buf) \in Nat
  BY PathIsShort DEF Path
<1>2. \A i \in 0..m : i \in 0..K /\ q[i] = p[i]
  BY <1>1
<1>3. q \in [0..m -> Offsets(buf)] /\ p \in [0..K -> Offsets(buf)]
  BY <1>2 DEF Path
<1>4. ASSUME NEW i \in 1..m PROVE Along(buf, q[i - 1]) = {q[i]}
  <2>1. i \in 1..K /\ i - 1 \in 0..(m - 1) /\ i - 1 \in 0..m /\ i \in 0..m
    BY <1>1
  <2>2. Onward(buf, p[i - 1]) = {p[i]} /\ IsText(buf, p[i - 1]) /\ p[i - 1] \in Offsets(buf)
    BY <1>2, <1>3, <2>1 DEF Path
  <2>3. Along(buf, p[i - 1]) = Onward(buf, p[i - 1])
    BY <2>2, OnwardIs
  <2>. HIDE DEF q
  <2>. QED
    BY <1>2, <2>1, <2>2, <2>3
<1>5. Along(buf, q[m]) = {}
  <2>1. m \in 0..m
    BY <1>1
  <2>. HIDE DEF q
  <2>. QED
    BY <1>2, <2>1 DEF Along
<1>6. q[0] = p[0]
  BY <1>1
<1>7. Line(buf, InlineOnly(buf), q, m)
  <2>. HIDE DEF q
  <2>1. \A i \in 0..m : InlineOnly(buf)[q[i]] = Along(buf, q[i])
    BY <1>3, SuccessorsAre
  <2>2. \A i \in 1..m : i - 1 \in 0..m
    BY <1>1
  <2>3. m \in 0..m /\ m <= Len(buf)
    BY <1>1
  <2>. QED
    BY <1>1, <1>3, <1>4, <1>5, <2>1, <2>2, <2>3 DEF Line
<1>8. Inline(buf, p[0]) = {q[i] : i \in 0..m}
  <2>. HIDE DEF q
  <2>1. InlineOnly(buf) \in [Offsets(buf) -> SUBSET Nat]
    BY SuccessorsAre
  <2>2. Closure(buf, q[0], InlineOnly(buf)) = Between(q, 0, m)
    BY <1>7, <2>1, LineIsClosure
  <2>3. Inline(buf, p[0]) = Closure(buf, p[0], InlineOnly(buf))
    BY SuccessorsAre
  <2>. QED
    BY <1>6, <2>2, <2>3 DEF Between
<1>9. {q[i] : i \in 0..m} = {p[i] : i \in 0..m}
  <2>. HIDE DEF q
  <2>. QED
    BY <1>2
<1>. QED
  BY <1>8, <1>9 DEF Between

\* A way from one offset to another.
Way(buf, p, K) ==
    /\ K \in Nat /\ p \in [0..K -> Nat]
    /\ \A i \in 1..K : p[i - 1] \in Offsets(buf) /\ Onward(buf, p[i - 1]) = {p[i]}

Leads(buf, off, o) == \E K, p : Way(buf, p, K) /\ p[0] = off /\ p[K] = o

LEMMA WayGrows ==
    ASSUME NEW buf \in Seq(Nat), NEW p, NEW K, NEW o,
           Way(buf, p, K), p[K] \in Offsets(buf), o \in Onward(buf, p[K])
    PROVE  Leads(buf, p[0], o)
<1>. DEFINE q == [i \in 0..(K + 1) |-> IF i <= K THEN p[i] ELSE o]
<1>1. K \in Nat /\ K + 1 \in Nat /\ p \in [0..K -> Nat]
  BY DEF Way
<1>2. o \in Nat /\ Onward(buf, p[K]) = {o}
  <2>1. Onward(buf, p[K]) = {o}
    BY OnwardIs
  <2>2. AllParts(buf) \in [Offsets(buf) -> SUBSET Nat] /\ AllParts(buf)[p[K]] = Onward(buf, p[K])
    BY SuccessorsAre
  <2>. QED
    BY <2>1, <2>2
<1>3. \A i \in 0..K : q[i] = p[i]
  BY <1>1
<1>4. q[K + 1] = o
  BY <1>1
<1>5. q \in [0..(K + 1) -> Nat]
  BY <1>1, <1>2
<1>. HIDE DEF q
<1>6. ASSUME NEW i \in 1..(K + 1)
      PROVE  q[i - 1] \in Offsets(buf) /\ Onward(buf, q[i - 1]) = {q[i]}
  <2>1. CASE i \in 1..K
    <3>1. i \in 0..K /\ i - 1 \in 0..K
      BY <1>1, <2>1
    <3>. QED
      BY <1>3, <2>1, <3>1 DEF Way
  <2>2. CASE i = K + 1
    <3>1. i - 1 = K /\ K \in 0..K
      BY <1>1, <2>2
    <3>. QED
      BY <1>2, <1>3, <1>4, <2>2, <3>1
  <2>. QED
    BY <1>1, <2>1, <2>2
<1>7. Way(buf, q, K + 1)
  BY <1>1, <1>5, <1>6 DEF Way
<1>8. q[0] = p[0]
  BY <1>1, <1>3
<1>. QED
  BY <1>4, <1>7, <1>8 DEF Leads

LEMMA LeadsTo ==
    ASSUME NEW buf \in Seq(Nat), NEW off \in Nat, NEW o \in Parts(buf, off)
    PROVE  Leads(buf, off, o)
<1>. DEFINE len == Len(buf)
<1>1. AllParts(buf) \in [Offsets(buf) -> SUBSET Nat]
  BY SuccessorsAre
<1>2. PICK f : Reaches(f, buf, off, AllParts(buf))
  BY <1>1, ClosureIs, Zenon
<1>3. len \in Nat
  OBVIOUS
<1>. DEFINE T == {n \in Nat : n <= len => \A w \in f[n] : Leads(buf, off, w)}
<1>4. 0 \in T
  <2>1. f[0] = {off}
    BY <1>2 DEF Reaches
  <2>2. Leads(buf, off, off)
    <3>. DEFINE p == [i \in 0..0 |-> off]
    <3>1. p[0] = off /\ p \in [0..0 -> Nat] /\ 1..0 = {}
      OBVIOUS
    <3>. HIDE DEF p
    <3>2. Way(buf, p, 0)
      BY <3>1 DEF Way
    <3>. QED
      BY <3>1, <3>2 DEF Leads
  <2>. QED
    BY <2>1, <2>2
<1>5. ASSUME NEW n \in Nat, n \in T PROVE n + 1 \in T
  <2>. SUFFICES ASSUME n + 1 <= len, NEW w \in f[n + 1] PROVE Leads(buf, off, w)
    OBVIOUS
  <2>1. n + 1 \in 1..len /\ (n + 1) - 1 = n
    BY <1>3
  <2>2. f[n + 1] = Grown(buf, AllParts(buf), f[n])
    BY <1>2, <2>1 DEF Reaches
  <2>3. \A v \in f[n] : Leads(buf, off, v)
    <3>1. n <= len
      BY <1>3, <2>1
    <3>. QED
      BY <1>5, <3>1
  <2>4. CASE w \in f[n]
    BY <2>3, <2>4
  <2>5. CASE \E v \in f[n] : v \in Offsets(buf) /\ w \in Onward(buf, v)
    <3>1. PICK v \in f[n] : v \in Offsets(buf) /\ w \in Onward(buf, v)
      BY <2>5
    <3>2. PICK K, p : Way(buf, p, K) /\ p[0] = off /\ p[K] = v
      BY <2>3, <3>1 DEF Leads
    <3>3. p[K] \in Offsets(buf)
      BY <3>1, <3>2
    <3>5. w \in Onward(buf, p[K])
      BY <3>1, <3>2
    <3>. QED
      BY <3>2, <3>3, <3>5, WayGrows
  <2>6. \A v \in Offsets(buf) : AllParts(buf)[v] = Onward(buf, v)
    BY SuccessorsAre
  <2>7. w \in f[n] \/ \E v \in f[n] : v \in Offsets(buf) /\ w \in AllParts(buf)[v]
    BY <2>2 DEF Grown
  <2>. QED
    BY <2>4, <2>5, <2>6, <2>7
<1>6. len \in T
  <2>. HIDE DEF T
  <2>. QED
    BY <1>3, <1>4, <1>5, SetInduction
<1>7. Parts(buf, off) = f[len]
  BY <1>2, SuccessorsAre DEF Reaches
<1>. QED
  BY <1>3, <1>6, <1>7

\* A zero byte among the parts ends a way.
LEMMA PathTo ==
    ASSUME NEW buf \in Seq(Nat), NEW off \in Nat, NEW o \in Parts(buf, off),
           o \in Offsets(buf), At(buf, o) = 0
    PROVE  \E K, p : Path(buf, p, K) /\ p[0] = off
<1>1. PICK K, p : Way(buf, p, K) /\ p[0] = off /\ p[K] = o
  BY LeadsTo DEF Leads
<1>2. K \in Nat /\ p \in [0..K -> Nat]
  BY <1>1 DEF Way
<1>3. ASSUME NEW i \in 0..K PROVE p[i] \in Offsets(buf)
  <2>1. CASE i = K
    BY <1>1, <2>1
  <2>2. CASE i # K
    <3>1. i + 1 \in 1..K /\ (i + 1) - 1 = i
      BY <1>2, <2>2
    <3>. QED
      BY <1>1, <3>1 DEF Way
  <2>. QED
    BY <2>1, <2>2
<1>4. p \in [0..K -> Offsets(buf)]
  BY <1>2, <1>3
<1>5. Path(buf, p, K)
  BY <1>1, <1>2, <1>4 DEF Path, Way
<1>. QED
  BY <1>1, <1>5

----------------------------------------------------------------------------
(* How long a name is *)

LEMMA WrittenIsFinite ==
    ASSUME NEW buf \in Seq(Nat), NEW S \in SUBSET Offsets(buf)
    PROVE  IsFiniteSet(S) /\ IsFiniteSet(Written(buf, S)) /\ Cardinality(Written(buf, S)) \in Nat
<1>1. HeaderSize \in Int /\ Len(buf) - 1 \in Int /\ 0 \in Int /\ Quarter - 1 \in Int
  BY ScaleAssumption
<1>2. IsFiniteSet(Offsets(buf)) /\ IsFiniteSet(0..(Quarter - 1))
  BY <1>1, FS_Interval DEF Offsets
<1>3. IsFiniteSet(S)
  BY <1>2, FS_Subset
<1>4. IsFiniteSet(S \X (0..(Quarter - 1)))
  BY <1>2, <1>3, FS_Product
<1>5. Written(buf, S) \in SUBSET (S \X (0..(Quarter - 1)))
  BY DEF Written
<1>6. IsFiniteSet(Written(buf, S))
  BY <1>4, <1>5, FS_Subset
<1>. QED
  BY <1>3, <1>6, FS_CardinalityType

\* One label more.
LEMMA WrittenOneMore ==
    ASSUME NEW buf \in Seq(Nat), NEW S \in SUBSET Offsets(buf), NEW o \in Offsets(buf),
           o \notin S, IsText(buf, o)
    PROVE  Cardinality(Written(buf, S \cup {o})) = Cardinality(Written(buf, S)) + At(buf, o) + 1
<1>. DEFINE low == 0..(Quarter - 1)
            some == {o} \X (0..At(buf, o))
<1>1. At(buf, o) \in Nat /\ At(buf, o) <= Quarter - 1 /\ Quarter \in Nat
  BY OnwardIs, ScaleAssumption
<1>2. /\ IsFiniteSet(Written(buf, S)) /\ Cardinality(Written(buf, S)) \in Nat
      /\ Written(buf, S) \subseteq S \X low
  BY WrittenIsFinite DEF Written
<1>3. IsFiniteSet(some) /\ Cardinality(some) = At(buf, o) + 1
  <2>1. IsFiniteSet(0..At(buf, o)) /\ Cardinality(0..At(buf, o)) = At(buf, o) + 1
    BY <1>1, FS_Interval
  <2>2. IsFiniteSet({o}) /\ Cardinality({o}) = 1
    BY FS_Singleton
  <2>3. IsFiniteSet(some) /\ Cardinality(some) = Cardinality({o}) * Cardinality(0..At(buf, o))
    BY <2>1, <2>2, FS_Product
  <2>. HIDE DEF some
  <2>. QED
    BY <1>1, <2>1, <2>2, <2>3
<1>4. Written(buf, S \cup {o}) = Written(buf, S) \cup some
  <2>1. ASSUME NEW w \in Written(buf, S \cup {o}) PROVE w \in Written(buf, S) \cup some
    <3>1. w \in (S \cup {o}) \X low /\ w[2] <= At(buf, w[1])
      BY DEF Written
    <3>2. w = <<w[1], w[2]>> /\ w[1] \in S \cup {o} /\ w[2] \in low
      BY <3>1
    <3>3. CASE w[1] \in S
      <4>1. w \in S \X low
        BY <3>2, <3>3
      <4>. QED
        BY <3>1, <4>1 DEF Written
    <3>4. CASE w[1] = o
      <4>1. w[2] \in 0..At(buf, o)
        BY <1>1, <3>1, <3>2, <3>4
      <4>. QED
        BY <3>2, <3>4, <4>1
    <3>. QED
      BY <3>2, <3>3, <3>4
  <2>2. ASSUME NEW w \in some PROVE w \in Written(buf, S \cup {o})
    <3>1. w = <<o, w[2]>> /\ w[1] = o /\ w[2] \in 0..At(buf, o)
      OBVIOUS
    <3>2. w[2] \in low /\ w[2] <= At(buf, o)
      BY <1>1, <3>1
    <3>3. w \in (S \cup {o}) \X low
      BY <3>1, <3>2
    <3>. QED
      BY <3>1, <3>2, <3>3 DEF Written
  <2>3. ASSUME NEW w \in Written(buf, S) PROVE w \in Written(buf, S \cup {o})
    BY DEF Written
  <2>. HIDE DEF some
  <2>. QED
    BY <2>1, <2>2, <2>3
<1>5. Written(buf, S) \cap some = {}
  <2>1. \A w \in some : w[1] = o
    OBVIOUS
  <2>2. \A w \in Written(buf, S) : w[1] \in S
    BY <1>2
  <2>. HIDE DEF some
  <2>. QED
    BY <2>1, <2>2
<1>. HIDE DEF some
<1>6. Cardinality(Written(buf, S) \cup some)
         = Cardinality(Written(buf, S)) + Cardinality(some) - Cardinality(Written(buf, S) \cap some)
  BY <1>2, <1>3, FS_Union
<1>7. Cardinality(Written(buf, S) \cap some) = 0
  BY <1>5, FS_EmptySet
<1>8. Cardinality(Written(buf, S \cup {o}))
         = Cardinality(Written(buf, S)) + (At(buf, o) + 1) - 0
  BY <1>3, <1>4, <1>6, <1>7
<1>. QED
  BY <1>1, <1>2, <1>8

\* The labels among the first offsets of a way, and how long they are.
Texts(buf, p, n) == {o \in Offsets(buf) : IsText(buf, o) /\ \E j \in 0..(n - 1) : o = p[j]}
Sized(buf, p, n) == Cardinality(Written(buf, Texts(buf, p, n)))

LEMMA SizedIs ==
    ASSUME NEW buf \in Seq(Nat), NEW p
    PROVE  Sized(buf, p, 0) = 0 /\ \A n : Sized(buf, p, n) \in Nat
<1>1. \A n : Texts(buf, p, n) \in SUBSET Offsets(buf)
  BY DEF Texts
<1>2. \A n : Sized(buf, p, n) \in Nat
  BY <1>1, WrittenIsFinite DEF Sized
<1>3. Sized(buf, p, 0) = 0
  <2>1. 0..(0 - 1) = {}
    OBVIOUS
  <2>2. Texts(buf, p, 0) = {}
    BY <2>1 DEF Texts
  <2>3. Written(buf, {}) = {}
    BY DEF Written
  <2>. QED
    BY <2>2, <2>3, FS_EmptySet DEF Sized
<1>. QED
  BY <1>2, <1>3

LEMMA OtherAddsNothing ==
    ASSUME NEW buf \in Seq(Nat), NEW p, NEW n \in Nat, ~IsText(buf, p[n])
    PROVE  Sized(buf, p, n + 1) = Sized(buf, p, n)
<1>1. \A j : j \in 0..((n + 1) - 1) <=> j \in 0..(n - 1) \/ j = n
  OBVIOUS
<1>2. Texts(buf, p, n + 1) = Texts(buf, p, n)
  BY <1>1 DEF Texts
<1>. QED
  BY <1>2 DEF Sized

LEMMA TextAdds ==
    ASSUME NEW buf \in Seq(Nat), NEW p, NEW n \in Nat, p[n] \in Offsets(buf),
           IsText(buf, p[n]), \A j \in 0..(n - 1) : p[j] # p[n]
    PROVE  Sized(buf, p, n + 1) = Sized(buf, p, n) + At(buf, p[n]) + 1
<1>1. \A j : j \in 0..((n + 1) - 1) <=> j \in 0..(n - 1) \/ j = n
  OBVIOUS
<1>2. Texts(buf, p, n + 1) = Texts(buf, p, n) \cup {p[n]}
  BY <1>1 DEF Texts
<1>3. p[n] \notin Texts(buf, p, n) /\ Texts(buf, p, n) \in SUBSET Offsets(buf)
  BY DEF Texts
<1>4. Cardinality(Written(buf, Texts(buf, p, n) \cup {p[n]}))
          = Cardinality(Written(buf, Texts(buf, p, n))) + At(buf, p[n]) + 1
  BY <1>3, WrittenOneMore
<1>. QED
  BY <1>2, <1>4 DEF Sized

\* The first label of a way, its first offset that is none, and what follows that.
First(buf, p, i)  == IsText(buf, p[i]) /\ \A j \in 0..(i - 1) : ~IsText(buf, p[j])
Turns(buf, p, m)  == ~IsText(buf, p[m]) /\ \A j \in 0..(m - 1) : IsText(buf, p[j])
AfterIt(buf, o)   == o + IF IsPointer(At(buf, o)) THEN 2 ELSE 1

\* Its first n offsets may belong to a name.
Fits(buf, p, n) ==
    /\ Sized(buf, p, n) <= MaxExpanded
    /\ \A i \in 0..(n - 1) : First(buf, p, i) => EncodedName(buf, p[i])

LEMMA SomeFirst ==
    ASSUME NEW buf, NEW p, NEW K \in Nat, NEW i \in 0..(K - 1), IsText(buf, p[i])
    PROVE  \E k \in 0..(K - 1) : First(buf, p, k)
<1>. DEFINE S == {k \in 0..(K - 1) : IsText(buf, p[k])}
<1>1. S \in SUBSET Nat /\ S # {}
  OBVIOUS
<1>2. Least(S) \in S /\ \A k \in S : Least(S) <= k
  <2>. HIDE DEF S
  <2>. QED
    BY <1>1, LeastOf
<1>3. \A j \in 0..(Least(S) - 1) : j \in 0..(K - 1) /\ ~(Least(S) <= j)
  BY <1>2
<1>. QED
  BY <1>2, <1>3 DEF First

LEMMA TurnOf ==
    ASSUME NEW buf, NEW p, NEW K \in Nat, ~IsText(buf, p[K])
    PROVE  \E m \in 0..K : Turns(buf, p, m)
<1>. DEFINE S == {k \in 0..K : ~IsText(buf, p[k])}
<1>1. S \in SUBSET Nat /\ S # {}
  OBVIOUS
<1>2. Least(S) \in S /\ \A k \in S : Least(S) <= k
  <2>. HIDE DEF S
  <2>. QED
    BY <1>1, LeastOf
<1>3. \A j \in 0..(Least(S) - 1) : j \in 0..K /\ ~(Least(S) <= j)
  BY <1>2
<1>. QED
  BY <1>2, <1>3 DEF Turns

LEMMA OneFirst ==
    ASSUME NEW buf, NEW p, NEW i \in Nat, NEW j \in Nat, First(buf, p, i), First(buf, p, j)
    PROVE  i = j
<1>1. i < j => i \in 0..(j - 1)
  OBVIOUS
<1>2. j < i => j \in 0..(i - 1)
  OBVIOUS
<1>3. ~(i < j) /\ ~(j < i)
  BY <1>1, <1>2 DEF First
<1>. QED
  BY <1>3

\* What makes the name at the beginning of a way to a zero byte.
LEMMA IsNameOnPath ==
    ASSUME NEW buf \in Seq(Nat), NEW p, NEW K, Path(buf, p, K),
           NEW m \in 0..K, Turns(buf, p, m), NEW next
    PROVE  IsName(buf, p[0], next)
             <=> /\ Fits(buf, p, K) /\ \E i \in 0..(K - 1) : IsText(buf, p[i])
                 /\ next = AfterIt(buf, p[m])
<1>. DEFINE parts == Parts(buf, p[0])
            texts == {o \in parts \cap Offsets(buf) : IsText(buf, o)}
<1>1. K \in Nat /\ p \in [0..K -> Offsets(buf)] /\ 0 \in 0..K
  BY DEF Path
<1>2. At(buf, p[K]) = 0 /\ p[K] \in Offsets(buf) /\ ~IsText(buf, p[K])
  BY <1>1, OnwardIs DEF Path
<1>3. parts = {p[j] : j \in 0..K}
  <2>1. parts = Between(p, 0, K)
    BY <1>1, PartsOfPath
  <2>. QED
    BY <2>1 DEF Between
<1>4. parts \subseteq Offsets(buf)
  BY <1>1, <1>3
<1>5. \A o \in parts : Along(buf, o) \cup Back(buf, o) # {} \/ At(buf, o) = 0
  <2>1. ASSUME NEW j \in 0..K, j # K PROVE Onward(buf, p[j]) # {}
    <3>1. j + 1 \in 1..K /\ (j + 1) - 1 = j
      BY <1>1, <2>1
    <3>. QED
      BY <3>1 DEF Path
  <2>. HIDE DEF parts
  <2>. QED
    BY <1>2, <1>3, <2>1 DEF Onward
<1>6. \E o \in parts : At(buf, o) = 0
  <2>1. p[K] \in parts
    BY <1>1, <1>3
  <2>. QED
    BY <1>2, <2>1
<1>7. texts = Texts(buf, p, K)
  <2>1. ASSUME NEW j \in 0..K, IsText(buf, p[j]) PROVE j \in 0..(K - 1)
    BY <1>1, <1>2, <2>1
  <2>2. \A j \in 0..(K - 1) : j \in 0..K
    BY <1>1
  <2>3. \A o : o \in texts <=> o \in Offsets(buf) /\ IsText(buf, o) /\ \E j \in 0..K : o = p[j]
    BY <1>3
  <2>. HIDE DEF texts
  <2>4. \A o : o \in texts <=>
                  o \in Offsets(buf) /\ IsText(buf, o) /\ \E j \in 0..(K - 1) : o = p[j]
    BY <2>1, <2>2, <2>3
  <2>. QED
    BY <2>4 DEF Texts
<1>8. Cardinality(Written(buf, texts)) = Sized(buf, p, K)
  BY <1>7 DEF Sized
<1>9. (\E o \in texts : texts \subseteq Parts(buf, o) /\ EncodedName(buf, o))
         <=> \E i \in 0..(K - 1) : First(buf, p, i) /\ EncodedName(buf, p[i])
  <2>. HIDE DEF texts
  <2>1. \A o : o \in texts <=>
                  o \in Offsets(buf) /\ IsText(buf, o) /\ \E j \in 0..(K - 1) : o = p[j]
    BY <1>7 DEF Texts
  <2>2. ASSUME NEW i \in 0..(K - 1), First(buf, p, i)
        PROVE  p[i] \in texts /\ texts \subseteq Parts(buf, p[i])
    <3>1. i \in 0..K
      BY <1>1
    <3>2. Parts(buf, p[i]) = {p[j] : j \in i..K}
      <4>1. Parts(buf, p[i]) = Between(p, i, K)
        BY <3>1, PartsOfPath
      <4>. QED
        BY <4>1 DEF Between
    <3>3. \A j \in 0..(K - 1) : IsText(buf, p[j]) => j \in i..K
      <4>1. \A j \in 0..(K - 1) : j \in i..K \/ j \in 0..(i - 1)
        BY <1>1
      <4>. QED
        BY <2>2, <4>1 DEF First
    <3>. QED
      BY <1>1, <2>1, <2>2, <3>1, <3>2, <3>3 DEF First
  <2>3. ASSUME NEW i \in 0..(K - 1), p[i] \in texts, texts \subseteq Parts(buf, p[i])
        PROVE  First(buf, p, i)
    <3>1. i \in 0..K /\ IsText(buf, p[i])
      BY <1>1, <2>1, <2>3
    <3>2. Parts(buf, p[i]) = {p[j] : j \in i..K}
      <4>1. Parts(buf, p[i]) = Between(p, i, K)
        BY <3>1, PartsOfPath
      <4>. QED
        BY <4>1 DEF Between
    <3>3. ASSUME NEW k \in 0..(i - 1), IsText(buf, p[k]) PROVE FALSE
      <4>1. k \in 0..(K - 1) /\ k \in 0..K
        BY <1>1, <3>1
      <4>2. p[k] \in texts
        BY <1>1, <2>1, <3>3, <4>1
      <4>3. PICK j \in i..K : p[k] = p[j]
        BY <2>3, <3>2, <4>2
      <4>4. j \in 0..K
        BY <1>1, <3>1
      <4>5. k = j
        BY <4>1, <4>3, <4>4, Distinct
      <4>. QED
        BY <3>1, <4>5
    <3>. QED
      BY <3>1, <3>3 DEF First
  <2>. QED
    BY <2>1, <2>2, <2>3
<1>10. (\E i \in 0..(K - 1) : First(buf, p, i) /\ EncodedName(buf, p[i]))
         <=> /\ \E i \in 0..(K - 1) : IsText(buf, p[i])
             /\ \A i \in 0..(K - 1) : First(buf, p, i) => EncodedName(buf, p[i])
  <2>1. \A i \in 0..(K - 1) : First(buf, p, i) => IsText(buf, p[i])
    BY DEF First
  <2>2. \A i \in 0..(K - 1) : i \in Nat
    BY <1>1
  <2>3. \A i, j \in 0..(K - 1) : First(buf, p, i) /\ First(buf, p, j) => i = j
    BY <2>2, OneFirst
  <2>4. (\E i \in 0..(K - 1) : IsText(buf, p[i])) => \E i \in 0..(K - 1) : First(buf, p, i)
    BY <1>1, SomeFirst
  <2>. QED
    BY <2>1, <2>3, <2>4
<1>11. (\E o \in Inline(buf, p[0]) \ texts : next = o + IF IsPointer(At(buf, o)) THEN 2 ELSE 1)
         <=> next = AfterIt(buf, p[m])
  <2>1. Inline(buf, p[0]) = {p[i] : i \in 0..m}
    <3>1. Inline(buf, p[0]) = Between(p, 0, m)
      BY InlineOfPath DEF Turns
    <3>. QED
      BY <3>1 DEF Between
  <2>2. m \in 0..m /\ \A i \in 0..m : i \in 0..K /\ (i = m \/ i \in 0..(m - 1))
    BY <1>1
  <2>3. p[m] \notin texts
    BY DEF Turns
  <2>4. ASSUME NEW i \in 0..(m - 1) PROVE p[i] \in texts
    <3>1. i \in 0..K /\ IsText(buf, p[i])
      BY <1>1 DEF Turns
    <3>. QED
      BY <1>1, <1>3, <3>1
  <2>5. Inline(buf, p[0]) \ texts = {p[m]}
    <3>. HIDE DEF texts
    <3>. QED
      BY <2>1, <2>2, <2>3, <2>4
  <2>. HIDE DEF texts
  <2>. QED
    BY <2>5 DEF AfterIt
<1>12. IsName(buf, p[0], next)
         <=> /\ \E o \in texts : texts \subseteq Parts(buf, o) /\ EncodedName(buf, o)
             /\ Cardinality(Written(buf, texts)) <= MaxExpanded
             /\ \E o \in Inline(buf, p[0]) \ texts :
                   next = o + IF IsPointer(At(buf, o)) THEN 2 ELSE 1
  BY <1>4, <1>5, <1>6 DEF IsName
<1>. HIDE DEF texts, parts
<1>. QED
  BY <1>8, <1>9, <1>10, <1>11, <1>12 DEF Fits

LEMMA NameHasPath ==
    ASSUME NEW buf \in Seq(Nat), NEW off \in Nat, NEW next, IsName(buf, off, next)
    PROVE  \E K, p : Path(buf, p, K) /\ p[0] = off
<1>1. PICK o \in Parts(buf, off) : At(buf, o) = 0
  BY DEF IsName
<1>2. o \in Offsets(buf)
  BY DEF IsName
<1>. QED
  BY <1>1, <1>2, PathTo

----------------------------------------------------------------------------
(* skipNBNSName *)

State == [off : Nat, next : Int, expanded : Nat, end : {"no", "failed", "ok"}]
Begin(off) == [off |-> off, next |-> -1, expanded |-> 0, end |-> "no"]

\* What a pass makes of a state, by what is at its offset.
LEMMA PassIs ==
    ASSUME NEW buf \in Seq(Nat), NEW s \in State
    PROVE  /\ s.end # "no" => Pass(buf, s) = s
           /\ s.end = "no" /\ s.off >= Len(buf) => Pass(buf, s) = Failed(s)
           /\ s.end = "no" /\ s.off < Len(buf) =>
                /\ IsPointer(At(buf, s.off)) => Pass(buf, s) = Follow(buf, s)
                /\ IsText(buf, s.off) => Pass(buf, s) = Label(buf, s)
                /\ At(buf, s.off) = 0 => Pass(buf, s) = End(s)
                /\ ~IsPointer(At(buf, s.off)) /\ ~IsText(buf, s.off) /\ At(buf, s.off) # 0
                      => Pass(buf, s) = Failed(s)
<1>1. s.off \in Nat /\ Len(buf) \in Nat /\ Quarter \in Nat /\ Quarter > 0
  BY ScaleAssumption DEF State
<1>2. s.end # "no" => Pass(buf, s) = s
  BY DEF Pass
<1>3. s.end = "no" /\ s.off >= Len(buf) => Pass(buf, s) = Failed(s)
  BY <1>1 DEF Pass
<1>4. ASSUME s.end = "no", s.off < Len(buf)
      PROVE  /\ At(buf, s.off) \in Nat
             /\ Pass(buf, s) = IF IsPointer(At(buf, s.off)) THEN Follow(buf, s)
                               ELSE IF ~IsLength(At(buf, s.off)) THEN Failed(s)
                               ELSE IF At(buf, s.off) = 0 THEN End(s) ELSE Label(buf, s)
  <2>1. At(buf, s.off) \in Nat
    BY <1>1, <1>4 DEF At
  <2>. QED
    BY <1>1, <1>4, <2>1 DEF Pass
<1>5. ASSUME s.end = "no", s.off < Len(buf)
      PROVE  /\ IsPointer(At(buf, s.off)) => ~IsText(buf, s.off) /\ At(buf, s.off) # 0
             /\ At(buf, s.off) = 0 => IsLength(At(buf, s.off)) /\ ~IsPointer(At(buf, s.off))
             /\ IsText(buf, s.off) <=> IsLength(At(buf, s.off)) /\ At(buf, s.off) # 0
             /\ IsLength(At(buf, s.off)) => ~IsPointer(At(buf, s.off))
  BY <1>1, <1>4, <1>5 DEF IsPointer, IsLength, IsText
<1>. QED
  BY <1>2, <1>3, <1>4, <1>5

LEMMA TargetIs ==
    ASSUME NEW buf \in Seq(Nat), NEW o \in Nat, o + 1 < Len(buf)
    PROVE  Target(buf, o) \in Int
<1>1. At(buf, o) \in Nat /\ At(buf, o + 1) \in Nat
  BY DEF At
<1>2. Quarter \in Nat /\ LowBytes \in Nat
  BY ScaleAssumption
<1>3. At(buf, o) - 3 * Quarter \in Int
  BY <1>1, <1>2
<1>4. (At(buf, o) - 3 * Quarter) * LowBytes \in Int
  BY <1>2, <1>3
<1>. QED
  BY <1>1, <1>4 DEF Target

LEMMA PassInState ==
    ASSUME NEW buf \in Seq(Nat), NEW s \in State
    PROVE  Pass(buf, s) \in State
<1>1. s.off \in Nat /\ s.expanded \in Nat /\ s.next \in Int /\ HeaderSize \in Nat
  BY ScaleAssumption DEF State
<1>2. Failed(s) \in State
  BY DEF Failed, State
<1>3. End(s) \in State
  <2>1. (IF s.next < 0 THEN s.off + 1 ELSE s.next) \in Int
    BY <1>1
  <2>2. [s EXCEPT !.next = IF s.next < 0 THEN s.off + 1 ELSE s.next, !.end = "ok"] \in State
    BY <2>1 DEF State
  <2>. QED
    BY <1>2, <2>2 DEF End
<1>4. Follow(buf, s) \in State
  <2>. SUFFICES ASSUME ~(s.off + 1 >= Len(buf) \/ Target(buf, s.off) < HeaderSize
                            \/ Target(buf, s.off) >= s.off)
                PROVE  [s EXCEPT !.next = AfterFirst(s), !.off = Target(buf, s.off)] \in State
    BY <1>2 DEF Follow
  <2>1. Target(buf, s.off) \in Nat
    BY <1>1, TargetIs
  <2>2. AfterFirst(s) \in Int
    BY <1>1 DEF AfterFirst
  <2>. QED
    BY <2>1, <2>2 DEF State
<1>5. ASSUME s.off < Len(buf) PROVE Label(buf, s) \in State
  <2>1. At(buf, s.off) \in Nat
    BY <1>1, <1>5 DEF At
  <2>2. s.expanded + (At(buf, s.off) + 1) \in Nat /\ s.off + (At(buf, s.off) + 1) \in Nat
    BY <1>1, <2>1
  <2>. QED
    BY <1>2, <2>2 DEF Label, State
<1>6. s.end # "no" \/ s.off >= Len(buf) \/ s.off < Len(buf)
  BY <1>1
<1>. QED
  BY <1>2, <1>3, <1>4, <1>5, <1>6, PassIs

Skips(buf, off, s) ==
    SkipName(buf, off).off = s.next /\ (SkipName(buf, off).ok <=> s.end = "ok")

\* The states of the loop, each a pass on from the one before.
Passes(f, buf, off) ==
    /\ f \in [0..Len(buf) -> State] /\ f[0] = Begin(off)
    /\ \A n \in 1..Len(buf) : f[n] = Pass(buf, f[n - 1])
    /\ Skips(buf, off, f[Len(buf)])

LEMMA PassesAre ==
    ASSUME NEW buf \in Seq(Nat), NEW off \in Nat
    PROVE  \E f : Passes(f, buf, off)
<1>. DEFINE len == Len(buf)
            V == State
            G == [q \in (1..len) \X V |-> Pass(buf, q[2])]
            IsIt(f) == f = [n \in 0..len |->
                               IF n = 0 THEN [off |-> off, next |-> -1, expanded |-> 0, end |-> "no"]
                               ELSE Pass(buf, f[n - 1])]
            passed == CHOOSE f : IsIt(f)
<1>1. len \in Nat /\ Begin(off) \in V
  BY DEF Begin, State
<1>2. PICK f : Follows(f, len, V, Begin(off), G)
  <2>1. G \in [(1..len) \X V -> V]
    BY PassInState
  <2>. HIDE DEF G, len, V
  <2>. QED
    BY <1>1, <2>1, Recursion, Zenon
<1>3. ASSUME NEW n \in 1..len PROVE f[n] = Pass(buf, f[n - 1])
  <2>1. n - 1 \in 0..len
    BY <1>1
  <2>2. f[n - 1] \in V
    <3>. HIDE DEF G, len, V
    <3>. QED
      BY <1>2, <2>1 DEF Follows
  <2>3. G[<<n, f[n - 1]>>] = Pass(buf, f[n - 1])
    <3>. HIDE DEF len, V
    <3>. QED
      BY <2>2
  <2>. HIDE DEF G, len, V
  <2>. QED
    BY <1>2, <2>3 DEF Follows
<1>4. IsIt(f)
  <2>. HIDE DEF G, len, V
  <2>1. f = [n \in 0..len |-> f[n]] /\ f[0] = Begin(off)
    BY <1>2 DEF Follows
  <2>2. \A n \in 0..len : f[n] = IF n = 0 THEN Begin(off) ELSE Pass(buf, f[n - 1])
    <3>1. \A n \in 0..len : n = 0 \/ n \in 1..len
      BY <1>1
    <3>. QED
      BY <1>3, <2>1, <3>1, Zenon
  <2>. QED
    BY <2>1, <2>2, Zenon DEF Begin
<1>5. IsIt(passed)
  <2>. HIDE DEF IsIt
  <2>. QED
    BY <1>4
<1>6. Skips(buf, off, passed[len])
  <2>1. SkipName(buf, off) = [off |-> passed[len].next, ok |-> passed[len].end = "ok"]
    BY DEF SkipName
  <2>. HIDE DEF passed
  <2>2. SkipName(buf, off).off = passed[len].next
    BY <2>1
  <2>3. SkipName(buf, off).ok = (passed[len].end = "ok")
    BY <2>1
  <2>. QED
    BY <2>2, <2>3 DEF Skips
<1>. HIDE DEF passed
<1>7. passed[0] = Begin(off) /\ \A n \in 1..len : passed[n] = Pass(buf, passed[n - 1])
  <2>. HIDE DEF len
  <2>1. passed = [n \in 0..len |-> IF n = 0 THEN Begin(off) ELSE Pass(buf, passed[n - 1])]
    BY <1>5 DEF Begin
  <2>2. 0 \in 0..len /\ \A n \in 1..len : n \in 0..len /\ n # 0
    BY <1>1
  <2>. QED
    BY <2>1, <2>2
<1>8. passed \in [0..len -> State]
  <2>1. passed = [n \in 0..len |-> IF n = 0 THEN Begin(off) ELSE Pass(buf, passed[n - 1])]
    BY <1>5 DEF Begin
  <2>. DEFINE T == {n \in Nat : n <= len => passed[n] \in State}
  <2>2. 0 \in T
    BY <1>1, <1>7
  <2>3. ASSUME NEW n \in Nat, n \in T PROVE n + 1 \in T
    <3>. SUFFICES ASSUME n + 1 <= len PROVE passed[n + 1] \in State
      OBVIOUS
    <3>1. n + 1 \in 1..len /\ (n + 1) - 1 = n /\ passed[n] \in State
      BY <1>1, <2>3
    <3>2. passed[n + 1] = Pass(buf, passed[n])
      BY <1>7, <3>1
    <3>. QED
      BY <3>1, <3>2, PassInState
  <2>4. Nat \subseteq T
    <3>. HIDE DEF T
    <3>. QED
      BY <2>2, <2>3, SetInduction
  <2>5. \A n \in 0..len : passed[n] \in State
    BY <1>1, <2>4
  <2>. QED
    BY <2>1, <2>5
<1>. QED
  BY <1>6, <1>7, <1>8 DEF Passes

\* A pass that does not end the loop leads onward, one that finds a name is at its zero byte.
LEMMA PassLeadsOn ==
    ASSUME NEW buf \in Seq(Nat), NEW s \in State, s.end = "no", s.off >= HeaderSize
    PROVE  /\ Pass(buf, s).end = "no" =>
                /\ s.off \in Offsets(buf) /\ Onward(buf, s.off) = {Pass(buf, s).off}
                /\ Pass(buf, s).off >= HeaderSize
           /\ Pass(buf, s).end = "ok" => s.off \in Offsets(buf) /\ At(buf, s.off) = 0
<1>1. s.off \in Nat /\ Len(buf) \in Nat /\ HeaderSize \in Nat /\ HeaderSize > 0
  BY ScaleAssumption DEF State
<1>2. Failed(s).end = "failed"
  BY DEF Failed, State
<1>3. CASE s.off >= Len(buf)
  BY <1>2, <1>3, PassIs
<1>4. CASE s.off < Len(buf)
  <2>1. s.off \in Offsets(buf) /\ At(buf, s.off) \in Nat
    BY <1>1, <1>4 DEF Offsets, At
  <2>2. CASE IsPointer(At(buf, s.off))
    <3>1. Pass(buf, s) = Follow(buf, s)
      BY <1>4, <2>2, PassIs
    <3>2. CASE \/ s.off + 1 >= Len(buf) \/ Target(buf, s.off) < HeaderSize
               \/ Target(buf, s.off) >= s.off
      BY <1>2, <3>1, <3>2 DEF Follow
    <3>3. CASE ~(\/ s.off + 1 >= Len(buf) \/ Target(buf, s.off) < HeaderSize
                 \/ Target(buf, s.off) >= s.off)
      <4>1. Pass(buf, s).end = "no" /\ Pass(buf, s).off = Target(buf, s.off)
        BY <3>1, <3>3 DEF Follow, State
      <4>2. s.off + 1 < Len(buf)
        BY <1>1, <3>3
      <4>3. Target(buf, s.off) \in Int
        BY <1>1, <4>2, TargetIs
      <4>4. Target(buf, s.off) \in HeaderSize..(s.off - 1)
        BY <1>1, <3>3, <4>3
      <4>5. Back(buf, s.off) = {Target(buf, s.off)}
        BY <2>2, <4>2, <4>4 DEF Back, IsLink
      <4>6. Onward(buf, s.off) = {Target(buf, s.off)}
        <5>1. ~IsText(buf, s.off)
          BY <2>1, <2>2, ScaleAssumption DEF IsText, IsLength, IsPointer
        <5>2. Along(buf, s.off) = {}
          BY <5>1 DEF Along
        <5>. QED
          BY <4>5, <5>2 DEF Onward
      <4>. QED
        BY <1>1, <2>1, <4>1, <4>4, <4>6
    <3>. QED
      BY <3>2, <3>3
  <2>3. CASE IsText(buf, s.off)
    <3>1. Pass(buf, s) = Label(buf, s)
      BY <1>4, <2>3, PassIs
    <3>2. \/ Pass(buf, s).end = "no" /\ Pass(buf, s).off = s.off + (At(buf, s.off) + 1)
          \/ Pass(buf, s) = Failed(s)
      BY <3>1 DEF Label, State
    <3>3. Onward(buf, s.off) = {s.off + At(buf, s.off) + 1}
      BY <2>1, <2>3, OnwardIs
    <3>. QED
      BY <1>1, <1>2, <2>1, <3>2, <3>3
  <2>4. CASE At(buf, s.off) = 0
    <3>1. Pass(buf, s) = End(s)
      BY <1>4, <2>4, PassIs
    <3>2. Pass(buf, s).end # "no"
      BY <1>2, <3>1 DEF End, State
    <3>. QED
      BY <2>1, <2>4, <3>2
  <2>5. CASE ~IsPointer(At(buf, s.off)) /\ ~IsText(buf, s.off) /\ At(buf, s.off) # 0
    BY <1>2, <1>4, <2>5, PassIs
  <2>. QED
    BY <2>2, <2>3, <2>4, <2>5
<1>. QED
  BY <1>1, <1>3, <1>4

\* An end is one for good.
LEMMA EndStays ==
    ASSUME NEW buf \in Seq(Nat), NEW off, NEW f, Passes(f, buf, off),
           NEW n \in 0..Len(buf), f[n].end # "no"
    PROVE  Skips(buf, off, f[n])
<1>. DEFINE len == Len(buf)
            T == {k \in Nat : n + k <= len => f[n + k] = f[n]}
<1>1. len \in Nat /\ n \in Nat /\ n <= len
  OBVIOUS
<1>2. 0 \in T
  BY <1>1
<1>3. ASSUME NEW k \in Nat, k \in T PROVE k + 1 \in T
  <2>. SUFFICES ASSUME n + (k + 1) <= len PROVE f[n + (k + 1)] = f[n]
    OBVIOUS
  <2>1. n + (k + 1) \in 1..len /\ (n + (k + 1)) - 1 = n + k /\ n + k \in 0..len /\ f[n + k] = f[n]
    BY <1>1, <1>3
  <2>2. f[n + (k + 1)] = Pass(buf, f[n + k]) /\ f[n + k] \in State
    BY <2>1 DEF Passes
  <2>. QED
    BY <2>1, <2>2, PassIs
<1>4. Nat \subseteq T
  <2>. HIDE DEF T
  <2>. QED
    BY <1>2, <1>3, SetInduction
<1>5. n + (len - n) = len /\ len - n \in Nat
  BY <1>1
<1>6. f[len] = f[n]
  BY <1>1, <1>4, <1>5
<1>. QED
  BY <1>6 DEF Passes

\* Where the loop finds a name, its passes were a way to a zero byte.
LEMMA PassesArePath ==
    ASSUME NEW buf \in Seq(Nat), NEW off \in Nat, off >= HeaderSize, SkipName(buf, off).ok
    PROVE  \E K, p : Path(buf, p, K) /\ p[0] = off
<1>. DEFINE len == Len(buf)
<1>1. PICK f : Passes(f, buf, off)
  BY PassesAre, Zenon
<1>2. len \in Nat /\ f \in [0..len -> State] /\ f[0] = Begin(off)
  BY <1>1 DEF Passes
<1>3. f[len].end = "ok"
  BY <1>1 DEF Passes, Skips
<1>. DEFINE S == {n \in 0..len : f[n].end # "no"}
            N == Least(S)
            K == N - 1
            p == [i \in 0..K |-> f[i].off]
<1>4. N \in S /\ \A n \in S : N <= n
  <2>1. S \in SUBSET Nat /\ S # {}
    BY <1>2, <1>3
  <2>. HIDE DEF S
  <2>. QED
    BY <2>1, LeastOf
<1>. HIDE DEF N
<1>5. N \in 1..len /\ K \in Nat /\ K \in 0..len
  <2>1. f[0].end = "no"
    BY <1>2 DEF Begin
  <2>. QED
    BY <1>2, <1>4, <2>1
<1>6. f[N].end = "ok"
  <2>1. Skips(buf, off, f[N])
    BY <1>1, <1>4, EndStays
  <2>. QED
    BY <2>1 DEF Skips
<1>7. \A i \in 0..K : i \in 0..len /\ f[i].end = "no" /\ f[i] \in State
  BY <1>2, <1>4, <1>5
<1>8. \A i \in 1..N : i \in 1..len /\ i - 1 \in 0..K /\ f[i] = Pass(buf, f[i - 1])
  <2>1. \A i \in 1..N : i \in 1..len /\ i - 1 \in 0..K
    BY <1>2, <1>5
  <2>. QED
    BY <1>1, <2>1 DEF Passes
<1>. HIDE DEF S, K
<1>. DEFINE T == {i \in Nat : i <= K => f[i].off >= HeaderSize}
<1>9. Nat \subseteq T
  <2>1. 0 \in T
    BY <1>2 DEF Begin
  <2>2. ASSUME NEW i \in Nat, i \in T PROVE i + 1 \in T
    <3>. SUFFICES ASSUME i + 1 <= K PROVE f[i + 1].off >= HeaderSize
      OBVIOUS
    <3>1. i + 1 \in 1..N /\ (i + 1) - 1 = i /\ i \in 0..K /\ i + 1 \in 0..K
      BY <1>5 DEF K
    <3>2. f[i + 1] = Pass(buf, f[i]) /\ f[i + 1].end = "no" /\ f[i].end = "no" /\ f[i] \in State
      BY <1>7, <1>8, <3>1
    <3>3. f[i].off >= HeaderSize
      BY <1>5, <2>2, <3>1
    <3>. QED
      BY <3>2, <3>3, PassLeadsOn
  <2>. HIDE DEF T
  <2>. QED
    BY <2>1, <2>2, SetInduction
<1>10. \A i \in 0..K : f[i].off >= HeaderSize /\ p[i] = f[i].off
  BY <1>5, <1>9
<1>11. ASSUME NEW i \in 1..K PROVE p[i - 1] \in Offsets(buf) /\ Onward(buf, p[i - 1]) = {p[i]}
  <2>1. i \in 1..N /\ i - 1 \in 0..K /\ i \in 0..K
    BY <1>5 DEF K
  <2>. HIDE DEF p
  <2>2. f[i] = Pass(buf, f[i - 1]) /\ f[i].end = "no" /\ f[i - 1].end = "no" /\ f[i - 1] \in State
    BY <1>7, <1>8, <2>1
  <2>. QED
    BY <1>10, <2>1, <2>2, PassLeadsOn
<1>12. p[K] \in Offsets(buf) /\ At(buf, p[K]) = 0
  <2>1. N \in 1..N /\ N - 1 = K /\ K \in 0..K
    BY <1>5 DEF K
  <2>. HIDE DEF p
  <2>2. f[N] = Pass(buf, f[K]) /\ f[K].end = "no" /\ f[K] \in State
    BY <1>7, <1>8, <2>1
  <2>. QED
    BY <1>6, <1>10, <2>1, <2>2, PassLeadsOn
<1>13. p \in [0..K -> Offsets(buf)]
  <2>1. \A i \in 0..K : p[i] \in Offsets(buf)
    <3>1. \A i \in 0..K : i = K \/ (i + 1 \in 1..K /\ (i + 1) - 1 = i)
      BY <1>5
    <3>. HIDE DEF p
    <3>. QED
      BY <1>11, <1>12, <3>1
  <2>. QED
    BY <2>1
<1>14. p[0] = off
  BY <1>2, <1>5 DEF Begin
<1>. HIDE DEF p
<1>15. Path(buf, p, K)
  BY <1>5, <1>11, <1>12, <1>13 DEF Path
<1>. QED
  BY <1>14, <1>15

\* Nothing is written exactly if there is no label.
LEMMA NoSize ==
    ASSUME NEW buf \in Seq(Nat), NEW p, NEW n \in Nat, \A j \in 0..(n - 1) : p[j] \in Offsets(buf)
    PROVE  Sized(buf, p, n) = 0 <=> \A j \in 0..(n - 1) : ~IsText(buf, p[j])
<1>. DEFINE texts == Texts(buf, p, n)
<1>1. texts \in SUBSET Offsets(buf)
  BY DEF Texts
<1>2. Sized(buf, p, n) = 0 <=> Written(buf, texts) = {}
  <2>1. IsFiniteSet(Written(buf, texts))
    BY <1>1, WrittenIsFinite
  <2>. QED
    BY <2>1, FS_EmptySet DEF Sized
<1>3. ASSUME NEW o \in texts PROVE <<o, 0>> \in Written(buf, texts)
  <2>1. o \in Offsets(buf) /\ 0 \in 0..(Quarter - 1) /\ 0 <= At(buf, o)
    BY <1>1, OnwardIs, ScaleAssumption
  <2>2. <<o, 0>> \in texts \X (0..(Quarter - 1)) /\ <<o, 0>>[1] = o /\ <<o, 0>>[2] = 0
    BY <2>1
  <2>. HIDE DEF texts
  <2>. QED
    BY <2>1, <2>2 DEF Written
<1>4. texts = {} => Written(buf, texts) = {}
  BY DEF Written
<1>5. texts = {} <=> \A j \in 0..(n - 1) : ~IsText(buf, p[j])
  BY DEF Texts
<1>. HIDE DEF texts
<1>. QED
  BY <1>2, <1>3, <1>4, <1>5

\* One offset of a way more.
LEMMA FitsOn ==
    ASSUME NEW buf \in Seq(Nat), NEW p, NEW K, Path(buf, p, K), NEW n \in 0..(K - 1)
    PROVE  /\ Sized(buf, p, n) \in Nat
           /\ ~IsText(buf, p[n]) => /\ Sized(buf, p, n + 1) = Sized(buf, p, n)
                                    /\ Fits(buf, p, n + 1) <=> Fits(buf, p, n)
           /\ IsText(buf, p[n]) =>
                /\ Sized(buf, p, n + 1) = Sized(buf, p, n) + At(buf, p[n]) + 1
                /\ Fits(buf, p, n + 1)
                     <=> /\ Fits(buf, p, n) /\ Sized(buf, p, n) + At(buf, p[n]) + 1 <= MaxExpanded
                         /\ Sized(buf, p, n) = 0 => EncodedName(buf, p[n])
<1>1. K \in Nat /\ n \in Nat /\ n \in 0..K /\ p \in [0..K -> Offsets(buf)] /\ MaxExpanded \in Nat
  BY ScaleAssumption DEF Path
<1>2. \A j \in 0..(n - 1) : j \in 0..K /\ p[j] \in Offsets(buf) /\ j # n
  BY <1>1
<1>3. p[n] \in Offsets(buf) /\ At(buf, p[n]) \in Nat
  BY <1>1, OnwardIs
<1>4. \A j \in 0..(n - 1) : p[j] # p[n]
  BY <1>1, <1>2, Distinct
<1>5. Sized(buf, p, n) \in Nat
  BY <1>1, SizedIs
<1>6. ~IsText(buf, p[n]) => Sized(buf, p, n + 1) = Sized(buf, p, n)
  BY <1>1, OtherAddsNothing
<1>7. IsText(buf, p[n]) => Sized(buf, p, n + 1) = Sized(buf, p, n) + At(buf, p[n]) + 1
  BY <1>1, <1>3, <1>4, TextAdds
<1>8. First(buf, p, n) <=> IsText(buf, p[n]) /\ Sized(buf, p, n) = 0
  <2>1. Sized(buf, p, n) = 0 <=> \A j \in 0..(n - 1) : ~IsText(buf, p[j])
    BY <1>1, <1>2, NoSize
  <2>. QED
    BY <2>1 DEF First
<1>9. (\A i \in 0..((n + 1) - 1) : First(buf, p, i) => EncodedName(buf, p[i]))
         <=> /\ \A i \in 0..(n - 1) : First(buf, p, i) => EncodedName(buf, p[i])
             /\ First(buf, p, n) => EncodedName(buf, p[n])
  <2>1. \A i : i \in 0..((n + 1) - 1) <=> i \in 0..(n - 1) \/ i = n
    BY <1>1
  <2>. QED
    BY <2>1
<1>10. ~IsText(buf, p[n]) => (Fits(buf, p, n + 1) <=> Fits(buf, p, n))
  BY <1>6, <1>8, <1>9 DEF Fits
<1>11. ASSUME IsText(buf, p[n])
       PROVE  Fits(buf, p, n + 1)
                <=> /\ Fits(buf, p, n) /\ Sized(buf, p, n) + At(buf, p[n]) + 1 <= MaxExpanded
                    /\ Sized(buf, p, n) = 0 => EncodedName(buf, p[n])
  <2>1. Sized(buf, p, n + 1) = Sized(buf, p, n) + At(buf, p[n]) + 1
    BY <1>7, <1>11
  <2>2. Sized(buf, p, n) + At(buf, p[n]) + 1 <= MaxExpanded => Sized(buf, p, n) <= MaxExpanded
    BY <1>1, <1>3, <1>5
  <2>. QED
    BY <1>8, <1>9, <1>11, <2>1, <2>2 DEF Fits
<1>. QED
  BY <1>5, <1>6, <1>7, <1>10, <1>11

\* The state of the loop after n passes along a way.
NextBy(p, m, n) == IF n <= m THEN -1 ELSE p[m] + 2
Agrees(buf, p, m, n, s) ==
    /\ s \in State
    /\ s.end = IF Fits(buf, p, n) THEN "no" ELSE "failed"
    /\ Fits(buf, p, n) => /\ s.off = p[n] /\ s.expanded = Sized(buf, p, n)
                          /\ s.next = NextBy(p, m, n)

LEMMA PassOnPath ==
    ASSUME NEW buf \in Seq(Nat), NEW p, NEW K, Path(buf, p, K),
           NEW m \in 0..K, Turns(buf, p, m), NEW n \in 0..(K - 1),
           NEW s, Agrees(buf, p, m, n, s)
    PROVE  Agrees(buf, p, m, n + 1, Pass(buf, s))
<1>. DEFINE o == p[n]
<1>1. K \in Nat /\ n \in Nat /\ n \in 0..K /\ n + 1 \in 0..K /\ n + 1 \in 1..K /\ (n + 1) - 1 = n
  BY DEF Path
<1>2. /\ o \in Offsets(buf) /\ p[n + 1] \in Offsets(buf) /\ Onward(buf, o) = {p[n + 1]}
      /\ p[m] \in Offsets(buf)
  BY <1>1 DEF Path
<1>3. o \in Nat /\ o < Len(buf) /\ At(buf, o) \in Nat /\ p[n + 1] \in Nat /\ p[n + 1] < Len(buf)
      /\ p[m] \in Nat /\ Len(buf) \in Nat
  BY <1>2, OnwardIs
<1>4. s \in State /\ Pass(buf, s) \in State
  BY PassInState DEF Agrees
<1>5. CASE ~Fits(buf, p, n)
  <2>1. ~Fits(buf, p, n + 1)
    BY <1>5, FitsOn
  <2>2. s.end = "failed" /\ Pass(buf, s) = s
    BY <1>4, <1>5, PassIs DEF Agrees
  <2>. QED
    BY <1>4, <2>1, <2>2 DEF Agrees
<1>6. CASE Fits(buf, p, n)
  <2>1. /\ s.end = "no" /\ s.off = o /\ s.expanded = Sized(buf, p, n)
        /\ s.next = NextBy(p, m, n) /\ s.off < Len(buf)
    BY <1>3, <1>6 DEF Agrees
  <2>2. CASE IsText(buf, o)
    <3>1. Pass(buf, s) = Label(buf, s)
      BY <1>4, <2>1, <2>2, PassIs
    <3>2. p[n + 1] = o + At(buf, o) + 1
      BY <1>2, <2>2, OnwardIs
    <3>3. ~(s.off + (At(buf, s.off) + 1) > Len(buf)) /\ s.off + (At(buf, s.off) + 1) = p[n + 1]
      BY <1>3, <2>1, <3>2
    <3>4. /\ Sized(buf, p, n) \in Nat /\ MaxExpanded \in Nat
          /\ Sized(buf, p, n + 1) = Sized(buf, p, n) + At(buf, o) + 1
          /\ Fits(buf, p, n + 1)
                <=> /\ Sized(buf, p, n) + At(buf, o) + 1 <= MaxExpanded
                    /\ Sized(buf, p, n) = 0 => EncodedName(buf, o)
      BY <1>6, <2>2, FitsOn, ScaleAssumption
    <3>5. NextBy(p, m, n + 1) = NextBy(p, m, n)
      <4>1. n # m
        BY <2>2 DEF Turns
      <4>2. n + 1 <= m <=> n <= m
        BY <1>1, <4>1
      <4>. QED
        BY <4>2 DEF NextBy
    <3>6. CASE Fits(buf, p, n + 1)
      <4>1. ~(\/ s.off + (At(buf, s.off) + 1) > Len(buf)
              \/ s.expanded = 0 /\ ~EncodedName(buf, s.off)
              \/ s.expanded + (At(buf, s.off) + 1) > MaxExpanded)
        BY <1>3, <2>1, <3>3, <3>4, <3>6
      <4>2. Pass(buf, s) = [s EXCEPT !.expanded = @ + (At(buf, s.off) + 1),
                                     !.off = @ + (At(buf, s.off) + 1)]
        BY <3>1, <4>1 DEF Label
      <4>3. /\ Pass(buf, s).end = s.end /\ Pass(buf, s).next = s.next
            /\ Pass(buf, s).expanded = s.expanded + (At(buf, s.off) + 1)
            /\ Pass(buf, s).off = s.off + (At(buf, s.off) + 1)
        BY <1>4, <4>2 DEF State
      <4>4. Pass(buf, s).expanded = Sized(buf, p, n + 1)
        BY <1>3, <2>1, <3>4, <4>3
      <4>. QED
        BY <1>4, <2>1, <3>3, <3>5, <3>6, <4>3, <4>4 DEF Agrees
    <3>7. CASE ~Fits(buf, p, n + 1)
      <4>1. \/ s.expanded = 0 /\ ~EncodedName(buf, s.off)
            \/ s.expanded + (At(buf, s.off) + 1) > MaxExpanded
        BY <1>3, <2>1, <3>4, <3>7
      <4>2. Pass(buf, s) = Failed(s)
        BY <3>1, <4>1 DEF Label
      <4>3. Pass(buf, s).end = "failed"
        BY <1>4, <4>2 DEF Failed, State
      <4>. QED
        BY <1>4, <3>7, <4>3 DEF Agrees
    <3>. QED
      BY <3>6, <3>7
  <2>3. CASE ~IsText(buf, o)
    <3>1. IsLink(buf, o) /\ Target(buf, o) \in HeaderSize..(o - 1) /\ p[n + 1] = Target(buf, o)
      BY <1>2, <2>3, OnwardIs
    <3>2. Pass(buf, s) = Follow(buf, s)
      BY <1>4, <2>1, <3>1, PassIs DEF IsLink
    <3>3. HeaderSize \in Nat
      BY ScaleAssumption
    <3>4. ~(s.off + 1 >= Len(buf) \/ Target(buf, s.off) < HeaderSize
            \/ Target(buf, s.off) >= s.off)
      BY <1>3, <2>1, <3>1, <3>3 DEF IsLink
    <3>5. Pass(buf, s) = [s EXCEPT !.next = AfterFirst(s), !.off = Target(buf, s.off)]
      BY <3>2, <3>4 DEF Follow
    <3>6. /\ Pass(buf, s).end = "no" /\ Pass(buf, s).off = p[n + 1]
          /\ Pass(buf, s).expanded = s.expanded /\ Pass(buf, s).next = AfterFirst(s)
      BY <1>4, <2>1, <3>1, <3>5 DEF State
    <3>7. AfterFirst(s) = NextBy(p, m, n + 1)
      <4>1. m <= n
        <5>1. n < m => n \in 0..(m - 1)
          BY <1>1
        <5>2. ~(n < m)
          BY <2>3, <5>1 DEF Turns
        <5>. QED
          BY <1>1, <5>2
      <4>2. NextBy(p, m, n + 1) = p[m] + 2
        BY <1>1, <4>1 DEF NextBy
      <4>3. CASE n = m
        <5>1. s.next = -1 /\ s.off = p[m]
          BY <1>1, <2>1, <4>3 DEF NextBy
        <5>. QED
          BY <1>3, <4>2, <5>1 DEF AfterFirst
      <4>4. CASE n # m
        <5>1. s.next = p[m] + 2
          BY <1>1, <2>1, <4>1, <4>4 DEF NextBy
        <5>. QED
          BY <1>3, <4>2, <5>1 DEF AfterFirst
      <4>. QED
        BY <4>3, <4>4
    <3>8. Sized(buf, p, n + 1) = Sized(buf, p, n) /\ Fits(buf, p, n + 1)
      BY <1>6, <2>3, FitsOn
    <3>. QED
      BY <1>4, <2>1, <3>6, <3>7, <3>8 DEF Agrees
  <2>. QED
    BY <2>2, <2>3
<1>. QED
  BY <1>5, <1>6

\* What skipNBNSName makes of a way to a zero byte.
LEMMA SkipOnPath ==
    ASSUME NEW buf \in Seq(Nat), NEW p, NEW K, Path(buf, p, K),
           NEW m \in 0..K, Turns(buf, p, m)
    PROVE  /\ SkipName(buf, p[0]).ok
                <=> Fits(buf, p, K) /\ \E i \in 0..(K - 1) : IsText(buf, p[i])
           /\ SkipName(buf, p[0]).ok => SkipName(buf, p[0]).off = AfterIt(buf, p[m])
<1>. DEFINE len == Len(buf)
<1>1. K \in Nat /\ K < len /\ len \in Nat /\ p \in [0..K -> Offsets(buf)] /\ At(buf, p[K]) = 0
  <2>1. K < len
    BY PathIsShort
  <2>. QED
    BY <2>1 DEF Path
<1>2. p[0] \in Nat /\ p[K] \in Nat /\ p[K] < len /\ p[m] \in Nat /\ p[0] \in Offsets(buf)
      /\ p[m] \in Offsets(buf) /\ p[K] \in Offsets(buf)
  <2>1. 0 \in 0..K /\ K \in 0..K
    BY <1>1
  <2>2. p[0] \in Offsets(buf) /\ p[m] \in Offsets(buf) /\ p[K] \in Offsets(buf)
    BY <1>1, <2>1
  <2>. QED
    BY <2>2, OnwardIs
<1>3. PICK f : Passes(f, buf, p[0])
  BY <1>2, PassesAre, Zenon
<1>. DEFINE T == {n \in Nat : n <= K => Agrees(buf, p, m, n, f[n])}
<1>4. Nat \subseteq T
  <2>1. 0 \in T
    <3>1. f[0] = Begin(p[0]) /\ f[0] \in State
      <4>1. 0 \in 0..len
        BY <1>1
      <4>. QED
        BY <1>3, <4>1 DEF Passes
    <3>2. f[0].off = p[0] /\ f[0].expanded = 0 /\ f[0].end = "no" /\ f[0].next = -1
      BY <3>1 DEF Begin
    <3>3. Sized(buf, p, 0) = 0
      BY SizedIs
    <3>4. Fits(buf, p, 0)
      <4>1. 0..(0 - 1) = {} /\ MaxExpanded \in Nat
        BY ScaleAssumption
      <4>. QED
        BY <3>3, <4>1 DEF Fits
    <3>5. NextBy(p, m, 0) = -1
      BY <1>1 DEF NextBy
    <3>. QED
      BY <3>1, <3>2, <3>3, <3>4, <3>5 DEF Agrees
  <2>2. ASSUME NEW n \in Nat, n \in T PROVE n + 1 \in T
    <3>. SUFFICES ASSUME n + 1 <= K PROVE Agrees(buf, p, m, n + 1, f[n + 1])
      OBVIOUS
    <3>1. n \in 0..(K - 1) /\ Agrees(buf, p, m, n, f[n])
      BY <1>1, <2>2
    <3>2. n + 1 \in 1..len /\ (n + 1) - 1 = n
      BY <1>1
    <3>3. f[n + 1] = Pass(buf, f[n])
      BY <1>3, <3>2 DEF Passes
    <3>. QED
      BY <3>1, <3>3, PassOnPath
  <2>. HIDE DEF T
  <2>. QED
    BY <2>1, <2>2, SetInduction
<1>5. Agrees(buf, p, m, K, f[K])
  BY <1>1, <1>4
<1>6. K \in 0..len /\ K + 1 \in 0..len /\ f[K + 1] = Pass(buf, f[K]) /\ f[K] \in State
  <2>1. K + 1 \in 1..len /\ (K + 1) - 1 = K /\ K \in 0..len /\ K + 1 \in 0..len
    BY <1>1
  <2>. QED
    BY <1>3, <2>1 DEF Passes
<1>7. CASE ~Fits(buf, p, K)
  <2>1. f[K].end = "failed"
    BY <1>5, <1>7 DEF Agrees
  <2>2. Skips(buf, p[0], f[K])
    BY <1>3, <1>6, <2>1, EndStays
  <2>. QED
    BY <1>7, <2>1, <2>2 DEF Skips
<1>8. CASE Fits(buf, p, K)
  <2>1. /\ f[K].end = "no" /\ f[K].off = p[K] /\ f[K].expanded = Sized(buf, p, K)
        /\ f[K].next = NextBy(p, m, K)
    BY <1>5, <1>8 DEF Agrees
  <2>2. f[K + 1] = End(f[K])
    BY <1>1, <1>2, <1>6, <2>1, PassIs
  <2>3. Sized(buf, p, K) \in Nat
        /\ (Sized(buf, p, K) = 0 <=> \A j \in 0..(K - 1) : ~IsText(buf, p[j]))
    <3>1. \A j \in 0..(K - 1) : p[j] \in Offsets(buf)
      BY <1>1
    <3>. QED
      BY <1>1, <3>1, SizedIs, NoSize
  <2>4. CASE Sized(buf, p, K) = 0
    <3>1. f[K + 1].end = "failed"
      BY <1>6, <2>1, <2>2, <2>4 DEF End, Failed, State
    <3>2. Skips(buf, p[0], f[K + 1])
      BY <1>3, <1>6, <3>1, EndStays
    <3>. QED
      BY <2>3, <2>4, <3>1, <3>2 DEF Skips
  <2>5. CASE Sized(buf, p, K) # 0
    <3>1. f[K + 1] = [f[K] EXCEPT !.next = IF f[K].next < 0 THEN f[K].off + 1 ELSE f[K].next,
                                  !.end = "ok"]
      BY <2>1, <2>2, <2>3, <2>5 DEF End
    <3>2. /\ f[K + 1].end = "ok"
          /\ f[K + 1].next = IF NextBy(p, m, K) < 0 THEN p[K] + 1 ELSE NextBy(p, m, K)
      BY <1>6, <2>1, <3>1 DEF State
    <3>3. f[K + 1].next = AfterIt(buf, p[m])
      <4>1. CASE m = K
        <5>1. NextBy(p, m, K) = -1
          BY <1>1, <4>1 DEF NextBy
        <5>2. ~IsPointer(At(buf, p[K]))
          BY <1>1, <1>2, OnwardIs
        <5>. QED
          BY <3>2, <4>1, <5>1, <5>2 DEF AfterIt
      <4>2. CASE m # K
        <5>1. NextBy(p, m, K) = p[m] + 2
          BY <1>1, <4>2 DEF NextBy
        <5>2. m + 1 \in 1..K /\ (m + 1) - 1 = m
          BY <1>1, <4>2
        <5>3. Onward(buf, p[m]) # {} /\ ~IsText(buf, p[m])
          BY <5>2 DEF Path, Turns
        <5>4. IsPointer(At(buf, p[m]))
          BY <1>2, <5>3, OnwardIs DEF IsLink
        <5>. QED
          BY <1>2, <3>2, <5>1, <5>4 DEF AfterIt
      <4>. QED
        BY <4>1, <4>2
    <3>4. Skips(buf, p[0], f[K + 1])
      BY <1>3, <1>6, <3>2, EndStays
    <3>. QED
      BY <1>8, <2>3, <2>5, <3>2, <3>3, <3>4 DEF Skips
  <2>. QED
    BY <2>4, <2>5
<1>. QED
  BY <1>7, <1>8

\* nbns.go:153-154: of any bytes, skipNBNSName accepts exactly the names there are and returns
\* what follows them; as many passes as there are bytes never cut a name short.
THEOREM NamesAreSkipped ==
    ASSUME NEW buf \in Seq(Nat), NEW off \in Nat, off >= HeaderSize
    PROVE  /\ \A next : IsName(buf, off, next)
                          <=> SkipName(buf, off).ok /\ SkipName(buf, off).off = next
           /\ SkipName(buf, off).ok =>
                SkipName(buf, off).off \in Nat /\ SkipName(buf, off).off >= HeaderSize
<1>1. ASSUME NEW K, NEW p, Path(buf, p, K), p[0] = off
      PROVE  /\ \A next : IsName(buf, off, next)
                            <=> SkipName(buf, off).ok /\ SkipName(buf, off).off = next
             /\ SkipName(buf, off).ok =>
                  SkipName(buf, off).off \in Nat /\ SkipName(buf, off).off >= HeaderSize
  <2>1. K \in Nat /\ p \in [0..K -> Offsets(buf)] /\ At(buf, p[K]) = 0 /\ K \in 0..K
    BY <1>1 DEF Path
  <2>2. ~IsText(buf, p[K])
    BY <2>1, OnwardIs
  <2>3. PICK m \in 0..K : Turns(buf, p, m)
    BY <2>1, <2>2, TurnOf
  <2>4. \A next : IsName(buf, off, next)
                    <=> /\ Fits(buf, p, K) /\ \E i \in 0..(K - 1) : IsText(buf, p[i])
                        /\ next = AfterIt(buf, p[m])
    BY <1>1, <2>3, IsNameOnPath
  <2>5. /\ SkipName(buf, off).ok
             <=> Fits(buf, p, K) /\ \E i \in 0..(K - 1) : IsText(buf, p[i])
        /\ SkipName(buf, off).ok => SkipName(buf, off).off = AfterIt(buf, p[m])
    BY <1>1, <2>3, SkipOnPath
  <2>6. AfterIt(buf, p[m]) \in Nat /\ AfterIt(buf, p[m]) >= HeaderSize
    <3>1. p[m] \in Offsets(buf) /\ HeaderSize \in Nat
      BY <2>1, ScaleAssumption
    <3>. QED
      BY <3>1 DEF AfterIt, Offsets
  <2>. QED
    BY <2>4, <2>5, <2>6
<1>2. CASE \E K, p : Path(buf, p, K) /\ p[0] = off
  BY <1>1, <1>2
<1>3. CASE ~\E K, p : Path(buf, p, K) /\ p[0] = off
  <2>1. ~SkipName(buf, off).ok
    BY <1>3, PassesArePath
  <2>2. \A next : ~IsName(buf, off, next)
    BY <1>3, NameHasPath
  <2>. QED
    BY <2>1, <2>2
<1>. QED
  BY <1>2, <1>3

----------------------------------------------------------------------------
(* parseNBNSResponse *)

\* A question is passed exactly if it is one, and none is if none is announced.
LEMMA QuestionIs ==
    ASSUME NEW d \in Datagram
    PROVE  /\ Question(d).ok => Question(d).off \in Nat /\ Question(d).off >= HeaderSize
           /\ d.questions = 0 => Question(d).ok /\ Question(d).off = HeaderSize
           /\ d.questions # 0 =>
                /\ Question(d).ok
                      <=> \E q \in Offsets(d.bytes) :
                            IsStatusAt(d.bytes, q) /\ IsName(d.bytes, HeaderSize, q)
                /\ \A q \in Offsets(d.bytes) :
                      IsName(d.bytes, HeaderSize, q) => Question(d).off = q + 1
<1>. DEFINE buf == d.bytes
            s == SkipName(buf, HeaderSize)
<1>1. buf \in Seq(Nat) /\ d.questions \in Nat /\ HeaderSize \in Nat /\ Len(buf) \in Nat
  BY DatagramAssumption, ScaleAssumption
<1>2. /\ \A q : IsName(buf, HeaderSize, q) <=> s.ok /\ s.off = q
      /\ s.ok => s.off \in Nat /\ s.off >= HeaderSize
  <2>1. HeaderSize >= HeaderSize
    BY <1>1
  <2>. QED
    BY <1>1, <2>1, NamesAreSkipped
<1>3. d.questions = 0 => Question(d) = [off |-> HeaderSize, ok |-> TRUE]
  BY DEF Question
<1>4. ASSUME d.questions # 0
      PROVE  /\ Question(d).off = s.off + 1
             /\ Question(d).ok <=> s.ok /\ IsStatus(buf, s.off, 1)
  <2>1. Question(d) = [off |-> s.off + 1, ok |-> s.ok /\ IsStatus(buf, s.off, 1)]
    BY <1>4 DEF Question, TailSize
  <2>. HIDE DEF s, buf
  <2>2. Question(d).off = s.off + 1
    BY <2>1
  <2>3. Question(d).ok = (s.ok /\ IsStatus(buf, s.off, 1))
    BY <2>1
  <2>. QED
    BY <2>2, <2>3
<1>. HIDE DEF s
<1>5. ASSUME s.ok
      PROVE  IsStatus(buf, s.off, 1) <=> s.off \in Offsets(buf) /\ IsStatusAt(buf, s.off)
  BY <1>1, <1>2, <1>5 DEF IsStatus, IsStatusAt, Offsets
<1>6. ASSUME d.questions # 0
      PROVE  Question(d).ok
                <=> \E q \in Offsets(buf) : IsStatusAt(buf, q) /\ IsName(buf, HeaderSize, q)
  BY <1>2, <1>4, <1>5, <1>6
<1>7. ASSUME d.questions # 0, NEW q \in Offsets(buf), IsName(buf, HeaderSize, q)
      PROVE  Question(d).off = q + 1
  BY <1>2, <1>4, <1>7
<1>8. Question(d).ok => Question(d).off \in Nat /\ Question(d).off >= HeaderSize
  <2>1. CASE d.questions = 0
    BY <1>1, <1>3, <2>1
  <2>2. CASE d.questions # 0
    BY <1>1, <1>2, <1>4, <2>2
  <2>. QED
    BY <2>1, <2>2
<1>9. d.questions = 0 => Question(d).ok /\ Question(d).off = HeaderSize
  BY <1>3
<1>. QED
  BY <1>6, <1>7, <1>8, <1>9

\* The two names of an answer, as the loop passes them.
LEMMA NamesAre ==
    ASSUME NEW d \in Datagram, NEW name
    PROVE  (\/ d.questions = 0 /\ IsName(d.bytes, HeaderSize, name)
            \/ /\ d.questions = 1
               /\ \E q \in Offsets(d.bytes) :
                     /\ IsStatusAt(d.bytes, q)
                     /\ IsName(d.bytes, HeaderSize, q) /\ IsName(d.bytes, q + TailSize, name))
           <=> /\ d.questions <= 1 /\ Question(d).ok
               /\ SkipName(d.bytes, Question(d).off).ok
               /\ SkipName(d.bytes, Question(d).off).off = name
<1>. DEFINE buf == d.bytes
<1>1. buf \in Seq(Nat) /\ d.questions \in Nat
  BY DatagramAssumption
<1>2. ASSUME Question(d).ok
      PROVE  IsName(buf, Question(d).off, name)
                <=> /\ SkipName(buf, Question(d).off).ok
                    /\ SkipName(buf, Question(d).off).off = name
  BY <1>1, <1>2, QuestionIs, NamesAreSkipped
<1>3. CASE d.questions = 0
  <2>1. Question(d).ok /\ Question(d).off = HeaderSize
    BY <1>3, QuestionIs
  <2>. QED
    BY <1>2, <1>3, <2>1
<1>4. CASE d.questions = 1
  <2>1. /\ Question(d).ok
              <=> \E q \in Offsets(buf) : IsStatusAt(buf, q) /\ IsName(buf, HeaderSize, q)
        /\ \A q \in Offsets(buf) : IsName(buf, HeaderSize, q) => Question(d).off = q + TailSize
    BY <1>4, QuestionIs DEF TailSize
  <2>2. (\E q \in Offsets(buf) : /\ IsStatusAt(buf, q)
                                 /\ IsName(buf, HeaderSize, q) /\ IsName(buf, q + TailSize, name))
           <=> Question(d).ok /\ IsName(buf, Question(d).off, name)
    BY <2>1
  <2>. QED
    BY <1>2, <1>4, <2>2
<1>5. CASE d.questions # 0 /\ d.questions # 1
  BY <1>1, <1>5
<1>. QED
  BY <1>3, <1>4, <1>5

\* Where the data of an answer begins, and what parseNBNSResponse asks for first.
DataOf(d) == SkipName(d.bytes, Question(d).off).off + 2
Asked(d) ==
    /\ d.questions <= 1 /\ Question(d).ok /\ SkipName(d.bytes, Question(d).off).ok

LEMMA AnswersAre ==
    ASSUME NEW d \in Datagram, NEW off \in Offsets(d.bytes)
    PROVE  IsAnswer(d, off)
             <=> /\ d.header /\ Asked(d) /\ off = DataOf(d)
                 /\ At(d.bytes, off - 2) = Status /\ At(d.bytes, off - 1) = Len(d.bytes) - off
                 /\ Len(d.bytes) - off = 1 + At(d.bytes, off) * RecordSize + StatSize
<1>. DEFINE buf == d.bytes
            skip == SkipName(buf, Question(d).off)
<1>1. buf \in Seq(Nat) /\ HeaderSize \in Nat /\ off \in Nat /\ off < Len(buf) /\ Len(buf) \in Nat
  BY DatagramAssumption, ScaleAssumption DEF Offsets
<1>2. off - TailSize - MoreSize = off - 2 /\ off - 2 \in Int
  BY <1>1 DEF TailSize, MoreSize
<1>3. ASSUME Asked(d) PROVE skip.off \in Nat /\ skip.off >= HeaderSize
  <2>1. Question(d).off \in Nat /\ Question(d).off >= HeaderSize
    BY <1>3, QuestionIs DEF Asked
  <2>. QED
    BY <1>1, <1>3, <2>1, NamesAreSkipped DEF Asked
<1>. HIDE DEF skip
<1>4. (\/ d.questions = 0 /\ IsName(buf, HeaderSize, off - 2)
       \/ /\ d.questions = 1
          /\ \E q \in Offsets(buf) :
                /\ IsStatusAt(buf, q)
                /\ IsName(buf, HeaderSize, q) /\ IsName(buf, q + TailSize, off - 2))
         <=> Asked(d) /\ skip.off = off - 2
  <2>1. Asked(d) <=> d.questions <= 1 /\ Question(d).ok /\ skip.ok
    BY DEF Asked, skip
  <2>. QED
    BY <2>1, NamesAre DEF skip
<1>5. ASSUME Asked(d) PROVE skip.off = off - 2 <=> off = DataOf(d)
  BY <1>1, <1>3, <1>5 DEF DataOf, skip
<1>6. ASSUME Asked(d), skip.off = off - 2
      PROVE  IsStatusAt(buf, off - 2) <=> At(buf, off - 2) = Status
  BY <1>1, <1>2, <1>3, <1>6 DEF IsStatusAt, Offsets
<1>7. IsAnswer(d, off)
         <=> /\ d.header /\ IsStatusAt(buf, off - 2)
             /\ \/ d.questions = 0 /\ IsName(buf, HeaderSize, off - 2)
                \/ /\ d.questions = 1
                   /\ \E q \in Offsets(buf) :
                         /\ IsStatusAt(buf, q)
                         /\ IsName(buf, HeaderSize, q) /\ IsName(buf, q + TailSize, off - 2)
             /\ At(buf, off - 1) = Len(buf) - off
             /\ Len(buf) - off = 1 + At(buf, off) * RecordSize + StatSize
  BY <1>1, <1>2 DEF IsAnswer
<1>. QED
  BY <1>4, <1>5, <1>6, <1>7

DataFrom(d, off) == SubSeq(d.bytes, off + 1, Len(d.bytes))

\* The bytes of the data are those of the datagram.
LEMMA DataIs ==
    ASSUME NEW d \in Datagram, NEW off \in Offsets(d.bytes)
    PROVE  LET data == DataFrom(d, off)
           IN  /\ data \in Seq(Nat) /\ Len(data) = Len(d.bytes) - off /\ data # <<>>
               /\ Head(data) = At(d.bytes, off) /\ At(d.bytes, off) \in Nat
               /\ \A k \in 1..Len(data) : data[k] = At(d.bytes, off + k - 1) /\ data[k] \in Nat
<1>. DEFINE buf == d.bytes
            data == DataFrom(d, off)
<1>1. buf \in Seq(Nat) /\ off \in Nat /\ off < Len(buf) /\ Len(buf) \in Nat
  BY DatagramAssumption, ScaleAssumption DEF Offsets
<1>2. data \in Seq(Nat) /\ Len(data) = Len(buf) - off
  BY <1>1 DEF DataFrom
<1>3. \A k \in 1..Len(data) : data[k] = buf[off + k] /\ buf[off + k] \in Nat
  BY <1>1, <1>2 DEF DataFrom
<1>. HIDE DEF data
<1>4. \A k \in 1..Len(data) : off + k = (off + k - 1) + 1
  BY <1>1, <1>2
<1>5. data # <<>> /\ 1 \in 1..Len(data) /\ Head(data) = data[1]
  <2>1. Len(data) \in Nat /\ Len(data) > 0
    BY <1>1, <1>2
  <2>2. data # <<>>
    BY <2>1
  <2>3. 1 \in 1..Len(data)
    BY <2>1
  <2>4. Head(data) = data[1]
    BY <1>2, <2>2
  <2>. QED
    BY <2>2, <2>3, <2>4
<1>6. off + 1 = (off + 1 - 1) + 1 /\ data[1] = buf[off + 1] /\ buf[off + 1] \in Nat
  BY <1>1, <1>3, <1>5
<1>7. Head(data) = At(buf, off) /\ At(buf, off) \in Nat
  BY <1>5, <1>6 DEF At
<1>8. \A k \in 1..Len(data) : data[k] = At(buf, off + k - 1) /\ data[k] \in Nat
  BY <1>3, <1>4 DEF At
<1>. QED
  BY <1>2, <1>5, <1>7, <1>8 DEF data

\* A workstation is found exactly if a record is one.
LEMMA WorkstationIs ==
    ASSUME NEW n \in Nat, NEW records, DOMAIN records = 1..n
    PROVE  Workstation(records) # NoName
             <=> \E k \in 1..n : records[k].suffix = 0 /\ ~records[k].group
                                 /\ records[k].name # NoName
<1>. DEFINE S == {k \in DOMAIN records : records[k].suffix = 0 /\ ~records[k].group
                                         /\ records[k].name # NoName}
<1>1. Workstation(records) = IF S = {} THEN NoName ELSE records[Least(S)].name
  BY DEF Workstation, Least
<1>2. S # {} => Least(S) \in S
  <2>1. S \in SUBSET Nat
    OBVIOUS
  <2>. HIDE DEF S
  <2>. QED
    BY <2>1, LeastOf
<1>3. S # {} => records[Least(S)].name # NoName
  BY <1>2
<1>4. S # {} <=> \E k \in 1..n : records[k].suffix = 0 /\ ~records[k].group
                                 /\ records[k].name # NoName
  OBVIOUS
<1>. HIDE DEF S
<1>. QED
  BY <1>1, <1>3, <1>4

LEMMA RecordsAre ==
    ASSUME NEW d \in Datagram, NEW off \in Offsets(d.bytes),
           Len(DataFrom(d, off)) = 1 + At(d.bytes, off) * RecordSize + StatSize
    PROVE  Workstation(RecordsOf(DataFrom(d, off))) # NoName
             <=> \E n \in 1..At(d.bytes, off) :
                    LET at == off + 1 + (n - 1) * RecordSize
                    IN  /\ At(d.bytes, at) > 0 /\ At(d.bytes, at + 1) = 0
                        /\ At(d.bytes, at + 2) < 2 * Quarter
<1>. DEFINE buf == d.bytes
            data == DataFrom(d, off)
            all == At(buf, off)
            records == RecordsOf(data)
            Here(n) == off + 1 + (n - 1) * 3
<1>1. /\ data \in Seq(Nat) /\ Head(data) = all /\ all \in Nat /\ off \in Nat
      /\ Len(data) = 1 + all * 3 + StatSize /\ StatSize \in Nat /\ StatSize > 0
      /\ Quarter \in Nat
      /\ \A k \in 1..Len(data) : data[k] = At(buf, off + k - 1) /\ data[k] \in Nat
  <2>1. off \in Nat /\ StatSize \in Nat /\ StatSize > 0 /\ Quarter \in Nat
    BY ScaleAssumption DEF Offsets
  <2>2. Len(data) = 1 + all * 3 + StatSize
    BY DEF RecordSize
  <2>3. /\ data \in Seq(Nat) /\ Head(data) = all /\ all \in Nat
        /\ \A k \in 1..Len(data) : data[k] = At(buf, off + k - 1) /\ data[k] \in Nat
    BY DataIs
  <2>. QED
    BY <2>1, <2>2, <2>3
<1>. HIDE DEF data
<1>2. records = [n \in 1..all |-> [name |-> Sanitized(data[1 + (n - 1) * 3 + 1]),
                                   suffix |-> data[1 + (n - 1) * 3 + 2],
                                   group |-> data[1 + (n - 1) * 3 + 3] >= 2 * Quarter]]
  BY <1>1 DEF RecordsOf, RecordSize
<1>3. DOMAIN records = 1..all
  BY <1>2
<1>4. ASSUME NEW n \in 1..all
      PROVE  (records[n].suffix = 0 /\ ~records[n].group /\ records[n].name # NoName)
                <=> /\ At(buf, Here(n)) > 0 /\ At(buf, Here(n) + 1) = 0
                    /\ At(buf, Here(n) + 2) < 2 * Quarter
  <2>. DEFINE at == 1 + (n - 1) * 3
  <2>1. at \in Nat /\ at + 1 \in 1..Len(data) /\ at + 2 \in 1..Len(data) /\ at + 3 \in 1..Len(data)
    <3>1. n \in Nat /\ n >= 1 /\ n <= all /\ all \in Nat
      BY <1>1
    <3>2. Len(data) = 1 + all * 3 + StatSize /\ StatSize \in Nat
      BY <1>1
    <3>. HIDE DEF all
    <3>3. at \in Nat /\ at + 3 <= 1 + all * 3
      BY <3>1
    <3>. HIDE DEF at
    <3>4. Len(data) \in Nat /\ at + 3 <= Len(data)
      BY <3>1, <3>2, <3>3
    <3>. QED
      BY <3>3, <3>4
  <2>2. /\ off + (at + 1) - 1 = Here(n) /\ off + (at + 2) - 1 = Here(n) + 1
        /\ off + (at + 3) - 1 = Here(n) + 2
    BY <1>1
  <2>3. records[n] = [name |-> Sanitized(data[at + 1]), suffix |-> data[at + 2],
                      group |-> data[at + 3] >= 2 * Quarter]
    <3>. HIDE DEF records
    <3>. QED
      BY <1>2
  <2>. HIDE DEF at, Here, records
  <2>4. /\ data[at + 1] = At(buf, Here(n)) /\ data[at + 2] = At(buf, Here(n) + 1)
        /\ data[at + 3] = At(buf, Here(n) + 2)
        /\ data[at + 1] \in Nat /\ data[at + 2] \in Nat /\ data[at + 3] \in Nat
    BY <1>1, <2>1, <2>2
  <2>5. records[n].suffix = data[at + 2] /\ records[n].name = Sanitized(data[at + 1])
    BY <2>3
  <2>6. records[n].group = (data[at + 3] >= 2 * Quarter)
    BY <2>3
  <2>7. Sanitized(data[at + 1]) # NoName <=> data[at + 1] > 0
    <3>1. Sanitized(data[at + 1]) # NoName <=> data[at + 1] # 0
      BY DEF Sanitized, NoName
    <3>. QED
      BY <2>4, <3>1
  <2>8. ~(data[at + 3] >= 2 * Quarter) <=> data[at + 3] < 2 * Quarter
    <3>1. Quarter \in Nat /\ data[at + 3] \in Nat
      BY <1>1, <2>4
    <3>. QED
      BY <3>1
  <2>. QED
    BY <2>4, <2>5, <2>6, <2>7, <2>8
<1>. HIDE DEF records
<1>5. Workstation(records) # NoName
         <=> \E n \in 1..all : records[n].suffix = 0 /\ ~records[n].group
                               /\ records[n].name # NoName
  BY <1>1, <1>3, WorkstationIs
<1>. QED
  BY <1>4, <1>5 DEF RecordSize, records, data

\* What it makes of an answer whose names are passed, with data at off.
ParseFrom(d, skip, off) ==
    IF /\ d.header /\ d.questions <= 1 /\ Question(d).ok
       /\ skip.ok /\ IsStatus(d.bytes, skip.off, TailSize + MoreSize)
       /\ At(d.bytes, off - 1) = Len(DataFrom(d, off)) /\ DataFrom(d, off) # <<>>
       /\ IsWhole(DataFrom(d, off))
    THEN Workstation(RecordsOf(DataFrom(d, off))) ELSE NoName

\* nbns.go:86-89: of any datagram, parseNBNSResponse returns a name exactly if it is a whole
\* answer with a workstation's name.
THEOREM AnswersAreParsed ==
    ASSUME NEW d \in Datagram
    PROVE  Parse(d) # NoName <=> NamesMachine(d)
<1>. DEFINE buf == d.bytes
            skip == SkipName(buf, Question(d).off)
            off == DataOf(d)
            data == DataFrom(d, off)
            Whole == /\ d.header /\ Asked(d) /\ off \in Offsets(buf)
                     /\ At(buf, off - 2) = Status /\ At(buf, off - 1) = Len(buf) - off
                     /\ Len(buf) - off = 1 + At(buf, off) * RecordSize + StatSize
<1>1. /\ buf \in Seq(Nat) /\ d.questions \in Nat /\ HeaderSize \in Nat /\ HeaderSize > 0
      /\ Len(buf) \in Nat
  BY DatagramAssumption, ScaleAssumption
<1>2. ASSUME Asked(d)
      PROVE  skip.off \in Nat /\ skip.off >= HeaderSize /\ off = skip.off + 2 /\ off \in Nat
  <2>1. Question(d).off \in Nat /\ Question(d).off >= HeaderSize
    BY <1>2, QuestionIs DEF Asked
  <2>2. skip.off \in Nat /\ skip.off >= HeaderSize
    BY <1>1, <1>2, <2>1, NamesAreSkipped DEF Asked
  <2>. QED
    BY <2>2 DEF DataOf
<1>3. ASSUME ~Asked(d) PROVE Parse(d) = NoName
  BY <1>3 DEF Parse, Asked
<1>4. ASSUME Asked(d)
      PROVE  Parse(d) = IF /\ d.header /\ skip.off + 2 <= Len(buf) /\ At(buf, skip.off) = Status
                           /\ At(buf, off - 1) = Len(data) /\ data # <<>> /\ IsWhole(data)
                        THEN Workstation(RecordsOf(data)) ELSE NoName
  <2>1. skip.off + TailSize + MoreSize = off /\ TailSize + MoreSize = 2
    BY <1>2, <1>4 DEF TailSize, MoreSize
  <2>2. Parse(d) = ParseFrom(d, skip, skip.off + TailSize + MoreSize)
    BY DEF Parse, ParseFrom, DataFrom, skip
  <2>. HIDE DEF skip, off
  <2>3. Parse(d) = IF /\ d.header /\ d.questions <= 1 /\ Question(d).ok
                      /\ skip.ok /\ IsStatus(buf, skip.off, 2)
                      /\ At(buf, off - 1) = Len(data) /\ data # <<>> /\ IsWhole(data)
                   THEN Workstation(RecordsOf(data)) ELSE NoName
    BY <2>1, <2>2 DEF ParseFrom
  <2>4. d.questions <= 1 /\ Question(d).ok /\ skip.ok
    BY <1>4 DEF Asked, skip
  <2>. HIDE DEF data
  <2>. QED
    BY <2>3, <2>4 DEF IsStatus
<1>. HIDE DEF skip, off
<1>5. ASSUME Asked(d), ~(off \in Offsets(buf))
      PROVE  Parse(d) = NoName
  <2>1. off \in Nat /\ off = skip.off + 2 /\ off >= Len(buf)
    BY <1>1, <1>2, <1>5 DEF Offsets
  <2>2. CASE off = Len(buf)
    <3>1. data = <<>>
      BY <1>1, <2>1, <2>2 DEF DataFrom
    <3>. QED
      BY <1>4, <1>5, <3>1
  <2>3. CASE off > Len(buf)
    <3>1. ~(skip.off + 2 <= Len(buf))
      BY <1>1, <2>1, <2>3
    <3>. HIDE DEF data
    <3>. QED
      BY <1>4, <1>5, <3>1
  <2>. QED
    BY <1>1, <2>1, <2>2, <2>3
<1>6. ASSUME Asked(d), off \in Offsets(buf)
      PROVE  Parse(d) = IF Whole THEN Workstation(RecordsOf(data)) ELSE NoName
  <2>1. off \in Nat /\ off < Len(buf) /\ off - 2 = skip.off /\ skip.off + 2 <= Len(buf)
    BY <1>1, <1>2, <1>6 DEF Offsets
  <2>2. Len(data) = Len(buf) - off /\ data # <<>> /\ Head(data) = At(buf, off)
    BY <1>6, DataIs
  <2>. HIDE DEF data
  <2>. QED
    BY <1>4, <1>6, <2>1, <2>2 DEF IsWhole
<1>7. ASSUME NEW o \in Offsets(buf) PROVE IsAnswer(d, o) <=> o = off /\ Whole
  BY AnswersAre DEF off
<1>8. CASE Whole
  <2>1. off \in Offsets(buf) /\ Asked(d) /\ IsAnswer(d, off)
    BY <1>7, <1>8
  <2>2. Parse(d) = Workstation(RecordsOf(data))
    BY <1>6, <1>8, <2>1
  <2>3. Len(data) = 1 + At(buf, off) * RecordSize + StatSize
    <3>1. Len(data) = Len(buf) - off
      BY <2>1, DataIs
    <3>. HIDE DEF data
    <3>. QED
      BY <1>8, <3>1
  <2>4. Workstation(RecordsOf(data)) # NoName
           <=> \E n \in 1..At(buf, off) :
                  LET at == off + 1 + (n - 1) * RecordSize
                  IN  At(buf, at) > 0 /\ At(buf, at + 1) = 0 /\ At(buf, at + 2) < 2 * Quarter
    BY <2>1, <2>3, RecordsAre
  <2>5. NamesMachine(d)
           <=> \E n \in 1..At(buf, off) :
                  LET at == off + 1 + (n - 1) * RecordSize
                  IN  At(buf, at) > 0 /\ At(buf, at + 1) = 0 /\ At(buf, at + 2) < 2 * Quarter
    BY <1>7, <2>1 DEF NamesMachine
  <2>. HIDE DEF data
  <2>. QED
    BY <2>2, <2>4, <2>5
<1>9. CASE ~Whole
  <2>1. Parse(d) = NoName
    <3>. HIDE DEF data
    <3>. QED
      BY <1>3, <1>5, <1>6, <1>9
  <2>2. ~NamesMachine(d)
    BY <1>7, <1>9 DEF NamesMachine
  <2>. QED
    BY <2>1, <2>2
<1>. QED
  BY <1>8, <1>9

----------------------------------------------------------------------------
(* What NBNS returned *)

\* Nothing, or what the answer says, and that where no answer gets lost.
NameInv ==
    /\ net \in Network
    /\ nbnsName \in {NoName, NameIn[net.datagram]}
    /\ ~net.lossy /\ stage = "ports" /\ "nbns" \in net.answering => nbnsName = NameIn[net.datagram]

LEMMA NameInit == Init => NameInv
BY DEF Init, NameInv

LEMMA NameStep == NameInv /\ [Next]_vars => NameInv'
<1>. SUFFICES ASSUME NameInv, [Next]_vars PROVE NameInv'
  OBVIOUS
<1>1. CASE Start
  <2>1. stage' # "ports" /\ UNCHANGED <<net, nbnsName>>
    BY <1>1 DEF Start, found
  <2>. QED
    BY <2>1 DEF NameInv
<1>2. CASE Launch \/ Cancel \/ Heard \/ Over \/ UNCHANGED vars
  <2>1. UNCHANGED <<net, stage, nbnsName>>
    BY <1>2 DEF Launch, Cancel, Heard, Over, vars, found
  <2>. QED
    BY <2>1 DEF NameInv
<1>3. CASE \E s \in net.services : Announced(s)
  <2>1. UNCHANGED <<net, stage, nbnsName>>
    BY <1>3 DEF Announced, found
  <2>. QED
    BY <2>1 DEF NameInv
<1>4. CASE Pinged \/ Connected \/ Scanned \/ Resolved
  <2>1. UNCHANGED <<net, nbnsName>>
    BY <1>4 DEF Pinged, Connected, Scanned, Resolved, Answers, Fails, Lands, Refuses
  <2>2. stage' # "ports"
    BY <1>4 DEF Pinged, Connected, Scanned, Resolved, NextLookup
  <2>. QED
    BY <2>1, <2>2 DEF NameInv
<1>5. CASE Recheck \/ Report \/ Drop
  <2>1. stage' # "ports" /\ UNCHANGED <<net, nbnsName>>
    BY <1>5 DEF Recheck, Report, Drop, found
  <2>. QED
    BY <2>1 DEF NameInv
<1>6. CASE Queried
  <2>1. UNCHANGED net
    BY <1>6 DEF Queried, Answers, Fails, Lands, Refuses
  <2>2. CASE Answers /\ nbnsName' = NameIn[net.datagram]
    BY <2>1, <2>2 DEF NameInv
  <2>3. CASE Fails /\ UNCHANGED nbnsName
    <3>1. ~Refuses
      BY <1>6 DEF Queried, Refuses, Refused, Persistent
    <3>2. net.lossy \/ "nbns" \notin net.answering
      BY <1>6, <2>3, <3>1 DEF Queried, Fails, Lands
    <3>. QED
      BY <2>1, <2>3, <3>2 DEF NameInv
  <2>. QED
    BY <1>6, <2>2, <2>3 DEF Queried
<1>. QED
  BY <1>1, <1>2, <1>3, <1>4, <1>5, <1>6 DEF Next

\* nbns.go:87-89: whatever bytes a datagram is made of, however its names are written and
\* however their pointers lead from part to part, the name that NBNS returns is one that a
\* whole answer to the query gives a workstation, and without losses it returns it.
THEOREM AnswersNameMachines == Spec => []NameFromWholeAnswer
<1>1. NameInv => NameFromWholeAnswer
  <2>. SUFFICES ASSUME NameInv PROVE NameFromWholeAnswer
    OBVIOUS
  <2>1. net.datagram \in Datagram
    BY NetworkAssumption DEF NameInv
  <2>2. /\ NameIn[net.datagram] = Parse(net.datagram)
        /\ Naming[net.datagram] = NamesMachine(net.datagram)
    BY <2>1 DEF NameIn, Naming
  <2>3. NameIn[net.datagram] # NoName <=> Naming[net.datagram]
    BY <2>1, <2>2, AnswersAreParsed
  <2>. QED
    BY <2>3 DEF NameInv, NameFromWholeAnswer
<1>. QED
  BY <1>1, NameInit, NameStep, PTL DEF Spec
=============================================================================
