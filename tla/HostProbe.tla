------------------------------ MODULE HostProbe ------------------------------
(***************************************************************************)
(* One host's probe in time: probeOne of internal/scanner/active.go with   *)
(* the probes of internal/probe it calls one after the other, each with    *)
(* its own timeout and its own way to treat cancellation, down to what a   *)
(* NetBIOS answer says (Nbns), and what the update that comes of it does   *)
(* to the guess at the host's system, beside what the listeners learn of   *)
(* the host meanwhile (OSDetect).  The pool and the channel around it are  *)
(* ActiveWorker's.  A probe takes no time or its whole timeout.            *)
(***************************************************************************)
EXTENDS Nbns, OSDetect

CONSTANTS
    Datagram,       \* bound: the answers to a status query
    Network         \* bound: hosts and their networks, records of
                    \*   windows   the program runs on Windows
                    \*   lossy     answers may get lost or be late, and ctx cancelled
                    \*   known     the host is ARP-confirmed when the sweep starts
                    \*   gateway   the network has one
                    \*   answering the stages that get an answer
                    \*   datagram  the answer to a status query
                    \*   ttl, ports, vendor, services

\* Timeouts, in tenths of a second.
Timeout == [ping |-> 10, tcp |-> 2, nbns |-> 5, ports |-> 5,
            system |-> 5, gateway |-> 5, again |-> 5, mdns |-> 5]

ProbeStage == DOMAIN Timeout
Attempts   == 4     \* ports that tcpAlive tries

ASSUME NetworkAssumption ==
    \A n \in Network :
        /\ {n.windows, n.lossy, n.known, n.gateway} \subseteq BOOLEAN
        /\ n.answering \subseteq ProbeStage /\ n.datagram \in Datagram
        /\ n.ttl \in 1..255 /\ n.ports \subseteq Nat

\* The header is a verdict, and what follows are bytes.
ASSUME DatagramAssumption ==
    \A d \in Datagram : d.header \in BOOLEAN /\ d.questions \in Nat /\ d.bytes \in Seq(Nat)

VARIABLES
    net,        \* the host and its network; never changes
    stage,      \* the probe that is next or in flight, or what became of the host
    flying,     \* it is in flight
    attempt,    \* ports that tcpAlive tried
    cancelled,  \* ctx is done
    late,       \* tenths of a second since then
    alive,      \* the host answered the ping or a connection
    measured,   \* it answered the ping
    known,      \* it is ARP-confirmed
    nbnsName,   \* the name that NBNS returned
    ports,      \* the ports that ScanPorts returned
    hostname,   \* the stage whose name ResolveHostname returned
    device      \* what the merger knows of it, as OSDetect sees it

found == <<alive, measured, known, nbnsName, ports, hostname>>
vars == <<net, stage, flying, attempt, cancelled, late, found, device>>

Init ==
    /\ net \in Network
    /\ stage = "start" /\ flying = FALSE /\ attempt = 0
    /\ cancelled = FALSE /\ late = 0
    /\ alive = FALSE /\ measured = FALSE /\ known = net.known
    /\ nbnsName = NoName /\ ports = {} /\ hostname = NoName
    /\ device = [vendor |-> {}, services |-> {}, ports |-> {}, ttl |-> 0, nbns |-> FALSE]

\* What NBNS makes of an answer.
NameIn == [d \in Datagram |-> Parse(d)]

----------------------------------------------------------------------------
(* The probes: when they start, how long they last *)

Start ==
    /\ stage = "start"
    /\ stage' = IF cancelled THEN "dropped" ELSE "ping"
    /\ UNCHANGED <<net, flying, attempt, cancelled, late, found, device>>

\* Mutant: the lookup over mDNS does not look at ctx either.
PersistentLookups == {"nbns", "again", "mdns"}

\* NBNS sends its query whatever became of ctx.
Persistent == {"nbns", "again"}

Refused == cancelled /\ stage \notin Persistent

Launch ==
    /\ stage \in ProbeStage /\ ~flying /\ ~Refused
    /\ flying' = TRUE
    /\ UNCHANGED <<net, stage, attempt, cancelled, late, found, device>>

\* Cancellation ends it in flight: not a blocking echo (IcmpSendEcho), nor a read that
\* only its deadline ends (NBNS, mDNS); the system's resolver may be of either kind, on
\* Windows it is the program's own.
Interrupted ==
    /\ cancelled
    /\ CASE stage = "ping" -> net.windows = FALSE
         [] stage = "system" -> net.windows
         [] OTHER -> stage \in {"tcp", "ports", "gateway"}

\* No time, or all of its timeout.
Durations == IF Interrupted \/ ~net.lossy THEN {0} ELSE {0, Timeout[stage]}

\* The probe in flight ends, with an answer or without one.
Lands(answered) ==
    /\ flying /\ flying' = FALSE
    /\ IF answered THEN stage \in net.answering ELSE net.lossy \/ stage \notin net.answering
    /\ \E t \in Durations : late' = IF cancelled THEN late + t ELSE late
    /\ UNCHANGED <<net, cancelled, device>>

\* Without a flight it has no answer either.
Refuses ==
    /\ stage \in ProbeStage /\ ~flying /\ Refused
    /\ UNCHANGED <<net, flying, cancelled, late, device>>

Answers == Lands(TRUE)
Fails   == Lands(FALSE) \/ Refuses

----------------------------------------------------------------------------
(* probeOne *)

Pinged ==
    /\ stage = "ping"
    /\ \/ Answers /\ alive' = TRUE /\ measured' = TRUE /\ stage' = "nbns"
       \/ Fails /\ stage' = "tcp" /\ UNCHANGED <<alive, measured>>
    /\ UNCHANGED <<attempt, known, nbnsName, ports, hostname>>

\* One port of TCPAlive: a connection or its refusal.
Connected ==
    /\ stage = "tcp"
    /\ \/ Answers /\ alive' = TRUE /\ stage' = "nbns" /\ UNCHANGED attempt
       \/ /\ Fails /\ attempt' = attempt + 1 /\ UNCHANGED alive
          /\ stage' = IF cancelled \/ attempt' = Attempts THEN "recheck" ELSE "tcp"
    /\ UNCHANGED <<measured, known, nbnsName, ports, hostname>>

\* KnownIPs is asked again: probing itself may have made an ARP entry.
Recheck ==
    /\ stage = "recheck"
    /\ known' \in (IF known THEN {TRUE} ELSE IF net.lossy THEN BOOLEAN ELSE {FALSE})
    /\ stage' = IF known' THEN "nbns" ELSE "dropped"
    /\ UNCHANGED <<net, flying, attempt, cancelled, late, alive, measured, nbnsName, ports,
                   hostname, device>>

Queried ==
    /\ stage = "nbns"
    /\ \/ Answers /\ nbnsName' = NameIn[net.datagram]
       \/ Fails /\ UNCHANGED nbnsName
    /\ stage' = "ports"
    /\ UNCHANGED <<attempt, alive, measured, known, ports, hostname>>

\* ScanPorts; a host of which nothing was heard is none.
Scanned ==
    /\ stage = "ports"
    /\ \/ /\ Answers
          /\ ports' \in (IF net.lossy THEN SUBSET net.ports ELSE {net.ports})
       \/ Fails /\ UNCHANGED ports
    /\ stage' = IF alive \/ nbnsName # NoName \/ ports' # {} THEN "system" ELSE "dropped"
    /\ UNCHANGED <<attempt, alive, measured, known, nbnsName, hostname>>

\* ResolveHostname: the first of its lookups that returns a name.
NextLookup ==
    CASE stage = "system"  -> IF net.gateway THEN "gateway" ELSE "again"
      [] stage = "gateway" -> "again"
      [] stage = "again"   -> "mdns"
      [] stage = "mdns"    -> "send"

Resolved ==
    /\ stage \in {"system", "gateway", "again", "mdns"}
    /\ LET named == stage # "again" \/ NameIn[net.datagram] # NoName
       IN  \/ Answers /\ named /\ hostname' = stage /\ stage' = "send"
           \/ Answers /\ ~named /\ stage' = NextLookup /\ UNCHANGED hostname
           \/ Fails /\ stage' = NextLookup /\ UNCHANGED hostname
    /\ UNCHANGED <<attempt, alive, measured, known, nbnsName, ports>>

\* The update, and what the merger makes of it.
Report ==
    /\ stage = "send" /\ ~cancelled
    /\ stage' = "reported"
    /\ device' = [device EXCEPT !.ttl = IF measured THEN net.ttl ELSE @,
                                !.ports = ports,
                                !.nbns = @ \/ nbnsName # NoName]
    /\ UNCHANGED <<net, flying, attempt, cancelled, late, found>>

Drop ==
    /\ stage = "send" /\ cancelled
    /\ stage' = "dropped"
    /\ UNCHANGED <<net, flying, attempt, cancelled, late, found, device>>

----------------------------------------------------------------------------
(* The environment: ctx, and the listeners that learn of the same device *)

Cancel ==
    /\ net.lossy /\ ~cancelled /\ stage \notin {"dropped", "reported"}
    /\ cancelled' = TRUE
    /\ UNCHANGED <<net, stage, flying, attempt, late, found, device>>

Heard ==
    /\ device.vendor # net.vendor
    /\ device' = [device EXCEPT !.vendor = net.vendor]
    /\ UNCHANGED <<net, stage, flying, attempt, cancelled, late, found>>

Announced(s) ==
    /\ s \notin device.services
    /\ device' = [device EXCEPT !.services = @ \cup {s}]
    /\ UNCHANGED <<net, stage, flying, attempt, cancelled, late, found>>

Over == stage \in {"dropped", "reported"} /\ UNCHANGED vars

Next ==
    \/ Start \/ Launch
    \/ Pinged \/ Connected \/ Recheck \/ Queried \/ Scanned \/ Resolved
    \/ Report \/ Drop
    \/ Cancel \/ Heard
    \/ \E s \in net.services : Announced(s)
    \/ Over

Spec == Init /\ [][Next]_vars

----------------------------------------------------------------------------
(* Properties *)

\* active.go:159 and dns.go:73-75: once ctx is done, only what is in flight and status
\* queries go on.  Elsewhere than on Windows a probe is over within a second.  There a
\* blocking echo comes before them.
DrainsInTime == late <= IF net.windows THEN 20 ELSE 10

\* docs/superpowers/specs/2026-04-25-lan-inventory-design.md:269: "Ctrl-C cancels the root
\* context. All goroutines drain within ~1 s."
DrainsWithinASecond == late <= 10

\* nbns.go:87-89: an answer names the machine exactly if it is a whole answer to the query
\* and has a workstation's name, wherever its names are written and however their pointers
\* lead from one part to the other.
Naming == [d \in Datagram |-> NamesMachine(d)]
NameFromWholeAnswer ==
    /\ nbnsName # NoName => Naming[net.datagram]
    /\ ~net.lossy /\ stage = "ports" /\ "nbns" \in net.answering =>
          (nbnsName # NoName <=> Naming[net.datagram])

\* osguess.go:127-132: as evidence comes in, in any order, a device that had a label keeps
\* one, and what it declares of itself is not overruled by what is inferred.
LabelsSurvive ==
    [][/\ OSDetect(device) # Unknown => OSDetect(device') # Unknown
       /\ Says(device, "mobile") => OSDetect(device') = "iOS"
       /\ Says(device, "mac") => OSDetect(device') \in {"macOS", "iOS"}]_vars
=============================================================================
