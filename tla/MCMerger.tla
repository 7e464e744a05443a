------------------------------ MODULE MCMerger ------------------------------
(***************************************************************************)
(* Instances of Merger for TLC.  Each run gives Observation one of the     *)
(* sets below, so that it exercises one part of handleUpdate in depth.     *)
(***************************************************************************)
EXTENDS Merger, TLC

CONSTANTS
    m1,     \* a MAC and an address that the ageing run tells from the others
    i1

\* An OS guess that tells apart every piece of evidence the runs vary.
MCOSName   == {None, "ports", "services", "ttl"}
MCOSDetect == [e \in Evidence |-> IF e.ports # {} THEN "ports"
                                  ELSE IF e.services # {} THEN "services"
                                  ELSE IF e.ttl # 0 THEN "ttl" ELSE None]

Blank(source, mac, ip) ==
    [source |-> source, mac |-> mac, ip |-> ip, name |-> None, vendor |-> None,
     services |-> {}, ports |-> {}, rtt |-> 0, measured |-> FALSE, ttl |-> 0, nbns |-> FALSE]

ARP  == {Blank("arp", m, i) : m \in MAC, i \in IP}
Seeds == {Blank("arp-seed", m, i) : m \in MAC, i \in IP}
Replies == {Blank("mdns", None, i) : i \in IP}
Scans == {[Blank("active", None, i) EXCEPT !.ports = p] : i \in IP, p \in SUBSET Port}

\* Who owns which address and its ports.
IdentityObservations == ARP \cup Seeds \cup Scans

\* Who is alive: the contents of the observations do not matter.
LivenessObservations == ARP \cup Seeds \cup Replies

\* The same for one MAC that moves between all addresses, one address that moves between
\* all MACs, and other addresses that are first known by themselves.
AgeingObservations ==
    {u \in ARP : u.mac = m1 \/ u.ip = i1} \cup
    {u \in Seeds : u.mac = m1 /\ u.ip = i1} \cup
    {u \in Replies : u.ip # i1}

\* What is learned about a device besides its ports.
EvidenceObservations ==
    ARP \cup
    {[Blank("mdns", None, i) EXCEPT !.name = "printer.local", !.services = s] :
        i \in IP, s \in SUBSET Service} \cup
    {[Blank("active", None, i) EXCEPT !.name = n] : i \in IP, n \in {None, "dns-name"}} \cup
    {[Blank("active", None, i) EXCEPT !.name = n, !.measured = TRUE, !.rtt = r, !.ttl = 64,
                                      !.nbns = (r = 0)] :
        i \in IP, n \in {None, "dns-name"}, r \in {0, 1}}

StateObservations == IdentityObservations \cup EvidenceObservations

\* Ports and the other facts about a device do not meet in handleUpdate.  A state has
\* learned of one kind: ports, with all MACs and addresses, or the rest, of one MAC at two.
HasPorts == \E i \in DOMAIN portsByIP : portsByIP[i] # {}
Plain(d) == d.name = None /\ d.services = {} /\ d.rtts = <<>>
OneTopic ==
    \/ \A k \in Devices : Plain(Entry(k))
    \/ /\ ~HasPorts
       /\ Cardinality(DOMAIN byMAC) <= 1
       /\ Cardinality(DOMAIN byIP \cup UNION {byMAC[m].ips : m \in DOMAIN byMAC}) <= 2

Symmetry == Permutations(MAC) \cup Permutations(IP)
=============================================================================
