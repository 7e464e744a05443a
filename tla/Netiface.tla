------------------------------ MODULE Netiface ------------------------------
(***************************************************************************)
(* Addresses and subnets: the default route of each platform, the choice   *)
(* of the subnet to scan and its hosts (internal/netiface), and which      *)
(* cached neighbours are among them (internal/scanner/arp_seed*.go).       *)
(* An address is a number of Width bits (32 in the code), a prefix length  *)
(* counts the leading bits that are fixed, and increments wrap around.     *)
(***************************************************************************)
EXTENDS Integers, Sequences

CONSTANTS
    Width,          \* bits of an address
    MinOnes,        \* MinPrefixOnesAllowed (22 in the code)
    Loopback,       \* 127.0.0.0/8
    Multicast       \* 224.0.0.0/4

\* 2^n.
Power[n \in 0..Width] == IF n = 0 THEN 1 ELSE 2 * Power[n - 1]

Address     == 0..(Power[Width] - 1)
Unspecified == 0
Broadcast   == Power[Width] - 1

NoGateway == -1

\* An address of the interface: IPv4 with its prefix, or of another family.
Other == [ip |-> NoGateway, ones |-> 0]

BlockSize(s) == Power[Width - s.ones]
Contains(s, ip) == ip \div BlockSize(s) = s.ip \div BlockSize(s)

\* subnet.IP.Mask(subnet.Mask), and that with all host bits set.
Network(s)  == s.ip - (s.ip % BlockSize(s))
LastOf(s)   == Network(s) + BlockSize(s) - 1

----------------------------------------------------------------------------
(* defaultRouteInterface.  A row of a platform's routing table: all is that its        *)
(* destination and mask are zero, valid that it is no loopback and has not expired     *)
(* (Windows), gateway NoGateway when it is no IPv4 address, metric Unreadable when it  *)
(* is no number (Linux).  An adapter has a metric of its own, or is Down (Windows).    *)

NoInterface == "none"
Unreadable  == -1
Down        == -1

OnLinux(r)  == r.all /\ r.metric # Unreadable
OnDarwin(r) == r.all /\ r.gateway # NoGateway
OnWindows(adapters, r) ==
    r.all /\ r.valid /\ adapters[r.iface] # Down /\ r.gateway # NoGateway

IsCandidate(os, adapters, r) ==
    CASE os = "linux"   -> OnLinux(r)
      [] os = "darwin"  -> OnDarwin(r)
      [] os = "windows" -> OnWindows(adapters, r)

\* Mutant: Windows ranks a route by the adapter's metric alone.
CostOfAdapter(os, adapters, r) ==
    CASE os = "linux"   -> r.metric
      [] os = "darwin"  -> 0
      [] os = "windows" -> adapters[r.iface]

\* macOS takes the kernel's order as it is.
Cost(os, adapters, r) ==
    CASE os = "linux"   -> r.metric
      [] os = "darwin"  -> 0
      [] os = "windows" -> r.metric + adapters[r.iface]

NoRoute == [iface |-> NoInterface, gateway |-> NoGateway]

\* The first of the cheapest: the row chosen among the first n, 0 as long as there is none.
DefaultRoute(os, table, adapters) ==
    LET Price(n) == Cost(os, adapters, table[n])
        best[n \in 0..Len(table)] ==
            IF n = 0 THEN 0
            ELSE IF /\ IsCandidate(os, adapters, table[n])
                    /\ best[n - 1] = 0 \/ Price(n) < Price(best[n - 1])
            THEN n ELSE best[n - 1]
        last == best[Len(table)]
    IN  IF last = 0 THEN NoRoute
        ELSE [iface |-> table[last].iface, gateway |-> table[last].gateway]

----------------------------------------------------------------------------
(* infoForAddresses *)

Nothing == [iface |-> NoInterface, subnet |-> Other, error |-> TRUE]

Matches(s, gateway) == gateway \notin {NoGateway, Unspecified} /\ Contains(s, gateway)

\* The loop's choice so far, if any, gives way to a longer prefix that holds the gateway.
Better(addrs, n, gateway, routed) ==
    Matches(addrs[n], gateway) /\ (routed = 0 \/ addrs[n].ones > addrs[routed].ones)

\* What is chosen of the first n addresses, 0 for none.
Chosen(addrs, gateway) ==
    LET chosen[n \in 0..Len(addrs)] ==
            IF n = 0 THEN [first |-> 0, routed |-> 0]
            ELSE IF addrs[n] = Other THEN chosen[n - 1]
            ELSE LET c == chosen[n - 1]
                 IN  [first |-> IF c.first = 0 THEN n ELSE c.first,
                      routed |-> IF Better(addrs, n, gateway, c.routed) THEN n ELSE c.routed]
    IN  chosen[Len(addrs)]

\* The subnet of the default route, or else the first; too large a one is refused.
InfoForAddresses(name, addrs, gateway) ==
    LET c == Chosen(addrs, gateway)
        subnet == addrs[IF c.routed = 0 THEN c.first ELSE c.routed]
    IN  IF c.first = 0 THEN Nothing
        ELSE [iface |-> name, subnet |-> [ip |-> Network(subnet), ones |-> subnet.ones],
              error |-> subnet.ones < MinOnes]

Detect(machine) ==
    LET route == DefaultRoute(machine.os, machine.table, machine.adapters)
    IN  IF route = NoRoute THEN Nothing
        ELSE InfoForAddresses(route.iface, machine.addrs[route.iface], route.gateway)

----------------------------------------------------------------------------
(* SubnetIPs and usableARPNeighbor *)

\* Mutant: a point-to-point subnet of two addresses has no host.
IsHostStrict(s, ip) == s.ones = Width \/ ip \notin {Network(s), LastOf(s)}

IsHost(s, ip) == s.ones >= Width - 1 \/ ip \notin {Network(s), LastOf(s)}

\* The loop from the network address on, until an increment leaves the subnet.
SubnetIPs(s) ==
    LET At(n) == (Network(s) + n) % Power[Width]
        turns == CHOOSE n \in 1..Power[Width] :
                     ~Contains(s, At(n)) /\ \A k \in 1..(n - 1) : Contains(s, At(k))
    IN  {ip \in {At(n) : n \in 0..(turns - 1)} : IsHost(s, ip)}

\* A neighbour's mac is "unicast", "group", "zero", or no Ethernet address at all.
UsableARPNeighbor(s, ip, mac) ==
    /\ mac = "unicast"
    /\ ip \notin {Unspecified, Broadcast} \cup Loopback \cup Multicast
    /\ Contains(s, ip)
    /\ s.ones < Width - 1 => ip \notin {Network(s), LastOf(s)}

\* Linux flags a resolved row (ATF_COM) and Windows gives it a state; macOS tells it
\* by its address only.
Resolved(row)  == row.resolved
Extracted(row) == row.mac # "none"

\* The kernel's cached neighbours that become updates.
SeedFromKernelARP(os, cache, info) ==
    {row \in cache : /\ row.iface = info.iface
                     /\ IF os = "darwin" THEN Extracted(row) ELSE Resolved(row)
                     /\ UsableARPNeighbor(info.subnet, row.ip, row.mac)}
=============================================================================
