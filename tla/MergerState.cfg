\* What handleUpdate makes of any interleaving of observations, without ageing: who owns
\* which address and its ports, over two MACs and three addresses, and which names,
\* services, round trips and TTLs are kept, of one MAC at two addresses (OneTopic).
SPECIFICATION Spec
CONSTANTS
    m1 = m1
    i1 = i1
    MAC = {m1, m2}
    IP = {i1, i2, i3}
    Name = {"printer.local", "dns-name"}
    Vendor = {}
    Service = {s1}
    Port = {p1, p2}
    TTL = {64}
    OSName <- MCOSName
    OSDetect <- MCOSDetect
    Observation <- StateObservations
    StaleAfter = 1
    LeftAfter = 2
    HistoryCap = 2
    Capacity = 1
    MaxLag = 0
    MaxTime = 1
SYMMETRY Symmetry
CONSTRAINT OneTopic
INVARIANTS OneOwnerPerIP DerivedInSync
PROPERTIES NoInheritedPorts AddressBookSpec EvidenceKept MDNSNameSticks
