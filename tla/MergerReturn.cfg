\* A device that left returns at another address, where it is heard without its MAC before
\* an ARP packet names it.
SPECIFICATION Spec
CONSTANTS
    m1 = m1
    i1 = i1
    MAC = {m1}
    IP = {i1, i2}
    Name = {}
    Vendor = {}
    Service = {}
    Port = {}
    TTL = {}
    OSName <- MCOSName
    OSDetect <- MCOSDetect
    Observation <- LivenessObservations
    StaleAfter = 1
    LeftAfter = 2
    HistoryCap = 2
    Capacity = 3
    MaxLag = 1
    MaxTime = 5
SYMMETRY Symmetry
PROPERTIES ReturnIsJoined
