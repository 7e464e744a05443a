\* Who is present: ageing sweeps, late observations and ticks, folds of IP-only
\* entries, a consumer that lags, a cancellation at any moment.
SPECIFICATION FairSpec
CONSTANTS
    m1 = m1
    i1 = i1
    MAC = {m1, m2}
    IP = {i1, i2}
    Name = {}
    Vendor = {}
    Service = {}
    Port = {}
    TTL = {}
    OSName <- MCOSName
    OSDetect <- MCOSDetect
    Observation <- AgeingObservations
    StaleAfter = 1
    LeftAfter = 2
    HistoryCap = 2
    Capacity = 1
    MaxLag = 1
    MaxTime = 4
INVARIANTS StatusMatchesAge DeparturesNotLost
PROPERTIES SightingsKept CensusSpec DepartureHeard
