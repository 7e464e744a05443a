\* Rescan requests and cancellation: two hosts, one goroutine, no symmetry.
SPECIFICATION FairSpec
CONSTANTS
    Host = {h1, h2}
    Goroutine = {g1}
    Profile <- PingProfiles
    OutCap = 1
PROPERTIES RescanServed WorkerSpec
