\* What a sweep reports: two hosts of every profile, a pool of two goroutines, hosts
\* that go off, ARP packets and cancellation between any two probes.
SPECIFICATION Spec
CONSTANTS
    Host = {h1, h2}
    Goroutine = {g1, g2}
    Profile <- AllProfiles
    OutCap = 1
SYMMETRY Symmetry
INVARIANTS ReportedAreAlive SweepIsComplete StealthHostsFound NoPartialScan
