\* The program from the choice of its subnet to its exit code: a scan of a listener and
\* the active worker, signals, quitting and failures at any moment, one-shot and with a UI.
SPECIFICATION FairSpec
CONSTANTS
    Worker = {arp, active}
    Active = active
    UpdatesCap = 1
    Seeds = 0
    Hosts = 1
    Width = 4
    MinOnes = 1
    Loopback = {7}
    Multicast = {14, 15}
    Machine <- Machines
    Neighbor <- Neighbors
INVARIANTS ExitIsDeserved NothingOutlivesMain HostsAreExact
PROPERTIES EndsTogether
