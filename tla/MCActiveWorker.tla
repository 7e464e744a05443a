--------------------------- MODULE MCActiveWorker ---------------------------
(* Instances of ActiveWorker for TLC. *)
EXTENDS ActiveWorker, TLC

\* A host that is off or drops everything, one that answers pings and has an open
\* port, one that refuses TCP connections, and one that answers NetBIOS alone.
AllProfiles == {{}, {"ping", "ports"}, {"tcp"}, {"nbns"}}

\* Enough for sweeps that send nothing, something, or block on a full channel.
PingProfiles == {{}, {"ping"}}

Symmetry == Permutations(Host) \cup Permutations(Goroutine)
=============================================================================
