---------------------------- MODULE MCMDNSWorker ----------------------------
(* Instances of MDNSWorker for TLC. *)
EXTENDS MDNSWorker, TLC

CONSTANTS http, ssh, web, box, far

Services == {http, ssh}
Instances == {web, box, far}

\* Two instances share a browse, the third is known by an address of another network.
Types == (web :> http) @@ (box :> http) @@ (far :> ssh)
Near == {web, box}
=============================================================================
