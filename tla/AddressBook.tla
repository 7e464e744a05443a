----------------------------- MODULE AddressBook -----------------------------
(***************************************************************************)
(* What the merger promises about IP addresses: an address belongs to      *)
(* nobody until it is first sighted, then to an unidentified host or to a  *)
(* MAC.  A MAC's claim moves it; nothing ever gives it back, and no step   *)
(* moves two addresses.                                                    *)
(***************************************************************************)
CONSTANTS MAC, IP, Free, Anonymous

VARIABLE owner

Init == owner = [i \in IP |-> Free]

\* A host without a known MAC answers from ip.
Sight(ip) ==
    /\ owner[ip] = Free
    /\ owner' = [owner EXCEPT ![ip] = Anonymous]

\* ARP assigns ip to mac.
Claim(mac, ip) == owner' = [owner EXCEPT ![ip] = mac]

Next == \E ip \in IP : Sight(ip) \/ \E mac \in MAC : Claim(mac, ip)

Spec == Init /\ [][Next]_owner
=============================================================================
