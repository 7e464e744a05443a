------------------------------- MODULE Census -------------------------------
(***************************************************************************)
(* What the merger promises about the events it announces.  A key (MAC or  *)
(* IP) is present from the announcement of its arrival to its departure.   *)
(* Arrivals and refreshes may be dropped when the feed is full; departures *)
(* are owed until they are in the feed, and nothing is announced before.   *)
(***************************************************************************)
EXTENDS Naturals, Sequences

CONSTANTS MAC, IP, Capacity

VARIABLES
    present,    \* the keys that are on the network
    owed,       \* departures not in the feed yet
    feed,       \* the announcements on their way to the consumer
    closing     \* the caller has asked for the end

vars == <<present, owed, feed, closing>>

Init == present = {} /\ owed = {} /\ feed = <<>> /\ closing = FALSE

\* An unidentified host's key turns out to be a MAC's address: one identity.
Identities(k) == IF k \in MAC THEN {{}} \cup {{i} : i \in IP} ELSE {{}}

\* k was heard from: Joined if it was away under every key it is known by.
Report(k, merged) ==
    /\ owed = {}
    /\ present' = (present \ merged) \cup {k}
    /\ LET arrival == (merged \cup {k}) \cap present = {}
           event == [type |-> IF arrival THEN "Joined" ELSE "Updated", key |-> k]
       IN  feed' = IF Len(feed) < Capacity THEN Append(feed, event) ELSE feed
    /\ UNCHANGED <<owed, closing>>

Depart(gone) ==
    /\ owed = {} /\ gone # {}
    /\ present' = present \ gone
    /\ owed' = gone
    /\ UNCHANGED <<feed, closing>>

Deliver(k) ==
    /\ k \in owed /\ Len(feed) < Capacity
    /\ feed' = Append(feed, [type |-> "Left", key |-> k])
    /\ owed' = owed \ {k}
    /\ UNCHANGED <<present, closing>>

GiveUp == closing /\ owed' = {} /\ UNCHANGED <<present, feed, closing>>

Take == feed # <<>> /\ feed' = Tail(feed) /\ UNCHANGED <<present, owed, closing>>

Close == closing' = TRUE /\ UNCHANGED <<present, owed, feed>>

Next ==
    \/ \E k \in MAC \cup IP : \E merged \in Identities(k) : Report(k, merged)
    \/ \E gone \in SUBSET present : Depart(gone)
    \/ \E k \in MAC \cup IP : Deliver(k)
    \/ GiveUp
    \/ Take
    \/ Close

Spec == Init /\ [][Next]_vars
=============================================================================
