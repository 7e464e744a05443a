------------------------------- MODULE MCMain -------------------------------
(* Instances of Main for TLC. *)
EXTENDS Main

\* Six of sixteen addresses under every prefix, among them both ends of the space,
\* or an address of another family; two of them at most.
Addresses == {Net!Other} \cup [ip : {0, 1, 5, 6, 12, 15}, ones : 0..4]
Lists == {<<>>} \cup {<<a>> : a \in Addresses} \cup {<<a, b>> : a \in Addresses, b \in Addresses}

Gateways == {Net!NoGateway, 0, 1, 4, 6, 13, 15}

Interface == {"eth", "wlan"}
Route(iface, gateway, metric) ==
    [iface |-> iface, all |-> TRUE, valid |-> TRUE, gateway |-> gateway, metric |-> metric]

\* One default route, and every list of addresses of its interface.
Single == {[os |-> "linux", table |-> <<Route("eth", g, 0)>>,
            adapters |-> [i \in Interface |-> 0],
            addrs |-> [i \in Interface |-> list]] : g \in Gateways, list \in Lists}

\* Rows of a routing table: cheap, dear, or to be skipped for one reason.
Rows == UNION {{Route(i, g, 0), Route(i, g, 1), Route(i, g, Net!Unreadable),
                [Route(i, g, 0) EXCEPT !.all = FALSE],
                [Route(i, g, 0) EXCEPT !.valid = FALSE]} :
                    i \in Interface, g \in {Net!NoGateway, 0, 6}}
Tables == {<<>>} \cup {<<r>> : r \in Rows} \cup {<<r, q>> : r \in Rows, q \in Rows}

\* What a platform's table can hold: no metric is unreadable but on Linux, and only
\* Windows says which route is valid.
Holds(os, table) ==
    \A n \in DOMAIN table : /\ os # "linux" => table[n].metric # Net!Unreadable
                            /\ os # "windows" => table[n].valid

\* Adapters that decide by their own metric, that even it out, or that are down.
Adapters(os) ==
    {[eth |-> 0, wlan |-> 0]} \cup
        IF os = "windows" THEN {[eth |-> 2, wlan |-> 0], [eth |-> 0, wlan |-> 1],
                                [eth |-> 0, wlan |-> Net!Down]} ELSE {}

\* Two interfaces, and every table of two rows.
Several == UNION {{[os |-> os, table |-> t, adapters |-> a,
                    addrs |-> [eth |-> <<[ip |-> 5, ones |-> 2], [ip |-> 0, ones |-> 3]>>,
                               wlan |-> <<[ip |-> 12, ones |-> 2]>>]] :
                       t \in {t \in Tables : Holds(os, t)}, a \in Adapters(os)} :
                   os \in {"linux", "darwin", "windows"}}

Machines == Single \cup Several

Neighbors == [iface : Interface, ip : Net!Address, resolved : BOOLEAN,
              mac : {"unicast", "group", "zero", "none"}]
=============================================================================
