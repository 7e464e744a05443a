---------------------------- MODULE MCARPWorker ----------------------------
(* Instances of ARPWorker for TLC. *)
EXTENDS ARPWorker

CONSTANTS host, guest, asking

\* Every row of the file has a long name.
Row(hex, mask, short) == [hex |-> hex, mask |-> mask, short |-> short, long |-> "long " \o short]

\* A vendor's block and a customer's part of it, one that is shorter than a block, rows
\* that are no entries, and a second name of the block.
Rows ==
    {Row(<<0, 1>>, NoMask, "block"), Row(<<0, 1>>, 4, "renamed"),
     Row(<<0, 1, 2, 0>>, 6, "part"), Row(<<0>>, 2, "all"),
     Row(<<0, 1, 2, 3>>, 7, "unaligned"), Row(<<0, 1, 2>>, 8, "too long"),
     Row(<<0, 1, 3, 0>>, NoMask, NoName), Row(NotHex, NoMask, "none")}

Manufs == {<<>>} \cup {<<a, b>> : a, b \in Rows}

From(mac, ip) == [arp |-> TRUE, mac |-> mac, ip |-> ip]

\* Two hosts, one whose hardware address is not of Ethernet, one that asks for an address,
\* one without a MAC, and another protocol.
Packets ==
    {From(<<0, 1, 2, 3>>, host), From(<<0, 1, 3, 3>>, guest), From(<<0>>, guest),
     From(<<0, 1, 2, 3>>, asking), From(NoMAC, host),
     [arp |-> FALSE, mac |-> <<0, 1, 2, 3>>, ip |-> host]}

Hosts == {host, guest}
=============================================================================
