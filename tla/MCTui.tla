------------------------------- MODULE MCTui -------------------------------
(* Instances of Tui for TLC. *)
EXTENDS Tui

MACs == {1, 2}
IPs  == {1, 2}

\* Every list of two MACs and two addresses: each address is unseen (0), known by
\* itself (3), or owned by a MAC; a device is found by texts of length 0 or 1.
Lists ==
    {{[mac |-> k, ips |-> {i \in IPs : owner[i] = k}, name |-> name[k]] : k \in macs}
     \cup {[mac |-> NoMAC, ips |-> {i}, name |-> name[3]] : i \in {j \in IPs : owner[j] = 3}} :
        owner \in [IPs -> {0, 1, 2, 3}], macs \in SUBSET MACs, name \in [{1, 2, 3} -> {0, 1}]}

\* An owner is a device of the list.
Snapshots ==
    {list \in Lists : WellFormed(list)}

\* A page of one row, beside the initial one with room for everything.
OneRow == {[height |-> 6, wrap |-> 1]}

\* What bears on the list and on open details.
ListKeys == {"esc", "enter", "backspace", "a", "1", "2", "/", "up", "down", "pgdown", "home"}

Strips == [known \in BOOLEAN |-> IF known THEN 2 ELSE 1]

\* Six devices, every second of them found by a text, and one of them without a MAC.
Six == {{[mac |-> k, ips |-> {k + 1}, name |-> k % 2] : k \in 0..5}}

\* From a terminal without a row for content to one with room for everything.
ManySizes ==
    {[height |-> 0, wrap |-> 1], [height |-> 5, wrap |-> 2], [height |-> 14, wrap |-> 1]}

\* What bears on pages: the tabs of devices and events, and one that does not scroll.
PageKeys == Key \ {"a", "backspace", "2", "q", "r", "?", "home"}

\* Help, the filter and open details, and who takes a key when several are open.
OverlayKeys == {"esc", "enter", "a", "1", "2", "4", "/", "r", "?", "down", "q"}

\* The cursor and open details against every list; overlays; and pages, offsets and events.
Bounds == [selection |-> [snapshots |-> Snapshots, sizes |-> OneRow, keys |-> ListKeys,
                          runes |-> 2, arrivals |-> 0],
           pages     |-> [snapshots |-> Six, sizes |-> ManySizes, keys |-> PageKeys,
                          runes |-> 1, arrivals |-> 3],
           overlays  |-> [snapshots |-> Six, sizes |-> OneRow, keys |-> OverlayKeys,
                          runes |-> 1, arrivals |-> 1]]
=============================================================================
