------------------------------ MODULE ARPWorker ------------------------------
(***************************************************************************)
(* The ARP worker of internal/scanner/arp.go: a capture that is opened and *)
(* filtered, then read packet by packet with a timeout; each packet of the *)
(* subnet becomes one update.  The capture (libpcap or Npcap) is external: *)
(* a buffer that overflows, an interface that goes away.                   *)
(***************************************************************************)
EXTENDS Oui, FiniteSets

CONSTANTS
    Packet,         \* [arp, mac, ip] records: what may be captured
    Address,        \* the IPv4 addresses of the subnet
    Manuf,          \* bound: what manuf.txt may hold, rows of which each has a long name
    CaptureCap,     \* packets the capture buffers
    OutCap,         \* buffer of the updates channel (256 in the code)
    MaxPackets      \* bound: packets that are captured

NoMAC == <<>>

ASSUME CaptureAssumption ==
    /\ CaptureCap \in Nat \ {0} /\ OutCap \in Nat \ {0} /\ MaxPackets \in Nat
    /\ Manuf \subseteq Seq(ManufRow) /\ \A p \in Packet : p.mac \in Seq(Nat)

VARIABLES
    run,        \* where run is
    result,     \* what run returned
    cancelled,  \* ctx is done
    handle,     \* the capture: "none", "open" or "closed"
    captured,   \* packets the capture took while it was open
    taken,      \* how many of them NextPacket returned; the others are buffered
    broken,     \* the interface is gone
    reported,   \* the updates that were sent
    queued,     \* how many of them wait in the updates channel
    manuf       \* the rows of manuf.txt; never changes

capture == <<handle, captured, taken, broken>>
vars == <<run, result, cancelled, capture, reported, queued, manuf>>

Buffered == Len(captured) - taken

Init ==
    /\ run = "start" /\ result = "none" /\ cancelled \in BOOLEAN
    /\ handle = "none" /\ captured = <<>> /\ taken = 0 /\ broken = FALSE
    /\ reported = <<>> /\ queued = 0 /\ manuf \in Manuf

----------------------------------------------------------------------------
(* run *)

\* The deferred Close runs if there is a handle.
Return(value) ==
    /\ run' = "returned" /\ result' = value
    /\ handle' = IF handle = "open" THEN "closed" ELSE handle
    /\ UNCHANGED <<cancelled, captured, taken, broken, reported, queued, manuf>>

CancelledBefore == run = "start" /\ cancelled /\ Return("nil")

\* The capture is being opened, which does not watch ctx.
Open ==
    /\ run = "start" /\ ~cancelled
    /\ run' = "opening"
    /\ UNCHANGED <<result, cancelled, capture, reported, queued, manuf>>

OpenFails == run = "opening" /\ Return("failed")

Opened ==
    /\ run = "opening"
    /\ run' = "filtering" /\ handle' = "open"
    /\ UNCHANGED <<result, cancelled, captured, taken, broken, reported, queued, manuf>>

FilterFails == run = "filtering" /\ Return("failed")

Filtered ==
    /\ run = "filtering"
    /\ run' = "looping"
    /\ UNCHANGED <<result, cancelled, capture, reported, queued, manuf>>

LeaveLoop == run = "looping" /\ cancelled /\ Return("nil")

NextPacket ==
    /\ run = "looping" /\ ~cancelled
    /\ run' = "reading"
    /\ UNCHANGED <<result, cancelled, capture, reported, queued, manuf>>

\* Mutant: the read of an idle network blocks (BlockForever).
NoTimeout == FALSE /\ UNCHANGED vars

\* arpReadTimeout on an idle network.
Timeout ==
    /\ run = "reading" /\ Buffered = 0
    /\ run' = "looping"
    /\ UNCHANGED <<result, cancelled, capture, reported, queued, manuf>>

\* A failure that cancellation explains is none.
ReadFails ==
    /\ run = "reading" /\ broken
    /\ Return(IF cancelled THEN "nil" ELSE "failed")

\* An ARP packet by a host of the subnet: not one that still asks whether its address is
\* free (0.0.0.0), and no other protocol's.
IsNeighbour(p) == p.arp /\ p.mac # NoMAC /\ p.ip \in Address

\* A packet is read: it is dropped, or becomes an update.
ReadPacket ==
    /\ run = "reading" /\ Buffered > 0
    /\ taken' = taken + 1
    /\ run' = IF IsNeighbour(captured[taken + 1]) THEN "sending" ELSE "looping"
    /\ UNCHANGED <<result, cancelled, handle, captured, broken, reported, queued, manuf>>

Update(p) == [mac |-> p.mac, ip |-> p.ip, vendor |-> VendorOf(manuf, p.mac)]

Send ==
    /\ run = "sending" /\ queued < OutCap
    /\ reported' = Append(reported, Update(captured[taken]))
    /\ queued' = queued + 1 /\ run' = "looping"
    /\ UNCHANGED <<result, cancelled, capture, manuf>>

\* Mutant: a full channel drops the update.
GiveUpWhenFull ==
    /\ run = "sending" /\ (cancelled \/ queued = OutCap)
    /\ run' = "looping"
    /\ UNCHANGED <<result, cancelled, capture, reported, queued, manuf>>

GiveUp == run = "sending" /\ cancelled /\ Return("nil")

----------------------------------------------------------------------------
(* The environment: capture, merger, caller *)

\* Before the filter is set, any packet; a full buffer loses what arrives.
Capture(p) ==
    /\ handle = "open" /\ ~broken
    /\ p.arp \/ run = "filtering"
    /\ Buffered < CaptureCap /\ Len(captured) < MaxPackets
    /\ captured' = Append(captured, p)
    /\ UNCHANGED <<run, result, cancelled, handle, taken, broken, reported, queued, manuf>>

Break ==
    /\ handle = "open" /\ ~broken
    /\ broken' = TRUE
    /\ UNCHANGED <<run, result, cancelled, handle, captured, taken, reported, queued, manuf>>

Receive ==
    /\ queued > 0 /\ queued' = queued - 1
    /\ UNCHANGED <<run, result, cancelled, capture, reported, manuf>>

Cancel ==
    /\ ~cancelled /\ cancelled' = TRUE
    /\ UNCHANGED <<run, result, capture, reported, queued, manuf>>

\* Nothing is left to do.
Over == run = "returned" /\ UNCHANGED vars

Setup == CancelledBefore \/ Open \/ OpenFails \/ Opened \/ FilterFails \/ Filtered

Loop == LeaveLoop \/ NextPacket \/ Timeout \/ ReadPacket

Next ==
    \/ Setup \/ Loop \/ ReadFails
    \/ Send \/ GiveUp
    \/ \E p \in Packet : Capture(p)
    \/ Break \/ Receive \/ Cancel
    \/ Over

Spec == Init /\ [][Next]_vars

\* run is scheduled, and a read ends after arpReadTimeout at the latest.  Whether the
\* merger receives is left open.
Fairness == WF_vars(Setup \/ Loop) /\ WF_vars(GiveUp)

FairSpec == Spec /\ Fairness

----------------------------------------------------------------------------
(* Properties *)

\* scanner.go:116-127 relies on it and arp.go:26-27 says why it could fail: on an idle
\* network, with a full channel or while the capture opens, a cancelled worker returns.
Contract == INSTANCE Worker WITH once <- FALSE, busy <- TRUE, queued <- queued
WorkerSpec == Contract!Spec

\* arp.go:22-23: every packet of the subnet that was read is reported, once, in the order
\* of their arrival, also those that came before the filter was set; only the last one
\* may be on its way, or given up for a cancellation.
Place(packets, k) == Cardinality({j \in 1..k : IsNeighbour(packets[j])})
EveryPacketReported ==
    /\ \A k \in 1..taken :
          LET packet == captured[k]
              update == reported[Place(captured, k)]
          IN  IsNeighbour(packet) /\ Place(captured, k) <= Len(reported)
                  => update.mac = packet.mac /\ update.ip = packet.ip
    /\ \/ Len(reported) = Place(captured, taken) /\ run # "sending"
       \/ /\ Len(reported) = Place(captured, taken) - 1
          /\ run = "sending" \/ (run = "returned" /\ cancelled)

\* oui.go:155 "Matches the longest registered prefix": an update names the vendor of the
\* row that covers its MAC most closely, whatever the order of the rows, and none if the
\* address is too short for a registered prefix.  The details that are shown of the device
\* (devices.go:193) name the same vendor, as long as every row has a long name.
VendorIsClosest ==
    \A n \in DOMAIN reported :
        LET mac == reported[n].mac
            deciding == {k \in DOMAIN manuf : Decides(manuf, k, mac)}
            row == IF Len(mac) < BareDigits \/ deciding = {}
                   THEN [short |-> NoName, long |-> NoName]
                   ELSE manuf[CHOOSE k \in deciding : TRUE]
        IN  /\ reported[n].vendor = row.short
            /\ LongVendorOf(manuf, mac) = row.long
=============================================================================
