# lan-inventory: models and proofs

TLA+ specifications of lan-inventory, from its concurrent core to the algorithms
its verdicts rest on, the TLC runs that
check them on small instances, and theorems about them checked by TLAPS.
Line numbers refer to the repository's Go sources under `src/`.

## 1. The system

lan-inventory listens on the LAN, probes every host of the subnet, and keeps one
live list of devices, shown in a terminal UI or printed once (`--once`).

| component | source | state | operations | talks to |
|---|---|---|---|---|
| merger | `internal/scanner/merger.go` | `byMAC`, `byIP`, `portsByIP`, name sources, under `m.mu` | `handleUpdate`, `sweepStatus`, `Run`, `Snapshot`, `KnownIPs` | receives `updates`, sends `events`; read by the active worker and the UI |
| scan life cycle | `internal/scanner/scanner.go` | contexts, `errs`, the channels | `New`, `Run`/`RunOnce` -> `runWorkers`, `TriggerSweep` | starts and joins merger and workers |
| active worker | `internal/scanner/active.go` | jobs channel, pool of 32 goroutines, ticker | `Run`, `sweepOnce`, `probeOne` | sends `updates`, reads `KnownIPs`, receives rescan requests |
| mDNS worker | `internal/scanner/mdns.go` | the session's browses | `runWithRefresh`, `browseSession`, `consume` | sends `updates` |
| ARP worker | `internal/scanner/arp.go` | a capture handle | `run`: open, filter, read loop | sends `updates`, asks for vendors |
| ARP cache seeding | `internal/scanner/arp_seed*.go` | none | `SeedFromKernelARP`, `usableARPNeighbor` | called once by `run` |
| terminal UI | `internal/tui` | tab, filter, selection, scroll offsets, 200 events | `Update` per message | polls `Snapshot`, receives `events`, calls `TriggerSweep` |
| program entry | `cmd/lan-inventory/main.go` | exit code | `runOnce`, `runTUI`, `signalContext` | drives scanner and UI |
| probes | `internal/probe` | none | `Ping`, `TCPAlive`, `NBNS`, `ScanPorts`, `ResolveHostname` | network, bounded by timeouts |
| OS detection | `internal/probe/osguess.go` | none | `OSDetect`, `OSGuess` | called by the merger |
| vendor lookup | `internal/oui` | the tables of `manuf.txt`, built once | `Lookup`, `LookupLong` | called by the ARP worker, the seeding and the UI |
| interface and route detection | `internal/netiface` | none | `Detect`, `SubnetIPs` | called by `main` and the active worker |
| snapshot output | `internal/snapshot` | none | formatting | called by `runOnce` |

What is hard here, and therefore what the properties are about:

* *Identity.* Three sources describe the same host by MAC, by address, or both,
  in any order. An address must have one owner, and what was learned under an
  address must survive when the MAC becomes known (merger).
* *Age.* Observations wait in a channel, ticks wait behind blocked sends, and a
  cached neighbour was never seen at all; still a status must mean what it says.
* *Events.* Arrivals may be dropped for a slow consumer, departures may not, and
  a send that blocks must not outlive the scan.
* *Shutdown.* Merger, workers, drain and consumer wait for each other through
  bounded channels, and cancellation may come from four sides at any moment.
* *Probing.* A pool of goroutines, knowledge that goes stale during a sweep,
  cancellation in the middle of a port scan, requests that arrive while busy,
  probes that do not look at the context at all.
* *Foreign data.* NetBIOS answers whose names lead through pointers, tables of vendors
  with nested prefixes, routing tables of three platforms, evidence of a system that
  comes in any order.

The full list, each at its line and with the properties that cover it, is under
`hazards` in `PROJECT.json`. Per component, correctness means:

* merger: ownership (`OneOwnerPerIP`, `AddressBook`), derived data in step with
  ownership (`DerivedInSync`, `NoInheritedPorts`), honest ages
  (`StatusMatchesAge`, `SightingsKept`), no lost evidence (`EvidenceKept`,
  `MDNSNameSticks`), a truthful event stream (`Census`, `DeparturesNotLost`);
* scan life cycle: it returns, joins everybody, merges everything, blames the
  right worker, and success means a complete sweep;
* active worker: complete sweeps, no ghosts, no half scans, no lost rescans;
* every worker keeps the contract `runWorkers` relies on (`WorkerSpec`): it reports only
  while it runs, ends for a reason its result tells, and ends once it is cancelled
  although nobody receives any more;
* mDNS worker: a session joins all its browses and none overlaps the next
  (`SessionIsJoined`), and nobody falls silent (`KeptFresh`);
* ARP worker: each packet of the subnet becomes one update, in order
  (`EveryPacketReported`), with the vendor whose block covers the address most closely
  (`VendorIsClosest`);
* probes: a cancelled probe ends in time (`DrainsInTime`), and a NetBIOS answer names the
  machine exactly if it is a whole answer (`NameFromWholeAnswer`);
* OS detection: more evidence never takes a label away (`LabelsSurvive`);
* UI: the selection stays on its device (`SelectionFollows`, `DetailsKeepTheirDevice`),
  pages and offsets stay inside their lists (`PagesAreInRange`), and a
  reader of older events is not moved (`ReaderKeepsPlace`);
* entry: UI and scan end each other (`EndsTogether`), nothing outlives `main`
  (`NothingOutlivesMain`), and the exit code tells what happened (`ExitIsDeserved`);
* interface and route detection, ARP cache seeding: what is scanned are the hosts of the
  subnet the cheapest default route uses, no address more and none less, and the
  neighbours that are seeded are among them (`HostsAreExact`).

## 2. The modules

| module | models | kind |
|---|---|---|
| `Merger` | the merger's goroutine and what its consumer receives | detailed |
| `AddressBook` | what the merger promises about ownership of addresses | abstract |
| `Census` | what it promises about its events | abstract |
| `MergerProofs` | theorems about `Merger` | proofs |
| `Scanner` | `runWorkers` with caller, merger and worker goroutines | detailed |
| `ScannerProofs` | theorems about `Scanner` | proofs |
| `Worker` | what `runWorkers` takes for granted of a worker | abstract |
| `ActiveWorker` | the active worker and its pool | detailed |
| `ActiveWorkerProofs` | theorems about `ActiveWorker` | proofs |
| `MDNSWorker` | the mDNS worker, its goroutines and zeroconf's main loops | detailed |
| `MDNSWorkerProofs` | theorems about `MDNSWorker` | proofs |
| `ARPWorker` | the ARP worker and the capture it reads | detailed |
| `ARPWorkerProofs` | theorems about `ARPWorker` and `Oui` | proofs |
| `Oui` | the tables of `manuf.txt` and their lookups | operators |
| `HostProbe` | the probes of one host in time, with what their answers become | detailed |
| `HostProbeProofs` | theorems about `HostProbe` and `OSDetect` | proofs |
| `Nbns` | `parseNBNSResponse`, and what a whole answer is | operators |
| `OSDetect` | the rules that guess a system | operators |
| `Tui` | the terminal UI's Model under every message | detailed |
| `TuiProofs` | theorems about `Tui` | proofs |
| `Netiface` | the default route, the choice of the subnet, its hosts, the seeds | operators |
| `Main` | `main.go` with `Netiface` and the whole of `Scanner` | composition |
| `MainProofs` | theorems about `Main` | proofs |
| `MCMerger`, `MCActiveWorker`, `MCMDNSWorker`, `MCARPWorker`, `MCHostProbe`, `MCTui`, `MCMain` | instances for TLC | model checking |

The modules meet at the channels. `Scanner` abstracts an update to "seed" or
"live" and a worker to what it sends and returns; `ActiveWorker` details the one
worker whose return ends a one-shot scan: `Scanner`'s action `Completes` (a nil
return before cancellation means every host was reported) is what
`SweepIsComplete` establishes. `Merger` details what merging an update does, and
takes from `Scanner` that seeds arrive before any observation (`SeedsFirst`).
`MDNSWorker` and `ARPWorker` detail the listeners. `Worker` is the side of the three that
`runWorkers` sees, and each is shown to implement it (`WorkerSpec`, by `INSTANCE Worker
WITH`): its `Completes`, `Obeys` and `Fails` are the actions of a worker in `Scanner`, its
liveness is the weak fairness of `Scanner`'s `Obeys`. The safety part of that is proved
(section 4), the liveness is model-checked. `HostProbe` looks inside one
goroutine of `ActiveWorker`: how long its probes last, what a datagram says (`Nbns`), and
what the update does to the guess (`OSDetect`), which `Merger` leaves an arbitrary
function. `ARPWorker` extends `Oui`. `Main` instantiates `Scanner`: its
`ParentCancels` becomes the watcher of signals, the end of the UI or a failed scan. `Tui` reads the lists that
`Merger` publishes: its `WellFormed` is `OneOwnerPerIP`, its `Later` is `AddressBook`
seen through two snapshots.

### Merger

| TLA+ | code |
|---|---|
| `byMAC`, `byIP`, `portsByIP` | the maps of the same names; `hostnameSource` is the field `nameSource` |
| `HandleUpdate` = `Identified` / `Attributed` / `Unidentified` | the cases of `handleUpdate`, 125-163 / 169-170 / 171-177, with the common tail 182-212 |
| `Losers`, `Kept`, `Relieved` | the loop that takes an address from its old owner, 136-149 |
| `Fold`, `TakesName` | `mergeFromIPOnly` and the name rule before it, 152-162 |
| `Observed`, `NamedBy`, `Scanned`, `Refreshed` | `mergeUpdate`, 187-197, `refreshPorts` |
| `Announce`, `EventType` | the event and its non-blocking send, 182-183 and 198-212 |
| `Sweep`, then `SendLeft` / `AbandonSends` | `sweepStatus`: the part under the lock, then each blocking send |
| `Stop`, `Cancel` | `ctx.Done` in `Run`; the caller's cancel |
| `Receive` | the consumers: the drain of `runOnce`, `listenEvents` of the UI |

A step is one critical section of `m.mu` or one channel operation, which is the
grain at which other goroutines see the merger. `pending` are the keys whose Left
event `sweepStatus` has collected and not sent; while it is not empty the
goroutine is inside the sweep, so no update is handled and no sweep starts.
`handleUpdate` stays possible after `Stop`: that is the drain of `runWorkers`.

Abstractions. Lists ordered for display are sets; a service is its identity
(refreshing its port and TXT data is left out); a round trip is a number, `rtt` and its
history `rtts` are the fields of the code, and `Measured` and `HasRTT` say when they count;
`OSDetect` is an arbitrary function of the evidence. The default case of the
switch (neither MAC nor IP) and ports from a source other than `active` do not
occur: no worker sends such an update. The `updates` channel is never closed, so
the `!ok` return of `Run` is unreachable. MACs are lower case already.
`ports` of the source model are those of the address's last scan, an empty scan
included. Time: an observation or a tick carries its own instant, at most
`MaxLag` behind the clock when it is handled.

### Scanner

`caller` walks through `runWorkers`: seeding (100-108), waiting (110-130),
joining (131), draining (132-136), returned (137-142 and the deferred close and
cancel). A worker's goroutine runs, returns an outcome, and then reads `ctx.Err`
(117-120), records its error, cancels, and finishes (124-127) in separate steps,
because the others go on in between. The two reads of `ctx.Err` at 117 and 120
are one step: `ctx.Err` only changes from nil, so the split matters for a nil
return only, which the second condition does not reject. `merged` holds what the snapshot
was made of: cached neighbours, live updates, both or nothing. The merger's goroutine
is in its select, blocked in the sends of a sweep, or done.

`Fails` lets a capture or a browse fail at any moment, after cancellation too.
`Quits` is what the code guards against (`stopped unexpectedly`, a context error
of the worker's own): today's workers do not do it, `runWorkers` is written for
workers that might.

### ActiveWorker

`run` is where `Run` and `sweepOnce` are: delay, feeding, waiting, swept (one
shot) or idle (the select), returned. Each goroutine has a task that walks
through the stages of `probeOne`; `Take` is the receive from `jobs` with the
first look at `ctx`. A host answers a fixed set of probes until it is switched
off; after cancellation a probe may lose an answer, never invent one. `arp` is
`Merger.KnownIPs`: it only grows, because the merger moves an address between
MACs but never gives it up (`ImplementsAddressBook`). `answered`, `reported`,
`early` and `asked` record history for the properties and guard nothing.

### MDNSWorker

| TLA+ | code |
|---|---|
| `run`, `result` | where `runWithRefresh` is: before the interface lookup, in its loop, in `browseSession`, at its `wg.Wait`, returned |
| `Open`, `Browse`, `BrowseFails`, `ResolverFails` | one turn of the loop over `commonServiceTypes` |
| `Refresh`, `SessionCancelled`, `EndSession`, `Join` | the select of the session, the deferred cancel, the join |
| `Take`, `Report`, `GiveUp`, `Finish` | the goroutine of one browse: `consume` and its cancellable send |
| `Answer`, `Submit`, `Close`, `Expire` (external) | a zeroconf main loop as the comments of `mdns.go` describe it |

The services are a set and a session opens them in any order. An entry is its
instance; `InSubnet` are the instances for which `scopedIP` finds an address. The error
for a missing interface is left out, since `main` always passes a detected one. A main
loop sends an entry without watching the context, which is why the goroutine has to
drain after cancellation (`FinishOnCancel` is the mutant). `prompt`, fixed at the start,
says whether the network answers well before the next refresh; only `KeptFresh` uses it,
because an instance that needs longer than every session is never heard.

### ARPWorker and Oui

| TLA+ | code |
|---|---|
| `CancelledBefore`, `Open`, `OpenFails`, `Opened`, `FilterFails`, `Filtered` | `run` before its loop, with the deferred `Close` in `Return` |
| `LeaveLoop`, `NextPacket`, `Timeout`, `ReadFails`, `ReadPacket` | the loop: the look at `ctx`, the read and what it returned |
| `IsNeighbour`, `Send`, `GiveUp` | the tests of a packet, the cancellable send |
| `Capture`, `Break` (external) | the capture's buffer, an interface that goes away |
| `Prefix`, `Read`, `Tables`, `Lookup` | `normalizePrefix`, `buildTables`, `lookupIn` |

A read is two steps, because the merger, the capture and the caller go on in between; the
filter is set after the capture is open, so that a packet of another protocol may be in the
buffer already. An address is its sequence of digits, a table of vendors a sequence of rows
in the file's order. `Decides` says without maps and lengths which row an address belongs to.
Every one of the 57,510 rows of the bundled `manuf.txt` has a long name; for a row without
one `LookupLong` would fall back to a shorter block's, which `ManufRow` leaves out as the
file does.

### HostProbe, Nbns and OSDetect

| TLA+ | code |
|---|---|
| `stage`, `Start` ... `Report`, `Drop` | `probeOne` from its first look at `ctx` to its send |
| `Launch`, `Lands`, `Refuses` | a probe that is sent, that ends, that a done `ctx` prevents |
| `Persistent`, `Interrupted`, `Durations` | which probes watch `ctx` before, during, or never |
| `Resolved`, `NextLookup` | `ResolveHostname`: system, gateway, NetBIOS again, mDNS |
| `SkipName`, `Pass`, `Follow`, `Label`, `End` | the loop of `skipNBNSName` |
| `Parse`, `Workstation` | `parseNBNSResponse` |
| `Rules`, `OSDetect`, `OSGuess`, `FamilyOf` | the chain of `OSDetect`, the TTL buckets, `vendorFamily` |

A probe in flight takes no time or all of its timeout; `late` sums what was spent after the
cancellation, in tenths of a second. A datagram keeps its bytes, for pointers, labels and
sizes are what the traversal is about, on a smaller scale (below). `IsAnswer` and
`NamesMachine` say what a whole answer is without a traversal: the parts of a name are
the closure of "what follows" and "what a pointer names". A vendor is the set of families
whose words its name contains, a service its type and the device its TXT model speaks of.

### Tui

| TLA+ | code |
|---|---|
| `m` | the `Model`; `request` is a rescan handed to `OnRescan` |
| `Pressed` = `FilterKey` / `DetailKey` / `MainKey` | who takes a key in `update`, in the order the code asks: filter, help, open details, tab |
| `Updated` | `Update`: `update`, then the search for the device that was selected, then `clampViewport` |
| `RowsOf`, `Matches`, `Identity` | `selection.go` |
| `Rows`, `Start`, `Clamped`, `TabLines`, `DetailLines` | the layout arithmetic of `devices.go`, `viewport.go` |
| `Press`, `Resize`, `Tick`, `Event` | the messages |

Bubble Tea handles one message at a time, so an action is a whole `Update`; what
interleaves is the list that changes between two of them. The list is held sorted:
`filterDevices` keeps the order, so sorting before or after it is the same. Text is
counted in lines, and `wrap` is the number of screen lines a line takes. A filter text is
its length and a device's name the longest text that finds it. Between two ticks the list
may change to any later one (`Later`): devices merge and addresses move, names change
freely.

### Netiface and Main

| TLA+ | code |
|---|---|
| `OnLinux`, `OnDarwin`, `OnWindows`, `Cost`, `DefaultRoute` | `defaultRouteInterface` of each platform: which rows count, by what, the first of equals |
| `InfoForAddresses`, `Better` | `infoForAddresses`: candidates, the best match so far, the size check |
| `SubnetIPs`, `IsHost` | the loop over the subnet and who is appended |
| `UsableARPNeighbor`, `SeedFromKernelARP` | `usableARPNeighbor`, and which rows each platform's cache contributes |
| `NoRoute`, `NoInterface`, `Detected`, `NoCapture`, `Start` | `main`: `Detect`, `Precheck`, and the goroutines of `runOnce` or `runTUI` |
| `ListenerEnds`, `Judge`, `Write` | `runOnce`: the drain of the events, the verdict, the output |
| `Report`, `CancelUI`, `EndScan`, `JoinScan` | `runTUI`: the goroutine of the scan, the cancel after `prog.Run`, `scanDone` |
| `UIStarts`, `UIFails`, `UIKilled`, `UIBreaks`, `UIQuits` | `prog.Run`: the terminal is set up or not; the event loop ends by its context, an error or the user |
| `Found`, `Verdict`, `UIVerdict` | which exit code: 91-97 with an empty snapshot, and 147-155 |
| `Signal`, `WatcherTakes` ... `WatcherStops`, `SignalKills` | `signalContext`, and the default of a signal after `signal.Stop` |
| `ScanStep` | `Scanner`'s steps, while the process is alive |

An address is a number of `Width` bits and its increment wraps around. `Matches` is
`IPNet.Contains` on such numbers. A prefix of 0 would make the loop of `SubnetIPs` run for
ever; it is refused by `MinOnes`, which `WidthAssumption` demands. The property states what
the hosts should be without the loops: the addresses of the subnet that the most specific
match of the gateway of the preferred route names, without those whose neighbour lies outside.
Which routes a platform may follow (`IsInForce`) and how it ranks them (`Rank`) the property
states on its own, from the fields of the rows; it uses none of `Cost`, `IsCandidate` and the loop.

`Main` shares the variables of `Scanner` by instance: `caller` is the goroutine that runs
`Run` or `RunOnce`, `parentDone` the context of `signalContext`. `machine`, the routes,
adapters and addresses, is the input of `Detect` and forgotten afterwards. `Scanner` leaves open when a blocked Left event is received;
here it is received only while somebody listens, `runOnce`'s goroutine or the UI, so that a
scan whose UI has ended must end by its context. Bubble Tea is external (version 1.3.10 of
`go.mod`): `prog.Run` may fail to set up the terminal, and returns that error as it is; once
its event loop runs it ends when the user quits, or by a context that is done or an error,
both of which it returns wrapped in `ErrProgramKilled`. `main.go:151` exempts that, so a UI that
breaks after it came up exits with 0, as `UIVerdict` does; one that never came up with a
runtime error. After `signal.Stop` a second signal
kills the process, unless Bubble Tea catches it; one that arrives before `signalContext`
kills it too, with nothing started, and is left out.

## 3. The runs

| run | instance | checks |
|---|---|---|
| `merger_state` | 2 MACs, 3 addresses, 2 ports, 2 names, 1 service, 1 TTL, one instant | `OneOwnerPerIP`, `DerivedInSync`, `NoInheritedPorts`, `EvidenceKept`, `MDNSNameSticks`, refinement of `AddressBook` |
| `merger_ageing` | 2 MACs, 2 addresses, 4 instants, lag 1, fairness | `StatusMatchesAge`, `SightingsKept`, `DeparturesNotLost`, `DepartureHeard`, refinement of `Census` |
| `merger_return` | 1 MAC, 2 addresses, 5 instants, channel of 3: a violation | `ReturnIsJoined` |
| `scanner_life` | 3 workers, 1 seed, 1 host, channel of 1, fairness | `NothingLeftBehind`, `SuccessIsComplete`, `BlameIsDeserved`, `SeedsFirst`, `Returns` |
| `active_safety` | 2 hosts, 4 profiles, 2 goroutines, channel of 1 | `ReportedAreAlive`, `SweepIsComplete`, `StealthHostsFound`, `NoPartialScan` |
| `active_progress` | 2 hosts, 2 profiles, 1 goroutine, fairness | `RescanServed`, refinement of `Worker` |
| `arp_worker` | 6 kinds of packets, 3 of them captured, tables of 2 of 8 rows, channel of 1, fairness | `EveryPacketReported`, `VendorIsClosest`, refinement of `Worker` |
| `mdns_sessions` | 2 services, 3 instances (1 foreign), channels of 1, fairness | `SessionIsJoined`, `KeptFresh`, refinement of `Worker` |
| `host_probe` | every way to write a NetBIOS answer, every host and network of `MCHostProbe` | `DrainsInTime`, `NameFromWholeAnswer`, `LabelsSurvive` |
| `probe_drain` | as above: a violation | `DrainsWithinASecond` |
| `tui` | every list of 2 MACs and 2 addresses on a page of one row; 6 devices at heights 0, 5, 14 and 24, wrap 1 and 2, 2 events kept of 3; overlays that are opened over each other | `TypeOK`, `PagesAreInRange`, `SelectionFollows`, `DetailsKeepTheirDevice`, `ReaderKeepsPlace` |
| `main_life` | lists of 2 of 31 addresses and 7 gateways, tables of 2 of 30 routes on 3 platforms, 4 bits; 2 workers, no seed, 1 host, fairness | `ExitIsDeserved`, `NothingOutlivesMain`, `HostsAreExact`, `EndsTogether` |

Why the bounds are enough. A conflict about an address needs two MACs and one
address; a fold into a device with other addresses needs a second, and the third
lets the old owner keep one. Ageing needs the instants before and after each
threshold; with `StaleAfter` 1, `LeftAfter` 2 and a lag of 1, four instants let a
device age to Offline, be heard late, and return. A channel of one message is
full as soon as anything is in it, so blocking and dropping happen everywhere;
larger channels behave like shorter executions of it. Two goroutines and two hosts give
every overlap of two probes, and one goroutine with two hosts every queue. Two browses
let one fail while the other runs; two instances of one service fill its channel of one.
Three packets fill the capture's buffer of two and the channel of one while a third is read;
two rows are enough for a block and a part of it in either order, or a name and its
successor. A NetBIOS answer is tried with every combination of 9 questions (none, plain,
scoped, a pointer, endless, cut off) and 18 names (plain, scoped, too long by one, pointers
to a name, into one, to a pointer, to themselves, forward, to the header) and with every size of its data, at
a scale where a byte has 16 values and an encoded name 3 bytes; a traversal follows offsets
and limits, which are constants of `Nbns`, and no property depends on their values.
An address of the UI's lists is unseen, anonymous or owned by either MAC, which gives every
way in which a device can gain, lose or swap its identity; six devices are one more than the
five rows the layout reserves, and the heights are those of no content, of one row with a
filter line, and of a strip that fits. Four bits have every prefix from the whole space to a single host, two addresses are enough to
differ in match, size and order, and both ends of the space are among them. Two rows of a
routing table differ in interface, gateway and cost in either order, or one of them does not count. One listener
stands for both, which `Scanner` treats alike. `main_life` has no seeds: with one, a snapshot would be
empty only after a cancellation, and a complete sweep that finds nobody, the exit with "no
devices", would not occur; seeds are in `scanner_life`, and `ExitCodesAreDeserved` is proved for any number. `merger_return`'s
channel holds all three events of its story, so that none is dropped. `HistoryCap` is 2
instead of 10. Bounds are constants named in the modules: `MaxTime`, `MaxLag`,
`Capacity`, `HistoryCap`, `UpdatesCap`, `Seeds`, `Hosts`, `OutCap`, `Profile`, `EntriesCap`,
`Packet`, `Manuf`, `MaxPackets`, `CaptureCap`, `Datagram`, `Network`, `Machine`, `Neighbor`,
and in `Tui` `Session`, `Bound`, `EventCap`; the scaled sizes are `Quarter`, `LowBytes`, `HeaderSize`, `FirstLabel`,
`MaxExpanded`, `StatSize` of `Nbns`, `DigitBits`, `BareDigits`, `AddressDigits` of `Oui` and
`Width`, `MinOnes` of `Netiface`. `merger_state` joins two questions by its constraint
`OneTopic`: two MACs and three addresses with ports, or one MAC at two addresses with names,
services and TTLs, never both. `tui` joins three kinds of sessions by `Bound`: the keys, lists
and events that bear on the selection; those that bear on pages and offsets; and the
overlays (help, the filter, open details), which take keys from each other.
Symmetry in MACs, addresses, hosts and goroutines is used in runs without
liveness only; in `Merger`, `TheOwner` is the one `CHOOSE`, over a set that
`OneOwnerPerIP` shows to be a singleton. The refinement runs keep symmetry because
the abstract variables are permuted with the detailed ones.
Deadlock is checked in every run. The end of a scan, of a worker and of the UI is the
explicit step `Over`; the merger's clock ends at
`MaxTime`, but `HandleUpdate` stays possible, so the check is on there too.

Each property has one or more mutants of the code that break it (operators marked
"Mutant" beside the definition they change), so none holds by the shape of the model.

### The two violations

`merger_return` checks what the design document says of `EventJoined`: "first
sighting (or returning after Left)"
(`docs/superpowers/specs/2026-04-25-lan-inventory-design.md:193`). `handleUpdate`
computes `wasOffline` at line 182, after the fold of an IP-only entry (359-362) has
overwritten the Offline status of the MAC-keyed device. In TLC's trace the session is never
cancelled and every event finds room: the device joins at one address, a sweep finds it
Offline, and its Left is sent. Then an mDNS reply from another address, without a MAC, makes
an entry of that address, whose Joined is queued behind the Left; the Left is received; and the
ARP packet that names the device there folds that entry in, and the return is announced
under the MAC as Updated. The
property demands all of that (`Departed`): a session under way, a Left that was heard,
and no address on its own but those first heard after that sweep.
`Census` states the
weaker promise the code keeps: Joined unless one of the two keys was present.

`probe_drain` checks the same document's "Ctrl-C cancels the root context. All goroutines
drain within ~1 s." (line 269). On Windows an echo blocks for its whole second whatever
becomes of the context (`ping_windows.go:54`); the NetBIOS query after it does not look at
the context either and reads for half a second, and `ResolveHostname` sends it once more: up
to two seconds. `DrainsInTime` states the bounds the code keeps, two seconds there and one
elsewhere.

### Fairness

* Merger: Go's select picks among ready cases at random, so `Stop` is strongly
  fair and a send with room happens. The consumer receives until the session is
  cancelled, not after: the UI stops listening before `runTUI` calls `cancel`.
* Scanner: goroutines run; `Merge`, `MergerStops` and the active worker's `Send`
  are strongly fair (select, and the FIFO of blocked senders). No worker has to
  fail, quit or hear anything. The active sweep ends because its probes time out.
* ActiveWorker: every step of `Run` and of a goroutine is weakly fair, sends and
  the return from the select strongly, and the merger receives until cancellation.
  Nobody has to tick, to press a key or to cancel.
* ARPWorker: `run` is scheduled, a read ends after `arpReadTimeout`, and the send is given
  up once cancelled. Nothing has to be captured, to break or to be received.
* MDNSWorker: goroutines and main loops are weakly fair, the send of an update strongly
  (senders are served in turn), the ticker ticks, and the merger receives until
  cancellation. A present instance answers a browse that keeps asking (strong fairness of
  `Answer`). Nothing has to fail, to expire, to appear or to be cancelled.
* Tui, HostProbe: safety only.
* Worker has no fairness: what it owes is a leads-to, that a cancelled worker returns.
* Main: that of `Scanner`, but the events are received only while somebody listens; `main`,
  the goroutine of the scan and the watcher are weakly fair, and Bubble Tea sets up the
  terminal or fails to, and returns once its context is done. Nobody has to quit, to break or
  to send a signal.

## 4. The theorems

All of them hold for every value of the constants that satisfies the named assumptions
below. `Spec => []P` is proved as usual: an inductive invariant that holds initially, that
every step preserves, one proof step per action, and that implies `P`.

### Merger (`MergerProofs`)

For every set of MACs, addresses, ports and observations, every clock and channel size, and
every OS guess function:

* `TypeCorrect`: `Spec => []TypeOK`. The lemmas say what each operator on devices
  returns (`FoldType`, `ObservedType`, `RefreshedType`, ...), then one step per action.
* `OwnershipIsExclusive`: `Spec => []OneOwnerPerIP`, inductive together with the types.
* `ImplementsAddressBook`: `Spec => AddressBookSpec`: initial states map to initial
  states, and each step, under exclusive ownership, to a sighting, a claim or a stutter.
* `StatusIsHonest`: `Spec => []StatusMatchesAge`. Not inductive as it stands: a cached
  neighbour is handled as "Stale" only because nothing was observed before it. The
  invariant `HonestInv` adds that while `seeding` holds no device has been seen
  (`NobodySeenYet`), and that no sighting lies in the future.
* `ImplementsCensus`: `Spec => CensusSpec`: every step is an announcement, a departure, a
  delivery or a stutter of `Census`, in which present are the keys that are not Offline; uses `HonestInv`,
  because an observation must not make a device Offline.
* `NoDepartureIsLost`: `Spec => []DeparturesNotLost`, key by key (`LeftIsLast`): from the sweep on, Left
  is owed, in the channel behind all other events of the key, or the last the consumer heard.
* `PortsFollowOwnership` and `PortsAreNotInherited` rest on `SyncInv`: every entry has the
  ports of its addresses' last scans (`InSync`), over exclusive owners, and a scan that is
  kept belongs to an address that some entry owns (`ScansAreOwned`); without the latter a
  new owner would find the ports of a scan nobody accounts for.
* `SightingsAreKept`, `EvidenceIsKept` and `MDNSNamesStick` rest on `SoundInv` and on one
  statement about steps, `NothingForgotten`: each entry goes on, or is folded into the entry
  of the MAC that now owns its address, and what it becomes keeps its sightings, its
  evidence and a name that mDNS gave (`Keeps`, proved operator by operator). Round trips are more
  than kept: an entry's history goes on with what is measured and loses its oldest only
  (`Continues`, from `LatestContinues` to `EntriesContinue`), the RTT shown is the last of it, and a
  TTL comes with a history (`PingIsWhole`), a reply of no time at all included.

### The scan (`ScannerProofs`) and the program (`MainProofs`)

For every set of workers, every number of seeds and hosts, and every channel size:

* `ScannerTypeCorrect`, `NobodyLeftBehind`, `SuccessMeansComplete`, `NobodyIsBlamedInVain`,
  `SeedsComeFirst`: one invariant, `Inv`. That `errs` has room for every worker, so that
  recording an error never blocks, is not inductive as a type: `Recorded` adds that a worker is in it
  once at most, which bounds its length by the number of workers. `InOrder` keeps seeds
  before observations in the channel and workers unborn while seeding, `Joined` says what
  the caller has waited for, `Excused` and `Deserved` that an outcome counts as an error
  exactly if no cancellation excuses it, and `Accounted` where a cancellation comes from, so
  that a nil result leaves only a finished one-shot sweep. `Unspoilt` says that
  a success is not spoilt by an error or its parent once `runWorkers` has returned, after
  which `Scanner` takes no step.
* `ProgramRunsScanner`: until the scan returns, every step of `Main` is a step of `Scanner`
  (a cancellation of its parent included) or leaves the scan alone. What is proved of `Scanner`'s steps
  carries over, but for `Unspoilt`: the program may cancel after a scan that was a success.
* `ExitCodesAreDeserved`: `Spec => []ExitIsDeserved`, and `MainEndsLast`:
  `Spec => []NothingOutlivesMain`, from `Inv`: the invariant of the scan (`ScanInv`), that the scan's result
  stays explained whatever is cancelled later (`Judged`), which goroutines
  there are in each mode and phase (`Phases`), that the code and the output are set at the end
  alone and by what was joined (`Ending`), and that the scan's context derives from the program's (`Derived`).

* `HostsAreScanned`: `Spec => []HostsAreExact`, for every width of addresses, routing table, list of
  adapters and addresses, and ARP cache. The states are easy (`machine` is what it was until a subnet is
  chosen), what `Netiface` computes of it is not. `PowersAre` and `BlocksFit` say that the space is a
  multiple of each block; with them a subnet is an interval of addresses (`SubnetIs`), the
  increments of `SubnetIPs` visit it once and stop, at the end of the space because they wrap around to an
  address outside (`LoopVisits`), and the sweep and the seeds are what they should be
  (`SubnetIsSwept`). `RouteIs` and `AddressIs`: after n rows or addresses each loop holds the best of those n,
  by induction over n (`IsBest`, `IsChosen`).

### The workers

* `ActiveWorkerProofs`, for every subnet, pool and channel size. `WorkerTypeCorrect`, `OnlyTheLivingAreReported`, `NoScanIsHalf`: one invariant,
  `HonestInv`: a task that claims a sign of life has one (`HonestTask`), a scan was cut
  only if the scan is cancelled, and a task about to be sent is whole. `Sound` says
  what any probe step makes of its task, `ProbeStep` proves it probe by probe, and the
  invariants follow from `Sound` alone. `FinishedSweepsAreComplete` and `StealthHostsAreFound`:
  `CompleteInv` accounts for every host that answers a probe, or that ARP had found when its
  probes were over: it is to be queued, queued, in a task that is on
  track, or reported (`Accounted`), and `PoolJoined` says that nobody ends before the channel
  is closed and drained.
* `MDNSWorkerProofs`, for every set of services and instances and every buffer size.
  `MDNSTypeCorrect`: no channel outgrows its buffer. `SessionsAreJoined`: `wg.Wait` waits for the goroutines only, so
  that the main loops are gone too needs `JoinInv`: per service, `Phase` ties the goroutine
  to its main loop and its channel (it ends after the loop has closed and the channel is
  drained, and neither exists before the service is opened).
* `ARPWorkerProofs`, for every sequence of packets and every table of vendors.
  `PacketsAreReported`: `EveryPacketReported` is inductive with the types and with what the
  places of `run` mean (`Phases`): the n-th packet of the subnet is the n-th update.
  `ClosestVendorIsNamed`: `Spec => []VendorIsClosest`. No property of steps but one of
  `buildTables` and `lookupIn`: after n rows both maps hold, for each prefix, the name of the last row
  that has it (`MapsHold`, by induction over n), the lengths are sorted (`OrderIs`), so the first
  length that matches is the longest (`LookupIs`), and the row behind it is the only one that
  decides (`DecidingIs`).
* `ActiveWorkerKeepsContract`, `MDNSWorkerKeepsContract`, `ARPWorkerKeepsContract`: the safety
  part of `WorkerSpec`. Initial states map to initial states of `Worker`, and each step to a
  step of it or a stutter. What a return means needs the invariants above, with `Ended` (a
  worker has a result exactly once it has returned): a nil result before a cancellation is
  `Completes` only because `CompleteInv` has reported every host.

### Probes (`HostProbeProofs`)

For every host and every network:

* `ProbesDrainInTime`: `Spec => []DrainsInTime`. `DrainInv` bounds what was spent since the
  cancellation plus `Left`, what the probes that do not look at the context can still spend;
  every step moves time from the second to the first.
* `EvidenceTakesNoLabel`: `Spec => LabelsSurvive`: whatever evidence comes, in whatever order, a
  device that had a label keeps one. The rules of `OSDetect` are taken one by one
  (`RulesAre`, `LabelledExactly`); `DeviceInv` says what is known before a report.
* `AnswersNameMachines`: `Spec => []NameFromWholeAnswer`, of every datagram of any length and any
  scale of its sizes. `NameInv` is short: NBNS returned nothing or what the parser makes of the
  answer, and the latter where nothing gets lost. The rest is about the parser, which
  traverses, and about `NamesMachine`, which does not:
  * A name is a `Path`: offsets of which each has one successor, the end of its label or the
    target of its pointer, up to a zero byte. A path never comes back to an offset, for from there it would
    never end (`Distinct`), so it is shorter than the datagram (`PathIsShort`).
  * The closures of `Parts` and `Inline` are the offsets of a path from one on (`PartsOfPath`),
    and its labels up to the first pointer (`InlineOfPath`); what a closure
    contains is led to by a path (`LeadsTo`, `PathTo`).
  * The sizes that `expanded` adds up are the bytes of the path's labels, since no label comes
    twice (`WrittenOneMore`, `TextAdds`).
  * So along a path the loop's state is a function of the number of passes (`Agrees`,
    `PassOnPath`), and where the loop accepts, its own offsets are a path (`PassesArePath`):
    `NamesAreSkipped`. It is also why the loop's limit, as many steps as there are bytes, cuts
    no name short.
  * `AnswersAreParsed` compares the fields behind the names one by one (`QuestionIs`,
    `AnswersAre`, `RecordsAre`).

### UI (`TuiProofs`)

For every list, terminal size, sequence of keys and number of events:

* `ModelStaysTyped`: `Spec => []TypeOK`, and `PagesShowTheSelection`: `Spec => []PagesAreInRange`. The
  invariant is `Usable(m)`: the cursor is on the list that the filter leaves (`OnList`), the page
  shows it (`OnPage`), offsets of open details end where the details end (`DetailsFit`), and details are
  open for a device that is shown (`OpenOK`). Every message is brought into one form
  (`Ready`): a Model that may break all of that, then the tail of `Update`, which
  restores it (`UpdatedIs`, `ClampedFits`).
* `SelectionStaysOnItsDevice`, `DetailsStayOnTheirDevice`: `Spec => SelectionFollows` and
  `Spec => DetailsKeepTheirDevice`: a device of the old list has at most one successor in the
  new one (`CandidatesAre`), and the search of `Update` finds it.
* `ReadersKeepTheirPlace`: `Spec => ReaderKeepsPlace`: the offset grows by the lines of the event
  that pushes the others down, unless the page would leave the list because the oldest event is dropped (`OneFurther`,
  `PageMovesOn`).
* The sorted and filtered lists that this is about are shown to be what they should be first
  (`SortedIs`, `AmongIs`).

### Induction

The library's induction theorems take an operator, which the provers cannot instantiate.
`SetInduction` says the same of a set: one that holds 0 and every successor holds every
number. `Recursion` says that a function exists whose values are each made of the one before.
With them recursive *functions* can be reasoned about (`AmongIs`, `MapsHold`, `PowersAre`,
`ChosenIs`, `ClosureIs`, `PassesAre`), which is why `Shown`, `Tables`, `Power`, `DefaultRoute`,
`Chosen`, `Closure` and `SkipName` are written as such. `Ranking` and `OrderIs` (sorting a finite set) are
proved by the pigeonhole principle and by induction.

### Assumptions

Assumptions on constants are named in the modules: `NamesAssumption`,
`OSDetectAssumption`, `ObservationAssumption` (only `arp` and `arp-seed` know MACs, and a
seed always does; only the active worker scans ports; an observation has a MAC or an
address; a TTL or a positive round trip comes with a measured reply, `active.go:136-138` and
`:167-169`), `TimingAssumption` (an observation is handled before it is
older than `StaleAfter`: the channel holds 256 updates, handling one takes
microseconds, and `StaleAfter` is a minute), `BufferAssumption`; `ProfileAssumption`,
`PoolAssumption` (`sweepOnce` replaces a count of 0 by 32), `OutAssumption`;
`WorkerAssumption` and `BoundsAssumption` in `Scanner` (finitely many workers, the active one
among them), the same as `ScanAssumption` in `Main`, which shares its constants;
`InstanceAssumption` in `MDNSWorker`, `CaptureAssumption` in `ARPWorker` (a MAC is a sequence of
digits, a table one of rows with long names), `DigitsAssumption` in
`Oui`, `ScaleAssumption` in `Nbns`, `NetworkAssumption` and `DatagramAssumption` (its bytes are a
sequence of numbers) in `HostProbe`, `InputAssumption` in
`Tui` (a list is a finite set of devices of which no two share a MAC or an address, and a device
without a MAC is its one address: what `OneOwnerPerIP` says of the merger's lists) and
`LinesAssumption` there, `WidthAssumption` and `MachineAssumption` in `Main` (routes belong to
interfaces that have a list of addresses, an address has at most as many fixed bits as bits, and no
interface has the name that stands for none).

Type invariants that a theorem proves (`Merger`, `Scanner`, `ActiveWorker`, `MDNSWorker`)
are not checked by the runs again; `Tui`'s is, because its mutant is worth a run.

### Only model-checked

* All liveness, since fairness and ENABLED are beyond the prover here: `Returns`,
  `RescanServed`, `KeptFresh`, `EndsTogether`, `DepartureHeard`, and the leads-to of
  `WorkerSpec`.

## 5. Plan

The modules, runs and theorems planned are in place: each safety invariant and each action
property of a passing run is stated by a theorem, as is the safety part of the three
refinements. What is left is liveness, which the prover cannot reason about; the
invariants it would rest on (`CompleteInv`, `Ended`) are proved already. A code change starts at
the definition that the map names for its lines, and its runs and proofs are repeated.

## 6. Not modelled

* Snapshot output (`internal/snapshot`): JSON and table of one list. It keeps no state and
  calls nothing back; that the list is complete when it is printed is `NothingLeftBehind`.
* What the UI draws: columns, glyphs, the grid of the subnet and styles; `Tui` counts lines.
* Reading and parsing of the operating systems' tables: routes, adapters and ARP caches are
  inputs of `Main`, with what their fields can say, and that they cannot be read is a choice.
* Sockets, ICMP, libpcap, zeroconf and Bubble Tea: external, modelled from how the code uses
  them. The mapping of an interface to its Npcap device is part of `NoCapture`.
* Command-line flags and messages.
