-------------------------------- MODULE Main --------------------------------
(***************************************************************************)
(* The program: cmd/lan-inventory/main.go with the subnet it chooses       *)
(* (Netiface), the scan it runs (Scanner), the goroutine that waits for a  *)
(* signal, the consumer of the events and the terminal UI, which cancel,   *)
(* outlive and judge each other.                                           *)
(* Bubble Tea is external.  prog.Run may fail to set up the terminal; once *)
(* its event loop runs it ends when the user quits, when its context is    *)
(* done, or by an error, which it returns wrapped in ErrProgramKilled.     *)
(* A process that a signal kills ends at once.                             *)
(***************************************************************************)
EXTENDS Integers, Sequences, FiniteSets

CONSTANTS Worker, Active, UpdatesCap, Seeds, Hosts      \* of Scanner
CONSTANTS Width, MinOnes, Loopback, Multicast           \* of Netiface
CONSTANTS
    Machine,        \* bound: what the operating system may say of routes and addresses
    Neighbor        \* bound: the rows its ARP cache may hold

\* What Scanner assumes.
ASSUME ScanAssumption ==
    /\ Active \in Worker /\ IsFiniteSet(Worker)
    /\ Worker \cap {"none", "nil", "canceled"} = {}
    /\ UpdatesCap \in Nat \ {0} /\ Seeds \in Nat /\ Hosts \in Nat

\* An address has at least two bits, and the whole space is never scanned.
ASSUME WidthAssumption == Width \in Nat /\ Width >= 2 /\ MinOnes \in 1..Width

Net == INSTANCE Netiface

\* What an operating system may say: the rows of its routing table, adapters with a metric
\* and addresses, and cached neighbours.
ASSUME MachineAssumption ==
    /\ \A m \in Machine :
          /\ m.os \in {"linux", "darwin", "windows"} /\ m.adapters \in [DOMAIN m.addrs -> Int]
          /\ m.table \in Seq([iface : DOMAIN m.addrs, all : BOOLEAN, valid : BOOLEAN,
                              gateway : Net!Address \cup {Net!NoGateway}, metric : Int])
          /\ Net!NoInterface \notin DOMAIN m.addrs
          /\ \A i \in DOMAIN m.addrs :
                m.addrs[i] \in Seq([ip : Net!Address, ones : 0..Width] \cup {Net!Other})
    /\ \A row \in Neighbor : row.ip \in Net!Address /\ row.resolved \in BOOLEAN

VARIABLES
    once, caller, seedsLeft, updates, merger, merged, worker, hostsLeft,
    outcome, errs, parentDone, cancelled, closed, result    \* of Scanner

VARIABLES
    machine,    \* routes, adapters and addresses, until a subnet is chosen
    main,       \* where the main goroutine is
    ui,         \* prog.Run: starting, running, or how it ended
    listener,   \* the goroutine of runOnce that drains the events
    reporter,   \* the goroutine of runTUI that runs the scan
    notified,   \* a signal waits in the channel of signal.Notify, whose buffer is one
    watcher,    \* the goroutine of signalContext
    output,     \* the snapshot on standard output
    code        \* the exit code

scanVars == <<once, caller, seedsLeft, updates, merger, merged, worker, hostsLeft,
              outcome, errs, parentDone, cancelled, closed, result>>
ownVars  == <<machine, main, ui, listener, reporter, notified, watcher, output, code>>
vars     == <<scanVars, ownVars>>

\* caller is the goroutine of Scanner.Run or RunOnce, parentDone the signal context.
Scan == INSTANCE Scanner

Init ==
    /\ Scan!Init
    /\ machine \in Machine
    /\ main = "start" /\ ui = "off" /\ listener = "off" /\ reporter = "off"
    /\ notified = FALSE /\ watcher = "off"
    /\ output = "none" /\ code = "none"

\* cancel of signalContext; the scan's context derives from it.
CancelContext == parentDone' = TRUE /\ cancelled' = TRUE

scanButContexts == <<once, caller, seedsLeft, updates, merger, merged, worker,
                     hostsLeft, outcome, errs, closed, result>>

Exit(value) == main' = "exited" /\ code' = value

----------------------------------------------------------------------------
(* main *)

\* What the choice was made from is not read again.
Forget == machine' = Net!Nothing

NotConfigured ==
    /\ Exit("config") /\ Forget
    /\ UNCHANGED <<scanVars, ui, listener, reporter, notified, watcher, output>>

\* The platform's tables cannot be read, or name an interface that is gone.
NoRoute == main = "start" /\ NotConfigured

\* Detect: no default route, no subnet, or too large a one.
NoInterface == main = "start" /\ Net!Detect(machine).error /\ NotConfigured

Detected ==
    /\ main = "start" /\ ~Net!Detect(machine).error
    /\ main' = "detected" /\ Forget
    /\ UNCHANGED <<scanVars, ui, listener, reporter, notified, watcher, output, code>>

\* Precheck: no access to packet capture.
NoCapture == main = "detected" /\ NotConfigured

\* signalContext, scanner.New and the goroutines of runOnce or runTUI.
Start ==
    /\ main = "detected" /\ UNCHANGED machine
    /\ watcher' = "select"
    /\ IF once
       THEN main' = "scanning" /\ listener' = "ranging" /\ UNCHANGED <<ui, reporter>>
       ELSE main' = "showing" /\ ui' = "starting"
            /\ reporter' = "scanning" /\ UNCHANGED listener
    /\ UNCHANGED <<scanVars, notified, output, code>>

----------------------------------------------------------------------------
(* runOnce *)

\* range over the events ends when they are closed.
ListenerEnds ==
    /\ listener = "ranging" /\ closed
    /\ listener' = "done"
    /\ UNCHANGED <<scanVars, machine,
                   main, ui, reporter, notified, watcher, output, code>>

\* The snapshot has a device: a cached neighbour, or somebody who was heard.
Found == merged # {}

\* Mutant: an empty snapshot is reported before the error of the scan is.
VerdictOfDevices == IF ~Found THEN "nodevices" ELSE IF result # "nil" THEN "runtime" ELSE "ok"

\* The error of the scan, an empty snapshot, or devices to write.
Verdict == IF result # "nil" THEN "runtime" ELSE IF ~Found THEN "nodevices" ELSE "ok"

\* RunOnce has returned, and doneEvents is closed.
Judge ==
    /\ main = "scanning" /\ caller = "returned" /\ listener = "done"
    /\ IF Verdict = "ok" THEN main' = "writing" /\ UNCHANGED code ELSE Exit(Verdict)
    /\ UNCHANGED <<scanVars, machine,
                   ui, listener, reporter, notified, watcher, output>>

\* WriteTable or WriteJSON.
Write ==
    /\ main = "writing"
    /\ \/ output' = "written" /\ Exit("ok")
       \/ output' = "failed" /\ Exit("runtime")
    /\ UNCHANGED <<scanVars, machine,
                   ui, listener, reporter, notified, watcher>>

----------------------------------------------------------------------------
(* runTUI *)

ScanFailed == result \in Worker

\* Mutant: the UI is left alone with a scan that failed.
ReportAlone ==
    /\ reporter = "scanning" /\ caller = "returned"
    /\ reporter' = "done"
    /\ UNCHANGED <<scanVars, machine,
                   main, ui, listener, notified, watcher, output, code>>

\* Scanner.Run has returned: scanDone gets its error.
Report ==
    /\ reporter = "scanning" /\ caller = "returned"
    /\ reporter' = IF ScanFailed THEN "cancelling" ELSE "done"
    /\ UNCHANGED <<scanVars, machine,
                   main, ui, listener, notified, watcher, output, code>>

\* A failed scan ends the UI.
CancelUI ==
    /\ reporter = "cancelling"
    /\ reporter' = "done" /\ CancelContext
    /\ UNCHANGED <<scanButContexts, machine,
                   main, ui, listener, notified, watcher, output, code>>

MoveUI(from, to) ==
    /\ main = "showing"
    /\ ui = from /\ ui' = to
    /\ UNCHANGED <<scanVars, machine,
                   main, listener, reporter, notified, watcher, output, code>>

\* The terminal is set up and the event loop runs, or it cannot be.
UIStarts == MoveUI("starting", "running")
UIFails  == MoveUI("starting", "failed")

\* ErrProgramKilled: its context is done, or it breaks.
UIKilled == parentDone /\ MoveUI("running", "killed")
UIBreaks == MoveUI("running", "killed")

UIQuits == MoveUI("running", "quit")

UIOver == ui \in {"quit", "killed", "failed"}

\* prog.Run has returned: cancel.
EndScan ==
    /\ main = "showing" /\ UIOver
    /\ main' = "joining" /\ CancelContext
    /\ UNCHANGED <<scanButContexts, machine,
                   ui, listener, reporter, notified, watcher, output, code>>

\* The error of the scan comes first.  A cancellation is none, nor is
\* ErrProgramKilled, whatever killed the UI.
UIVerdict == IF ScanFailed \/ ui = "failed" THEN "runtime" ELSE "ok"

\* Mutant: nobody waits for scanDone.
JoinNobody ==
    /\ main = "joining" /\ Exit(UIVerdict)
    /\ UNCHANGED <<scanVars, machine,
                   ui, listener, reporter, notified, watcher, output>>

\* scanDone has the scan's error.
JoinScan ==
    /\ main = "joining" /\ reporter \in {"cancelling", "done"}
    /\ Exit(UIVerdict)
    /\ UNCHANGED <<scanVars, machine,
                   ui, listener, reporter, notified, watcher, output>>

----------------------------------------------------------------------------
(* signalContext *)

Alive == main \notin {"start", "detected", "exited"}

\* SIGINT or SIGTERM; a second one in the buffer is dropped.
Signal ==
    /\ Alive /\ watcher # "gone"
    /\ notified' = TRUE
    /\ UNCHANGED <<scanVars, machine,
                   main, ui, listener, reporter, watcher, output, code>>

\* Nobody catches it any more: Bubble Tea does as long as it runs.
SignalKills ==
    /\ Alive /\ watcher = "gone" /\ ui # "running"
    /\ Exit("killed")
    /\ UNCHANGED <<scanVars, machine,
                   ui, listener, reporter, notified, watcher, output>>

WatcherTakes ==
    /\ Alive /\ watcher = "select" /\ notified
    /\ notified' = FALSE /\ watcher' = "cancelling"
    /\ UNCHANGED <<scanVars, machine,
                   main, ui, listener, reporter, output, code>>

WatcherCancels ==
    /\ Alive /\ watcher = "cancelling"
    /\ watcher' = "stopping" /\ CancelContext
    /\ UNCHANGED <<scanButContexts, machine,
                   main, ui, listener, reporter, notified, output, code>>

WatcherUnwinds ==
    /\ Alive /\ watcher = "select" /\ parentDone
    /\ watcher' = "stopping"
    /\ UNCHANGED <<scanVars, machine,
                   main, ui, listener, reporter, notified, output, code>>

\* signal.Stop
WatcherStops ==
    /\ Alive /\ watcher = "stopping"
    /\ watcher' = "gone"
    /\ UNCHANGED <<scanVars, machine,
                   main, ui, listener, reporter, notified, output, code>>

----------------------------------------------------------------------------
(* The scan *)

\* Somebody receives the events: the UI does only while it runs.
Listening == listener = "ranging" \/ ui = "running"

Lift(A) == Alive /\ A /\ UNCHANGED ownVars

MergerSends == Listening /\ Scan!SweepSends

ScanStep ==
    \/ Lift(Scan!CallerStep)
    \/ Lift(Scan!Merge \/ Scan!SweepBlocks \/ Scan!SweepAbandons \/ Scan!MergerStops)
    \/ Lift(MergerSends)
    \/ Lift(Scan!Completes)
    \/ \E w \in Worker : Lift(Scan!WorkerStep(w))

\* Nothing is left to do.
Over == main = "exited" /\ UNCHANGED vars

Setup == NoRoute \/ NoInterface \/ Detected \/ NoCapture \/ Start
MainStep == Setup \/ ListenerEnds \/ Judge \/ Write \/ EndScan \/ JoinScan
ReporterStep == Report \/ CancelUI
UIStep == UIStarts \/ UIFails \/ UIKilled \/ UIBreaks \/ UIQuits
WatcherStep == WatcherTakes \/ WatcherCancels \/ WatcherUnwinds \/ WatcherStops

Next ==
    \/ MainStep
    \/ ReporterStep
    \/ UIStep
    \/ WatcherStep
    \/ Signal \/ SignalKills
    \/ ScanStep
    \/ Over

Spec == Init /\ [][Next]_vars

\* The scan's fairness, as in Scanner, except that the events are received only while
\* somebody listens; goroutines run, and Bubble Tea starts or fails to, and obeys
\* its context.  Nobody has to quit, to fail or to send a signal.
Fairness ==
    /\ WF_vars(Lift(Scan!CallerStep))
    /\ SF_vars(Lift(Scan!Merge)) /\ SF_vars(Lift(Scan!MergerStops))
    /\ WF_vars(Lift(MergerSends)) /\ WF_vars(Lift(Scan!SweepAbandons))
    /\ SF_vars(Lift(Scan!Send(Active))) /\ WF_vars(Lift(Scan!Completes))
    /\ \A w \in Worker :
          /\ WF_vars(Lift(Scan!Obeys(w)))
          /\ WF_vars(Lift(Scan!Classify(w) \/ Scan!Record(w) \/ Scan!CancelOthers(w)
                                           \/ Scan!Finish(w)))
    /\ WF_vars(MainStep) /\ WF_vars(ReporterStep)
    /\ WF_vars(UIStarts \/ UIFails) /\ WF_vars(UIKilled)
    /\ WF_vars(WatcherStep)

FairSpec == Spec /\ Fairness

----------------------------------------------------------------------------
(* Properties *)

\* Nobody was blamed, and every host that answers was reported.
Swept == errs = <<>> /\ hostsLeft = 0 /\ \A w \in Worker : outcome[w] # "failure"

\* A row that a platform may follow: a default route in force.  Only Linux does without a
\* gateway, only its metrics are text.
IsInForce(r) ==
    /\ r.all
    /\ machine.os = "linux" \/ r.gateway # Net!NoGateway
    /\ machine.os = "linux" => r.metric # Net!Unreadable
    /\ machine.os = "windows" => r.valid /\ machine.adapters[r.iface] # Net!Down

\* What a platform ranks it by: macOS by nothing, Windows by the sum of two metrics.
Rank(r) == (IF machine.os = "darwin" THEN 0 ELSE r.metric)
         + (IF machine.os = "windows" THEN machine.adapters[r.iface] ELSE 0)

\* The route that defaultRouteInterface should choose: none ranks before it, none that
\* ranks the same comes before it.
IsPreferred(n) ==
    LET inForce == {k \in DOMAIN machine.table : IsInForce(machine.table[k])}
        rank == [k \in inForce |-> Rank(machine.table[k])]
    IN  /\ n \in inForce
        /\ \A k \in inForce : rank[n] < rank[k] \/ (rank[n] = rank[k] /\ n <= k)

\* The address that Detect should choose: the first of the most specific ones whose subnet
\* holds the gateway, or else the first.
IsRouted(n, addrs, gateway) ==
    LET usable == {k \in DOMAIN addrs : addrs[k] # Net!Other}
        holding == {k \in usable : Net!Matches(addrs[k], gateway)}
    IN  IF holding = {} THEN n \in usable /\ \A k \in usable : n <= k
        ELSE /\ n \in holding
             /\ \A k \in holding : \/ addrs[k].ones < addrs[n].ones
                                   \/ addrs[k].ones = addrs[n].ones /\ n <= k

\* The sweep and the seeds are what the chosen subnet demands.
SubnetIsExact(info, s) ==
    LET inside == {ip \in Net!Address : Net!Contains(s, ip)}
        ends == {ip \in inside : ip - 1 \notin inside \/ ip + 1 \notin inside}
        hosts == Net!SubnetIPs(info.subnet)
        special == {0, Net!Power[Width] - 1} \cup Loopback \cup Multicast
        seeded == Net!SeedFromKernelARP(machine.os, Neighbor, info)
    IN  /\ hosts = IF inside = ends THEN inside ELSE inside \ ends
        /\ seeded = {row \in Neighbor : /\ row.iface = info.iface /\ row.mac = "unicast"
                                        /\ row.resolved \/ machine.os = "darwin"
                                        /\ row.ip \in hosts \ special}

\* netiface.go:42-43 and :115-116, route_windows.go:6-7, arp_seed.go:77-78: the sweep
\* visits exactly the hosts of the subnet the cheapest default route uses, wherever it
\* stands among the routes and the interface's addresses and however large the others
\* are: all but its first and last address, of a subnet of one or two addresses all,
\* also where the increment wraps around.  It is refused only for its own size, and the
\* cached neighbours that are seeded are resolved hosts of that interface and subnet.
HostsAreExact ==
    main = "start" =>
        LET info == Net!Detect(machine)
            preferred == {n \in DOMAIN machine.table : IsPreferred(n)}
            route == machine.table[CHOOSE n \in preferred : TRUE]
            addrs == machine.addrs[route.iface]
            routed == {n \in DOMAIN addrs : IsRouted(n, addrs, route.gateway)}
            subnet == addrs[CHOOSE n \in routed : TRUE]
        IN  IF preferred = {} \/ routed = {} THEN info.error
            ELSE /\ info.error <=> subnet.ones < MinOnes
                 /\ ~info.error => /\ info.iface = route.iface
                                   /\ SubnetIsExact(info, subnet)

\* main.go:32-37: the exit code tells what happened, whoever cancelled whom.  Success
\* is a complete sweep that found devices, on standard output, or a UI that came up and
\* whose scan did not fail; no devices means that a complete sweep, the neighbours' cache
\* included, found none; a runtime error has a cause; and a signal kills the process
\* only when it is ending already.
ExitIsDeserved ==
    /\ code = "ok" => IF once THEN output = "written" ELSE errs = <<>> /\ ui # "failed"
    /\ code = "nodevices" => once /\ Swept /\ merged = {}
    /\ output # "none" => once /\ Swept /\ merged # {}
    /\ code = "runtime" => \/ errs # <<>> \/ ui = "failed" \/ output = "failed"
                           \/ once /\ parentDone
    /\ code = "killed" => parentDone

\* main.go:102-103 and :143-144: when main returns, the scan has ended with all its
\* goroutines, nobody drains events any more, and every update is in the snapshot.
NothingOutlivesMain ==
    code \in {"ok", "nodevices", "runtime"} =>
        /\ caller = "returned" /\ merger = "done" /\ updates = <<>>
        /\ \A w \in Worker : worker[w] = "done"
        /\ listener # "ranging" /\ reporter # "scanning"

\* The program ends when its one scan is over, when a signal or the user asks for it,
\* and when a worker fails: UI and scan never wait for each other.
EndsTogether ==
    (once \/ parentDone \/ errs # <<>> \/ UIOver) ~> main = "exited"
=============================================================================
