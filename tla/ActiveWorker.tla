---------------------------- MODULE ActiveWorker ----------------------------
(***************************************************************************)
(* The active worker of internal/scanner/active.go: sweeps of the subnet   *)
(* by a pool of goroutines, started by a timer, a ticker or a rescan       *)
(* request, and the chain of probes a host goes through.                   *)
(* One step is one channel operation, one probe with the ctx check that    *)
(* follows it, or one read of the merger's KnownIPs.  The order in which   *)
(* hosts are queued does not matter, so HostIPs and jobs are sets; of an   *)
(* update only its host is kept, and whether its port scan was cut short.  *)
(***************************************************************************)
EXTENDS Naturals, Sequences, FiniteSets

CONSTANTS
    Host,           \* HostIPs: the addresses of the subnet
    Goroutine,      \* the pool (WorkerCount of them, 32 in the code)
    Profile,        \* bound: the ways a host may answer, sets of probes
    OutCap          \* buffer of the updates channel (256 in the code)

Probe == {"ping", "tcp", "nbns", "ports"}

ASSUME ProfileAssumption == Profile \subseteq SUBSET Probe /\ {} \in Profile
ASSUME PoolAssumption == Goroutine # {}
ASSUME OutAssumption == OutCap \in Nat \ {0}

VARIABLES
    once,       \* one-shot: an initial delay, one sweep, and Run returns
    run,        \* where Run is
    result,     \* what Run returned
    ticking,    \* the ticker exists: the first sweep of a live scan is over
    tick,       \* a tick waits in the ticker's channel
    request,    \* a request waits in sweepRequests, whose buffer is one
    asked,      \* the user asked for a rescan and no sweep started since
    known,      \* the ARP-confirmed addresses as the sweep read them
    toFeed,     \* HostIPs not queued yet
    jobs,       \* the jobs channel
    closed,     \* the jobs channel is closed
    pool,       \* goroutine -> its host and how far its probe is
    out,        \* the updates channel
    arp,        \* Merger.KnownIPs: addresses owned by a MAC
    answers,    \* host -> the probes it answers, none once it is off
    cancelled,  \* ctx is done
    answered,   \* hosts that answered a probe of this sweep
    reported,   \* hosts this sweep sent an update about
    early       \* hosts that were ARP-confirmed when this sweep began their probe

runVars  == <<once, run, result, ticking, tick, request, asked>>
jobVars  == <<known, toFeed, jobs, closed>>
netVars  == <<arp, answers>>
seenVars == <<answered, reported, early>>
vars == <<runVars, jobVars, pool, out, netVars, cancelled, seenVars>>

Update == [host : Host, cut : BOOLEAN]
Stage  == {"done", "ready", "ping", "tcp", "recheck", "nbns", "ports", "check", "send"}

\* A goroutine between two hosts; before the first and after the last sweep.
Task == [stage : Stage, host : Host \cup {"none"}, known : BOOLEAN,
         alive : BOOLEAN, heard : BOOLEAN, cut : BOOLEAN]
At(stage) == [stage |-> stage, host |-> "none", known |-> FALSE,
              alive |-> FALSE, heard |-> FALSE, cut |-> FALSE]

Init ==
    /\ once \in BOOLEAN
    /\ run = "delay" /\ result = "none"
    /\ ticking = FALSE /\ tick = FALSE /\ request = FALSE /\ asked = FALSE
    /\ known = {} /\ toFeed = {} /\ jobs = {} /\ closed = TRUE
    /\ pool = [g \in Goroutine |-> At("done")]
    /\ out = <<>>
    /\ arp \in SUBSET Host
    /\ answers \in [Host -> Profile]
    /\ cancelled = FALSE
    /\ answered = {} /\ reported = {} /\ early = {}

----------------------------------------------------------------------------
(* Run *)

\* The start of sweepOnce: the snapshot of KnownIPs, the jobs and the pool.
StartSweep ==
    /\ run' = "feeding"
    /\ known' = arp
    /\ toFeed' = Host /\ jobs' = {} /\ closed' = FALSE
    /\ pool' = [g \in Goroutine |-> At("ready")]
    /\ asked' = FALSE
    /\ answered' = {} /\ reported' = {} /\ early' = {}
    /\ UNCHANGED <<once, result, ticking, out, netVars, cancelled>>

\* The initial delay of a one-shot run is over; a live scan has none.
FirstSweep == run = "delay" /\ StartSweep /\ UNCHANGED <<tick, request>>

Return(value) ==
    /\ run' = "returned" /\ result' = value
    /\ UNCHANGED <<once, ticking, tick, request, asked, jobVars, pool, out,
                   netVars, cancelled, seenVars>>

CancelledInDelay == once /\ run = "delay" /\ cancelled /\ Return("canceled")

Feed(h) ==
    /\ run = "feeding" /\ h \in toFeed
    /\ toFeed' = toFeed \ {h} /\ jobs' = jobs \cup {h}
    /\ UNCHANGED <<runVars, known, closed, pool, out, netVars, cancelled, seenVars>>

\* All hosts are queued, or ctx.Done won a select; close(jobs).
CloseJobs ==
    /\ run = "feeding"
    /\ toFeed = {} \/ cancelled
    /\ run' = "waiting" /\ closed' = TRUE /\ toFeed' = {}
    /\ UNCHANGED <<once, result, ticking, tick, request, asked, known, jobs, pool,
                   out, netVars, cancelled, seenVars>>

\* wg.Wait is over; a live scan goes to its select.
SweepEnds ==
    /\ run = "waiting"
    /\ \A g \in Goroutine : pool[g].stage = "done"
    /\ run' = IF once THEN "swept" ELSE "idle"
    /\ ticking' = ~once
    /\ UNCHANGED <<once, result, tick, request, asked, jobVars, pool, out, netVars,
                   cancelled, seenVars>>

\* Mutant: a one-shot run reports no error.
ReturnOnceQuietly == run = "swept" /\ Return("nil")

ReturnOnce == run = "swept" /\ Return(IF cancelled THEN "canceled" ELSE "nil")

ReturnIdle == run = "idle" /\ cancelled /\ Return("nil")

TickSweep == run = "idle" /\ tick /\ StartSweep /\ tick' = FALSE /\ UNCHANGED request

RescanSweep == run = "idle" /\ request /\ StartSweep /\ request' = FALSE /\ UNCHANGED tick

----------------------------------------------------------------------------
(* A goroutine of the pool, and probeOne *)

\* g goes on, or back to its channel; a host that answered is remembered.
Moves(g, task, heard) ==
    /\ pool' = [pool EXCEPT ![g] = task]
    /\ answered' = IF heard THEN answered \cup {pool[g].host} ELSE answered

probing == <<runVars, jobVars, out, netVars, cancelled, reported, early>>

\* The next host, unless ctx is done: then it is dropped and the rest is drained.
Take(g, h) ==
    /\ pool[g].stage = "ready" /\ h \in jobs
    /\ jobs' = jobs \ {h}
    /\ pool' = IF cancelled THEN pool
               ELSE [pool EXCEPT ![g] = [At("ping") EXCEPT !.host = h,
                                                           !.known = (h \in known)]]
    /\ early' = IF h \in arp THEN early \cup {h} ELSE early
    /\ UNCHANGED <<runVars, known, toFeed, closed, out, netVars, cancelled,
                   answered, reported>>

Ends(g) ==
    /\ pool[g].stage = "ready" /\ closed /\ jobs = {}
    /\ Moves(g, At("done"), FALSE)
    /\ UNCHANGED probing

\* A probe gets an answer only from a host that gives it; cancellation may cut it.
Outcome(g, p) ==
    LET truth == p \in answers[pool[g].host]
    IN  IF cancelled THEN {truth, FALSE} ELSE {truth}

Ping(g) ==
    /\ pool[g].stage = "ping"
    /\ \E ok \in Outcome(g, "ping") :
          Moves(g, [pool[g] EXCEPT !.alive = ok,
                                   !.stage = IF ok THEN "nbns" ELSE "tcp"], ok)
    /\ UNCHANGED probing

\* The fallback; a host that stays silent is gated by what ARP knows of it.
TCPAlive(g) ==
    /\ pool[g].stage = "tcp"
    /\ \E ok \in Outcome(g, "tcp") :
          Moves(g, [pool[g] EXCEPT !.alive = ok,
                       !.stage = IF ok \/ pool[g].known THEN "nbns" ELSE "recheck"], ok)
    /\ UNCHANGED probing

\* Mutant: only the snapshot of the sweep counts.
RecheckSnapshot(g) ==
    /\ pool[g].stage = "recheck"
    /\ Moves(g, At("ready"), FALSE)
    /\ UNCHANGED probing

\* KnownIPs is read again: probing itself may have caused an ARP exchange.
Recheck(g) ==
    /\ pool[g].stage = "recheck"
    /\ Moves(g, IF pool[g].host \in arp
                THEN [pool[g] EXCEPT !.known = TRUE, !.stage = "nbns"]
                ELSE At("ready"), FALSE)
    /\ UNCHANGED probing

NBNS(g) ==
    /\ pool[g].stage = "nbns"
    /\ \E ok \in Outcome(g, "nbns") :
          Moves(g, [pool[g] EXCEPT !.heard = ok, !.stage = "ports"], ok)
    /\ UNCHANGED probing

\* Mutant: an ARP-confirmed host goes on although it stays silent.
SilentUnknown(task) == ~task.alive /\ ~task.heard /\ ~task.known

\* Nothing was heard: an ARP identity alone is no sign of life.
Silent(task) == ~task.alive /\ ~task.heard

ScanPorts(g) ==
    /\ pool[g].stage = "ports"
    /\ \E ok \in Outcome(g, "ports") :
          LET task == [pool[g] EXCEPT !.heard = (@ \/ ok), !.stage = "check",
                           !.cut = ("ports" \in answers[pool[g].host] /\ ~ok)]
          IN  Moves(g, IF Silent(task) THEN At("ready") ELSE task, ok)
    /\ UNCHANGED probing

\* Mutant: a scan is published although ctx is done.
CheckNothing(g) ==
    /\ pool[g].stage = "check"
    /\ Moves(g, [pool[g] EXCEPT !.stage = "send"], FALSE)
    /\ UNCHANGED probing

\* After the host name lookup: nothing is published once ctx is done.
Check(g) ==
    /\ pool[g].stage = "check"
    /\ Moves(g, IF cancelled THEN At("ready") ELSE [pool[g] EXCEPT !.stage = "send"], FALSE)
    /\ UNCHANGED probing

Room == Len(out) < OutCap

Send(g) ==
    /\ pool[g].stage = "send" /\ Room
    /\ out' = Append(out, [host |-> pool[g].host, cut |-> pool[g].cut])
    /\ reported' = reported \cup {pool[g].host}
    /\ pool' = [pool EXCEPT ![g] = At("ready")]
    /\ UNCHANGED <<runVars, jobVars, netVars, cancelled, answered, early>>

\* Mutant: ctx is looked at only when there is room in the channel.
AbandonWithRoom(g) ==
    /\ pool[g].stage = "send" /\ cancelled /\ Room
    /\ Moves(g, At("ready"), FALSE)
    /\ UNCHANGED probing

Abandon(g) ==
    /\ pool[g].stage = "send" /\ cancelled
    /\ Moves(g, At("ready"), FALSE)
    /\ UNCHANGED probing

----------------------------------------------------------------------------
(* The environment: merger, ticker, user, hosts, caller *)

Consume ==
    /\ out # <<>> /\ out' = Tail(out)
    /\ UNCHANGED <<runVars, jobVars, pool, netVars, cancelled, seenVars>>

\* An ARP packet files h under a MAC; the merger never takes that back.
Confirm(h) ==
    /\ h \notin arp /\ arp' = arp \cup {h}
    /\ UNCHANGED <<runVars, jobVars, pool, out, answers, cancelled, seenVars>>

SwitchOff(h) ==
    /\ answers[h] # {} /\ answers' = [answers EXCEPT ![h] = {}]
    /\ UNCHANGED <<runVars, jobVars, pool, out, arp, cancelled, seenVars>>

Tick ==
    /\ ticking /\ ~tick /\ run # "returned" /\ tick' = TRUE
    /\ UNCHANGED <<once, run, result, ticking, request, asked, jobVars, pool, out,
                   netVars, cancelled, seenVars>>

\* Mutant: the user's request is refused while a sweep is under way.
TriggerSweepWhenIdle ==
    /\ ~once /\ ~cancelled
    /\ request' = (request \/ run = "idle") /\ asked' = TRUE
    /\ UNCHANGED <<once, run, result, ticking, tick, jobVars, pool, out, netVars,
                   cancelled, seenVars>>

\* The user presses r; a request that waits already stands for this one, too.
TriggerSweep ==
    /\ ~once /\ ~cancelled
    /\ request' = TRUE /\ asked' = TRUE
    /\ UNCHANGED <<once, run, result, ticking, tick, jobVars, pool, out, netVars,
                   cancelled, seenVars>>

Cancel ==
    /\ ~cancelled /\ cancelled' = TRUE
    /\ UNCHANGED <<runVars, jobVars, pool, out, netVars, seenVars>>

\* Nothing is left to do.
Over == run = "returned" /\ UNCHANGED vars

RunStep ==
    \/ FirstSweep
    \/ \E h \in Host : Feed(h)
    \/ CloseJobs
    \/ SweepEnds
    \/ ReturnOnce
    \/ TickSweep
    \/ RescanSweep

PoolStep(g) ==
    \/ \E h \in Host : Take(g, h)
    \/ Ends(g)
    \/ Ping(g) \/ TCPAlive(g) \/ Recheck(g) \/ NBNS(g) \/ ScanPorts(g) \/ Check(g)
    \/ Abandon(g)

Environment ==
    \/ Consume
    \/ \E h \in Host : Confirm(h) \/ SwitchOff(h)
    \/ Tick
    \/ TriggerSweep
    \/ Cancel

Next ==
    \/ RunStep
    \/ CancelledInDelay
    \/ ReturnIdle
    \/ \E g \in Goroutine : PoolStep(g) \/ Send(g)
    \/ Environment
    \/ Over

Spec == Init /\ [][Next]_vars

\* Every probe ends by its own timeout, goroutines run, a select passes no ready
\* case over for ever, and blocked senders are served in turn.  The merger
\* receives until the scan is cancelled; nobody has to cancel or to tick.
Fairness ==
    /\ WF_vars(RunStep)
    /\ SF_vars(ReturnIdle)
    /\ \A g \in Goroutine : WF_vars(PoolStep(g)) /\ SF_vars(Send(g))
    /\ WF_vars(Consume /\ ~cancelled)

FairSpec == Spec /\ Fairness

----------------------------------------------------------------------------
(* Properties *)

\* The state has its types, and no buffer holds more than its capacity.
TypeOK ==
    /\ once \in BOOLEAN /\ result \in {"none", "nil", "canceled"}
    /\ run \in {"delay", "feeding", "waiting", "swept", "idle", "returned"}
    /\ ticking \in BOOLEAN /\ tick \in BOOLEAN
    /\ request \in BOOLEAN /\ asked \in BOOLEAN
    /\ known \subseteq Host /\ toFeed \subseteq Host /\ jobs \subseteq Host
    /\ closed \in BOOLEAN
    /\ pool \in [Goroutine -> Task]
    /\ out \in Seq(Update) /\ Len(out) <= OutCap
    /\ arp \subseteq Host /\ answers \in [Host -> SUBSET Probe]
    /\ cancelled \in BOOLEAN
    /\ answered \subseteq Host /\ reported \subseteq Host /\ early \subseteq Host

\* active.go:151-157: an address known from ARP is a reason to probe, never a sign
\* of life: a host is reported only if it answered a probe of this very sweep.
ReportedAreAlive == reported \subseteq answered

\* A sweep is over that was not cut short.
SweepFinished == (run = "idle" /\ ~cancelled) \/ (once /\ result = "nil")

\* active.go:62: a finished sweep reported every host that answers ping or TCP.
SweepIsComplete ==
    SweepFinished =>
        \A h \in Host : answers[h] \cap {"ping", "tcp"} # {} => h \in reported

\* active.go:143-147: and every host that drops those but answers NetBIOS or has an
\* open port, if ARP had confirmed it when its probe began.
StealthHostsFound ==
    SweepFinished => \A h \in early : answers[h] # {} => h \in reported

\* active.go:159: a port scan cut short by cancellation is never published: the
\* merger would take the missing ports for closed ones.
NoPartialScan == \A n \in DOMAIN out : ~out[n].cut

\* scanner.go:43-44: a rescan asked for at any moment, during a sweep too, is
\* followed by a sweep that starts after it, unless the scan ends.
RescanServed == asked ~> (~asked \/ cancelled)

\* Hosts are left to probe, or the sweep is not over.
Busy ==
    \/ run \notin {"swept", "returned"} \/ toFeed \cup jobs # {}
    \/ \E g \in Goroutine : pool[g].stage # "done"

\* scanner.go:116-127 relies on it: the worker reports nothing after it returned, says
\* nil in a one-shot scan only if nothing was cut short, and returns once cancelled
\* although nobody receives its updates any more.
Contract == INSTANCE Worker WITH busy <- Busy, queued <- Len(out)
WorkerSpec == Contract!Spec
=============================================================================
