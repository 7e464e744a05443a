------------------------------ MODULE Scanner ------------------------------
(***************************************************************************)
(* The life of a scan: runWorkers of internal/scanner/scanner.go, which    *)
(* starts the merger, feeds it the kernel's ARP neighbours, runs the       *)
(* workers, and joins them all before it returns and closes the events.    *)
(* One step is one channel operation, one read of ctx.Err or one cancel of *)
(* the caller, of a worker's goroutine or of the merger's; what an update  *)
(* says is left to Merger, here it is only a "seed" or "live".             *)
(***************************************************************************)
EXTENDS Naturals, Sequences, FiniteSets

CONSTANTS
    Worker,         \* the workers: arp, mdns and active
    Active,         \* the one among them whose return ends a one-shot scan
    UpdatesCap,     \* buffer of the updates channel (256 in the code)
    Seeds,          \* bound: cached neighbours found at the start
    Hosts           \* bound: addresses that answer the active sweep

ASSUME WorkerAssumption ==
    /\ Active \in Worker /\ IsFiniteSet(Worker)
    /\ Worker \cap {"none", "nil", "canceled"} = {}
ASSUME BoundsAssumption ==
    UpdatesCap \in Nat \ {0} /\ Seeds \in Nat /\ Hosts \in Nat

VARIABLES
    once,       \* RunOnce rather than Run
    caller,     \* where runWorkers is
    seedsLeft,  \* neighbours not queued yet
    updates,    \* the updates channel
    merger,     \* where Merger.Run is: in its select, blocked in a send, or done
    merged,     \* the kinds of updates that have been merged
    worker,     \* worker -> where its goroutine is
    hostsLeft,  \* addresses the active sweep has yet to report
    outcome,    \* worker -> what its run returned
    errs,       \* the errs channel; it has room for every worker
    parentDone, \* the parent context is cancelled
    cancelled,  \* the derived context is cancelled
    closed,     \* the events channel is closed
    result      \* what runWorkers returned

vars == <<once, caller, seedsLeft, updates, merger, merged, worker, hostsLeft,
          outcome, errs, parentDone, cancelled, closed, result>>

workerVars == <<worker, hostsLeft, outcome, errs>>
mergerVars == <<merger, merged>>
callerVars == <<once, caller, seedsLeft, closed, result>>

Caller  == {"seeding", "waiting", "joining", "draining", "returned"}
Outcome == {"none", "nil", "quit", "canceled", "timeout", "failure"}
Goroutine == {"unborn", "running", "classifying", "recording", "cancelling",
              "finishing", "done"}

Init ==
    /\ once \in BOOLEAN
    /\ caller = "seeding" /\ seedsLeft = Seeds
    /\ updates = <<>>
    /\ merger = "select" /\ merged = {}
    /\ worker = [w \in Worker |-> "unborn"]
    /\ hostsLeft \in 0..Hosts
    /\ outcome = [w \in Worker |-> "none"]
    /\ errs = <<>>
    /\ parentDone = FALSE /\ cancelled = FALSE
    /\ closed = FALSE /\ result = "none"

----------------------------------------------------------------------------
(* runWorkers *)

Room == Len(updates) < UpdatesCap

QueueSeed ==
    /\ caller = "seeding" /\ seedsLeft > 0 /\ Room
    /\ updates' = Append(updates, "seed")
    /\ seedsLeft' = seedsLeft - 1
    /\ UNCHANGED <<once, caller, closed, result, mergerVars, workerVars,
                   parentDone, cancelled>>

\* Mutant: the workers start beside the seeding.
StartWorkersAtOnce ==
    /\ caller = "seeding"
    /\ \A w \in Worker : worker[w] = "unborn"
    /\ caller' = IF seedsLeft = 0 \/ cancelled THEN "waiting" ELSE caller
    /\ worker' = [w \in Worker |-> "running"]
    /\ UNCHANGED <<once, seedsLeft, closed, result, updates, mergerVars, hostsLeft,
                   outcome, errs, parentDone, cancelled>>

\* The seeds are queued, or ctx.Done broke the loop.
StartWorkers ==
    /\ caller = "seeding"
    /\ seedsLeft = 0 \/ cancelled
    /\ caller' = "waiting"
    /\ worker' = [w \in Worker |-> "running"]
    /\ UNCHANGED <<once, seedsLeft, closed, result, updates, mergerVars, hostsLeft,
                   outcome, errs, parentDone, cancelled>>

\* wg.Wait, then cancel.
WorkersJoined ==
    /\ caller = "waiting"
    /\ \A w \in Worker : worker[w] = "done"
    /\ caller' = "joining"
    /\ cancelled' = TRUE
    /\ UNCHANGED <<once, seedsLeft, closed, result, updates, mergerVars, workerVars,
                   parentDone>>

MergerJoined ==
    /\ caller = "joining" /\ merger = "done"
    /\ caller' = "draining"
    /\ UNCHANGED <<once, seedsLeft, closed, result, updates, mergerVars, workerVars,
                   parentDone, cancelled>>

Merged(kind) == merged' = merged \cup {kind}

\* handleUpdate in the caller's goroutine, for what the merger left queued.
Drain ==
    /\ caller = "draining" /\ updates # <<>>
    /\ updates' = Tail(updates)
    /\ Merged(Head(updates))
    /\ UNCHANGED <<callerVars, merger, workerVars, parentDone, cancelled>>

\* Mutant: the error of the parent context alone is returned.
ResultOfParent == IF parentDone THEN "canceled" ELSE "nil"

\* The first recorded error, else the parent context's.
Result == IF errs # <<>> THEN Head(errs)
          ELSE IF parentDone THEN "canceled" ELSE "nil"

\* Mutant: what is left in the updates channel is forgotten.
ReturnUndrained ==
    /\ caller = "draining"
    /\ caller' = "returned"
    /\ result' = Result /\ closed' = TRUE /\ cancelled' = TRUE
    /\ UNCHANGED <<once, seedsLeft, updates, mergerVars, workerVars, parentDone>>

\* The return value, then the deferred close of the events and cancel.
Return ==
    /\ caller = "draining" /\ updates = <<>>
    /\ caller' = "returned"
    /\ result' = Result /\ closed' = TRUE /\ cancelled' = TRUE
    /\ UNCHANGED <<once, seedsLeft, updates, mergerVars, workerVars, parentDone>>

----------------------------------------------------------------------------
(* The merger's goroutine: Merger.Run, without the books *)

Merge ==
    /\ merger = "select" /\ updates # <<>>
    /\ updates' = Tail(updates)
    /\ Merged(Head(updates))
    /\ UNCHANGED <<callerVars, merger, workerVars, parentDone, cancelled>>

\* A sweep has a Left event to send and the events channel is full.
SweepBlocks ==
    /\ merger = "select"
    /\ merger' = "blocked"
    /\ UNCHANGED <<callerVars, updates, merged, workerVars, parentDone, cancelled>>

\* The consumer makes room.
SweepSends ==
    /\ merger = "blocked"
    /\ merger' = "select"
    /\ UNCHANGED <<callerVars, updates, merged, workerVars, parentDone, cancelled>>

SweepAbandons ==
    /\ merger = "blocked" /\ cancelled
    /\ merger' = "select"
    /\ UNCHANGED <<callerVars, updates, merged, workerVars, parentDone, cancelled>>

MergerStops ==
    /\ merger = "select" /\ cancelled
    /\ merger' = "done"
    /\ UNCHANGED <<callerVars, updates, merged, workerVars, parentDone, cancelled>>

----------------------------------------------------------------------------
(* A worker's goroutine *)

\* The active worker reports a host; a listener reports what it hears.
Send(w) ==
    /\ worker[w] = "running" /\ Room
    /\ w = Active => hostsLeft > 0
    /\ updates' = Append(updates, "live")
    /\ hostsLeft' = IF w = Active THEN hostsLeft - 1 ELSE hostsLeft
    /\ UNCHANGED <<callerVars, mergerVars, worker, outcome, errs, parentDone, cancelled>>

WorkerReturns(w, o) ==
    /\ worker[w] = "running"
    /\ worker' = [worker EXCEPT ![w] = "classifying"]
    /\ outcome' = [outcome EXCEPT ![w] = o]
    /\ UNCHANGED <<callerVars, updates, mergerVars, hostsLeft, errs, parentDone, cancelled>>

\* ctx.Done ended the worker: a send, a wait or a probe gave up.
Obeys(w) == /\ cancelled
            /\ WorkerReturns(w, IF once /\ w = Active THEN "canceled" ELSE "nil")

\* The one-shot sweep is over and every observation sent.
Completes == /\ once /\ hostsLeft = 0 /\ ~cancelled
             /\ WorkerReturns(Active, "nil")

\* A capture or a browse failed, perhaps as a reaction to the cancellation.
Fails(w) == w # Active /\ WorkerReturns(w, "failure")

\* A worker of a live scan that returns a context error of its own, or nothing:
\* what runWorkers guards against.
Quits(w) == /\ w # Active /\ ~cancelled
            /\ \E o \in {"timeout", "quit"} : WorkerReturns(w, o)

Nil(w) == outcome[w] \in {"nil", "quit"}
ContextError(w) == outcome[w] \in {"canceled", "timeout"}

\* Mutant: a nil return is unexpected even after cancellation.
UnexpectedAlways(w) == Nil(w) /\ ~(once /\ w = Active)

\* "stopped unexpectedly"
Unexpected(w) == Nil(w) /\ ~cancelled /\ ~(once /\ w = Active)

IsFailure(w) ==
    \/ outcome[w] = "failure"
    \/ ContextError(w) /\ ~cancelled
    \/ Unexpected(w)

\* Each outcome is judged by one read of ctx.Err, some time after the return.
Classify(w) ==
    /\ worker[w] = "classifying"
    /\ worker' = [worker EXCEPT ![w] = IF IsFailure(w) THEN "recording" ELSE "finishing"]
    /\ UNCHANGED <<callerVars, updates, mergerVars, hostsLeft, outcome, errs,
                   parentDone, cancelled>>

Record(w) ==
    /\ worker[w] = "recording"
    /\ errs' = Append(errs, w)
    /\ worker' = [worker EXCEPT ![w] = "cancelling"]
    /\ UNCHANGED <<callerVars, updates, mergerVars, hostsLeft, outcome,
                   parentDone, cancelled>>

CancelOthers(w) ==
    /\ worker[w] = "cancelling"
    /\ cancelled' = TRUE
    /\ worker' = [worker EXCEPT ![w] = "finishing"]
    /\ UNCHANGED <<callerVars, updates, mergerVars, hostsLeft, outcome, errs,
                   parentDone>>

\* Mutant: the listeners outlive the one-shot sweep.
FinishQuietly(w) ==
    /\ worker[w] = "finishing"
    /\ worker' = [worker EXCEPT ![w] = "done"]
    /\ UNCHANGED <<callerVars, updates, mergerVars, hostsLeft, outcome, errs,
                   parentDone, cancelled>>

\* The end of a one-shot sweep cancels the listeners; then wg.Done.
Finish(w) ==
    /\ worker[w] = "finishing"
    /\ cancelled' = (cancelled \/ (once /\ w = Active))
    /\ worker' = [worker EXCEPT ![w] = "done"]
    /\ UNCHANGED <<callerVars, updates, mergerVars, hostsLeft, outcome, errs,
                   parentDone>>

----------------------------------------------------------------------------

\* A signal, or the end of the UI.
ParentCancels ==
    /\ ~parentDone /\ caller # "returned"
    /\ parentDone' = TRUE /\ cancelled' = TRUE
    /\ UNCHANGED <<callerVars, updates, mergerVars, workerVars>>

\* Nothing is left to do.
Over == caller = "returned" /\ UNCHANGED vars

MergerStep == Merge \/ SweepBlocks \/ SweepSends \/ SweepAbandons \/ MergerStops
CallerStep == QueueSeed \/ StartWorkers \/ WorkersJoined \/ MergerJoined \/ Drain \/ Return

WorkerStep(w) ==
    Send(w) \/ Obeys(w) \/ Fails(w) \/ Quits(w)
    \/ Classify(w) \/ Record(w) \/ CancelOthers(w) \/ Finish(w)

Next ==
    \/ CallerStep
    \/ MergerStep
    \/ Completes
    \/ \E w \in Worker : WorkerStep(w)
    \/ ParentCancels
    \/ Over

Spec == Init /\ [][Next]_vars

\* Goroutines run, Go's select and channels are fair among the ready, and probes
\* end by their timeouts, so the active sweep ends.  No worker has to fail, and
\* the consumer of the events only has to receive while the scan is not cancelled.
Fairness ==
    /\ WF_vars(CallerStep)
    /\ SF_vars(Merge)
    /\ WF_vars(SweepSends /\ ~cancelled)
    /\ WF_vars(SweepAbandons)
    /\ SF_vars(MergerStops)
    /\ SF_vars(Send(Active))
    /\ WF_vars(Completes)
    /\ \A w \in Worker : WF_vars(Obeys(w)) /\ WF_vars(Classify(w) \/ Record(w)
                                                    \/ CancelOthers(w) \/ Finish(w))

FairSpec == Spec /\ Fairness

----------------------------------------------------------------------------
(* Properties *)

TypeOK ==
    /\ once \in BOOLEAN /\ caller \in Caller /\ seedsLeft \in 0..Seeds
    /\ updates \in Seq({"seed", "live"}) /\ Len(updates) <= UpdatesCap
    /\ merger \in {"select", "blocked", "done"} /\ merged \subseteq {"seed", "live"}
    /\ worker \in [Worker -> Goroutine] /\ hostsLeft \in 0..Hosts
    /\ outcome \in [Worker -> Outcome]
    /\ errs \in Seq(Worker) /\ Len(errs) <= Cardinality(Worker)
    /\ parentDone \in BOOLEAN /\ cancelled \in BOOLEAN /\ closed \in BOOLEAN
    /\ result \in Worker \cup {"none", "nil", "canceled"}

\* scanner.go:61-62: a scan that returned merged every update any worker sent, and
\* nobody is left who could send another one or an event on the closed channel.
NothingLeftBehind ==
    closed => updates = <<>> /\ merger = "done" /\ \A w \in Worker : worker[w] = "done"

\* A one-shot scan that reports success swept every host, and no worker failed.
SuccessIsComplete ==
    result = "nil" => /\ once /\ hostsLeft = 0
                      /\ \A w \in Worker : outcome[w] # "failure"

\* A worker is blamed only if it failed, or left before the scan was over.
BlameIsDeserved ==
    \A n \in DOMAIN errs : outcome[errs[n]] \in {"failure", "timeout", "quit"}

\* Cached neighbours are merged before any observation of this scan, which is why
\* a seed never touches a device that was seen (Merger's seeding).
SeedsFirst ==
    "live" \in merged => caller # "seeding" /\ \A n \in DOMAIN updates : updates[n] # "seed"

\* A cancelled scan and a one-shot scan return, whatever blocks in the meantime.
Returns == (once \/ cancelled) ~> caller = "returned"
=============================================================================
