------------------------------- MODULE Worker -------------------------------
(***************************************************************************)
(* What runWorkers (internal/scanner/scanner.go) takes for granted of a    *)
(* worker: it reports to the updates channel only while its Run is under   *)
(* way, Run ends for a reason its result tells, and it ends once ctx is    *)
(* done, whether or not anybody still receives.  Scanner is built on this  *)
(* contract; ActiveWorker, MDNSWorker and ARPWorker implement it.          *)
(***************************************************************************)
EXTENDS Naturals

CONSTANT OutCap     \* buffer of the updates channel (256 in the code)

VARIABLES
    once,       \* a one-shot scan: Run ends when its work is done
    busy,       \* work is left
    queued,     \* updates in the channel
    cancelled,  \* ctx is done
    result      \* what Run returned

vars == <<once, busy, queued, cancelled, result>>

Running == result = "none"

Init ==
    /\ once \in BOOLEAN /\ busy \in BOOLEAN /\ cancelled \in BOOLEAN
    /\ queued = 0 /\ result = "none"

\* Some of the work is done, or more turns up.
Works ==
    /\ Running /\ busy' \in BOOLEAN
    /\ UNCHANGED <<once, queued, cancelled, result>>

\* An update that ends some work, or none.
Sends ==
    /\ Running /\ busy' \in BOOLEAN
    /\ queued < OutCap /\ queued' = queued + 1
    /\ UNCHANGED <<once, cancelled, result>>

Returns(value) ==
    /\ Running /\ result' = value /\ busy' \in BOOLEAN
    /\ UNCHANGED <<once, queued, cancelled>>

\* Everything was done before ctx was.
Completes == once /\ ~busy /\ ~cancelled /\ Returns("nil")

\* A one-shot scan says that it was cut short.
Obeys == cancelled /\ Returns(IF once THEN "canceled" ELSE "nil")

\* Only a worker that listens can fail, at any time.
Fails == ~once /\ Returns("failed")

\* The merger.
Receives ==
    /\ queued > 0 /\ queued' = queued - 1
    /\ UNCHANGED <<once, busy, cancelled, result>>

Cancel ==
    /\ ~cancelled /\ cancelled' = TRUE
    /\ UNCHANGED <<once, busy, queued, result>>

Next == Works \/ Sends \/ Completes \/ Obeys \/ Fails \/ Receives \/ Cancel

\* A cancelled worker returns although nobody has to receive its updates any more.
Spec == Init /\ [][Next]_vars /\ (cancelled ~> ~Running)
=============================================================================
