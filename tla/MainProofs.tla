----------------------------- MODULE MainProofs -----------------------------
(***************************************************************************)
(* Theorems about Main, for all values of its constants: what its run      *)
(* checks of exit codes and of goroutines that end.  The scan's part of    *)
(* the invariant is ScannerProofs', whose steps preserve it here, too; a   *)
(* cancellation by the program can come later than Scanner lets it come.   *)
(***************************************************************************)
EXTENDS Main, WellFoundedInduction, TLAPS

S == INSTANCE ScannerProofs

\* What ScannerProofs rests on.
LEMMA ScannerAssumptions == S!WorkerAssumption /\ S!BoundsAssumption
<1>1. S!IsFiniteSet(Worker) <=> IsFiniteSet(Worker)
  BY DEF S!IsFiniteSet, IsFiniteSet
<1>. QED
  BY <1>1, ScanAssumption DEF S!WorkerAssumption, S!BoundsAssumption

----------------------------------------------------------------------------
(* The inductive invariant *)

\* The scan, but for Unspoilt: the program may cancel a scan that was a success.
ScanInv == S!TypeInv /\ S!Recorded /\ S!InOrder /\ S!Joined /\ S!Accounted

\* What the scan returned is explained for good, whatever is cancelled later.
Judged ==
    /\ result = "none" <=> caller # "returned"
    /\ result \in Worker <=> caller = "returned" /\ errs # <<>>
    /\ result = "canceled" => parentDone
    /\ result = "nil" => /\ once /\ hostsLeft = 0
                         /\ \A w \in Worker : outcome[w] # "failure"

\* runOnce and runTUI start their own goroutines, wait for them and for nobody else's.
Phases ==
    /\ main \in {"start", "detected", "scanning", "writing", "showing", "joining", "exited"}
    /\ main \in {"start", "detected"} =>
          ui = "off" /\ listener = "off" /\ reporter = "off" /\ watcher = "off"
    /\ main \in {"scanning", "writing"} => once
    /\ main \in {"showing", "joining"} => ~once
    /\ once => ui = "off" /\ reporter = "off"
    /\ ~once => listener = "off"
    /\ main = "writing" => listener = "done" /\ result = "nil" /\ Found
    /\ ui = "running" => main = "showing"
    /\ reporter \in {"cancelling", "done"} => caller = "returned"
    /\ watcher \in {"stopping", "gone"} => parentDone

\* Nothing is written and no code is set but at the end.
Ending ==
    /\ code \in {"none", "config", "ok", "nodevices", "runtime", "killed"}
    /\ code = "none" <=> main # "exited"
    /\ output # "none" => once /\ result = "nil" /\ code # "none" /\ Found
    /\ code = "nodevices" => once /\ result = "nil" /\ ~Found
    /\ code \in {"ok", "nodevices", "runtime"} =>
          caller = "returned" /\ listener # "ranging" /\ reporter # "scanning"
    /\ code = "ok" => IF once THEN output = "written" ELSE errs = <<>> /\ ui # "failed"
    /\ code = "runtime" => \/ errs # <<>> \/ ui = "failed" \/ output = "failed"
                           \/ once /\ parentDone
    /\ code = "killed" => parentDone

\* The scan's context derives from the program's.
Derived == parentDone => cancelled

Inv == ScanInv /\ Judged /\ Phases /\ Ending /\ Derived

----------------------------------------------------------------------------
(* Steps of the scan, and cancellations *)

\* What the goroutines of the scan do here is a step of Scanner.
LEMMA ScanStepIsOne ==
    ASSUME ScanStep
    PROVE  S!Next /\ UNCHANGED ownVars /\ Alive
<1>1. ASSUME Scan!CallerStep PROVE S!Next
  BY <1>1 DEF S!Next, S!CallerStep, Scan!CallerStep, S!QueueSeed, Scan!QueueSeed, S!Room,
       Scan!Room, S!StartWorkers, Scan!StartWorkers, S!WorkersJoined, Scan!WorkersJoined,
       S!MergerJoined, Scan!MergerJoined, S!Drain, Scan!Drain, S!Merged, Scan!Merged,
       S!Return, Scan!Return, S!Result, Scan!Result, S!callerVars, Scan!callerVars,
       S!mergerVars, Scan!mergerVars, S!workerVars, Scan!workerVars
<1>2. ASSUME Scan!Merge \/ Scan!SweepBlocks \/ Scan!SweepAbandons \/ Scan!MergerStops
             \/ Scan!SweepSends
      PROVE  S!Next
  BY <1>2 DEF S!Next, S!MergerStep, S!Merge, Scan!Merge, S!Merged, Scan!Merged,
       S!SweepBlocks, Scan!SweepBlocks, S!SweepAbandons, Scan!SweepAbandons,
       S!MergerStops, Scan!MergerStops, S!SweepSends, Scan!SweepSends,
       S!callerVars, Scan!callerVars, S!workerVars, Scan!workerVars
<1>3. ASSUME Scan!Completes PROVE S!Next
  BY <1>3 DEF S!Next, S!Completes, Scan!Completes, S!WorkerReturns, Scan!WorkerReturns,
       S!callerVars, Scan!callerVars, S!mergerVars, Scan!mergerVars
<1>4. ASSUME NEW w \in Worker, Scan!WorkerStep(w) PROVE S!Next
  <2>1. S!WorkerStep(w)
    BY <1>4 DEF S!WorkerStep, Scan!WorkerStep, S!Send, Scan!Send, S!Room, Scan!Room,
         S!Obeys, Scan!Obeys, S!Fails, Scan!Fails, S!Quits, Scan!Quits, S!WorkerReturns,
         Scan!WorkerReturns, S!Classify, Scan!Classify, S!IsFailure, Scan!IsFailure,
         S!ContextError, Scan!ContextError, S!Unexpected, Scan!Unexpected, S!Nil, Scan!Nil,
         S!Record, Scan!Record, S!CancelOthers, Scan!CancelOthers, S!Finish, Scan!Finish,
         S!callerVars, Scan!callerVars, S!mergerVars, Scan!mergerVars
  <2>. QED
    BY <2>1 DEF S!Next
<1>. QED
  BY <1>1, <1>2, <1>3, <1>4 DEF ScanStep, Lift, MergerSends

\* The scan's part and the explanation of its result survive a step of it.
LEMMA ScanPreserved ==
    ASSUME ScanInv, Judged, [S!Next]_(S!vars)
    PROVE  ScanInv' /\ Judged'
<1>. USE ScannerAssumptions
<1>1. ScanInv'
  BY S!TypeStep, S!RecordedStep, S!InOrderStep, S!JoinedStep, S!AccountedStep DEF ScanInv
<1>2. CASE caller = "returned"
  <2>1. UNCHANGED S!vars
    BY <1>2, S!NothingFollows DEF ScanInv
  <2>. QED
    BY <1>1, <2>1 DEF Judged, S!vars
<1>3. CASE S!Return
  <2>1. /\ caller = "draining" /\ caller' = "returned" /\ result' = S!Result
        /\ UNCHANGED <<once, hostsLeft, outcome, errs, parentDone>>
    BY <1>3 DEF S!Return, S!workerVars
  <2>2. \A w \in Worker : worker[w] = "done"
    BY <2>1 DEF ScanInv, S!Joined
  <2>3. /\ S!Result = "nil" <=> ~S!Spoilt
        /\ S!Result \in Worker <=> errs # <<>>
        /\ S!Result \in Worker \cup {"nil", "canceled"}
    BY S!Results DEF ScanInv
  <2>4. ~S!Spoilt => once /\ hostsLeft = 0 /\ \A w \in Worker : outcome[w] # "failure"
    BY <2>2, S!UnspoiltIsComplete DEF ScanInv
  <2>5. S!Result = "canceled" => parentDone
    BY <2>3, ScanAssumption DEF S!Spoilt
  <2>6. S!Result # "none"
    BY <2>3, ScanAssumption
  <2>. QED
    BY <1>1, <2>1, <2>3, <2>4, <2>5, <2>6 DEF Judged
<1>4. CASE caller # "returned" /\ ~S!Return
  <2>1. /\ UNCHANGED <<once, result>> /\ caller' # "returned"
    BY <1>4, S!OnlyReturnReturns
  <2>. QED
    BY <1>1, <1>4, <2>1, ScanAssumption DEF Judged
<1>. QED
  BY <1>2, <1>3, <1>4

\* So they do a cancellation, at any time.
LEMMA CancelPreserves ==
    ASSUME ScanInv, Judged, CancelContext, UNCHANGED scanButContexts
    PROVE  ScanInv' /\ Judged'
<1>. USE DEF CancelContext, scanButContexts
<1>1. S!TypeInv' /\ S!Recorded' /\ S!InOrder' /\ S!Joined'
  BY DEF ScanInv, S!TypeInv, S!Recorded, S!InOrder, S!Joined
<1>2. S!Accounted'
  BY DEF ScanInv, S!Accounted, S!Spoilt
<1>. QED
  BY <1>1, <1>2 DEF ScanInv, Judged

----------------------------------------------------------------------------
(* Every step preserves it *)

\* What a step of the scan leaves alone, here.
LEMMA ScanKeeps ==
    ASSUME ScanInv, [S!Next]_(S!vars)
    PROVE  /\ UNCHANGED once
           /\ parentDone => parentDone'
           /\ caller = "returned" => UNCHANGED <<caller, merged, result, errs>>
<1>. USE ScannerAssumptions
<1>1. UNCHANGED once /\ (parentDone => parentDone')
  BY S!OnlyReturnReturns
<1>2. caller = "returned" => UNCHANGED S!vars
  BY S!NothingFollows DEF ScanInv
<1>. QED
  BY <1>1, <1>2 DEF S!vars

\* Goroutines are where their starters take them to be.
LEMMA PhasesStep ==
    ASSUME Inv, [Next]_vars
    PROVE  Phases'
<1>. USE DEF Inv, Phases, Found
<1>1. ASSUME MainStep PROVE Phases'
  <2>. USE DEF scanVars, Exit, NotConfigured, Forget
  <2>1. ASSUME Setup PROVE Phases'
    BY <2>1 DEF Setup, NoRoute, NoInterface, Detected, NoCapture, Start
  <2>2. ASSUME ListenerEnds PROVE Phases'
    BY <2>2 DEF ListenerEnds
  <2>3. ASSUME Judge PROVE Phases'
    BY <2>3 DEF Judge, Verdict
  <2>4. ASSUME Write PROVE Phases'
    BY <2>4 DEF Write
  <2>5. ASSUME EndScan PROVE Phases'
    BY <2>5 DEF EndScan, UIOver, CancelContext, scanButContexts
  <2>6. ASSUME JoinScan PROVE Phases'
    BY <2>6 DEF JoinScan
  <2>. QED
    BY <1>1, <2>1, <2>2, <2>3, <2>4, <2>5, <2>6 DEF MainStep
<1>2. ASSUME ReporterStep \/ UIStep PROVE Phases'
  BY <1>2 DEF ReporterStep, Report, CancelUI, CancelContext, UIStep, UIStarts, UIFails,
              UIKilled, UIBreaks, UIQuits, MoveUI, scanVars, scanButContexts
<1>3. ASSUME WatcherStep \/ Signal \/ SignalKills PROVE Phases'
  BY <1>3 DEF WatcherStep, WatcherTakes, WatcherCancels, WatcherUnwinds, WatcherStops, Signal,
              SignalKills, CancelContext, Exit, scanVars, scanButContexts
<1>4. ASSUME ScanStep PROVE Phases'
  <2>1. S!Next /\ UNCHANGED ownVars
    BY <1>4, ScanStepIsOne
  <2>2. /\ UNCHANGED once /\ (parentDone => parentDone')
        /\ caller = "returned" => UNCHANGED <<caller, merged, result>>
    BY <2>1, ScanKeeps
  <2>3. result = "nil" => caller = "returned"
    BY DEF Judged
  <2>. QED
    BY <2>1, <2>2, <2>3 DEF ownVars
<1>5. ASSUME UNCHANGED vars PROVE Phases'
  BY <1>5 DEF vars, scanVars, ownVars
<1>. QED
  BY <1>1, <1>2, <1>3, <1>4, <1>5 DEF Next, Over

\* A code is set once, by somebody who has its reason.
LEMMA EndingStep ==
    ASSUME Inv, [Next]_vars
    PROVE  Ending'
<1>. USE DEF Inv, Phases, Ending, Found
<1>1. ASSUME MainStep PROVE Ending'
  <2>. USE DEF scanVars, Exit, NotConfigured, Forget
  <2>1. ASSUME Setup PROVE Ending'
    BY <2>1 DEF Setup, NoRoute, NoInterface, Detected, NoCapture, Start
  <2>2. ASSUME ListenerEnds PROVE Ending'
    BY <2>2 DEF ListenerEnds
  <2>3. ASSUME Judge PROVE Ending'
    <3>1. \/ main' = "writing" /\ code' = code /\ result = "nil" /\ Found
          \/ main' = "exited" /\ code' = "nodevices" /\ result = "nil" /\ ~Found
          \/ main' = "exited" /\ code' = "runtime" /\ result # "nil"
      BY <2>3 DEF Judge, Verdict
    <3>2. result # "nil" => errs # <<>> \/ parentDone
      BY <2>3 DEF Judge, Judged, ScanInv, S!TypeInv
    <3>. QED
      BY <2>3, <3>1, <3>2 DEF Judge
  <2>4. ASSUME Write PROVE Ending'
    BY <2>4 DEF Write, Judged
  <2>5. ASSUME EndScan PROVE Ending'
    BY <2>5 DEF EndScan, CancelContext, scanButContexts
  <2>6. ASSUME JoinScan PROVE Ending'
    <3>1. caller = "returned" /\ (ScanFailed <=> errs # <<>>)
      BY <2>6 DEF JoinScan, Judged, ScanFailed
    <3>. QED
      BY <2>6, <3>1 DEF JoinScan, UIVerdict
  <2>. QED
    BY <1>1, <2>1, <2>2, <2>3, <2>4, <2>5, <2>6 DEF MainStep
<1>2. ASSUME ReporterStep \/ UIStep PROVE Ending'
  BY <1>2 DEF ReporterStep, Report, CancelUI, CancelContext, UIStep, UIStarts, UIFails,
              UIKilled, UIBreaks, UIQuits, MoveUI, scanVars, scanButContexts
<1>3. ASSUME WatcherStep \/ Signal \/ SignalKills PROVE Ending'
  BY <1>3 DEF WatcherStep, WatcherTakes, WatcherCancels, WatcherUnwinds, WatcherStops, Signal,
              SignalKills, Alive, CancelContext, Exit, scanVars, scanButContexts
<1>4. ASSUME ScanStep PROVE Ending'
  <2>1. UNCHANGED ownVars /\ main # "exited"
    BY <1>4, ScanStepIsOne DEF Alive
  <2>2. code' = "none" /\ output' = "none" /\ main' # "exited"
    BY <2>1 DEF ownVars
  <2>. QED
    BY <2>2
<1>5. ASSUME UNCHANGED vars PROVE Ending'
  BY <1>5 DEF vars, scanVars, ownVars
<1>. QED
  BY <1>1, <1>2, <1>3, <1>4, <1>5 DEF Next, Over

\* The other steps of the program leave the scan alone, or cancel it.
LEMMA ElseCancels ==
    ASSUME [Next]_vars
    PROVE  ScanStep \/ UNCHANGED scanVars \/ (CancelContext /\ UNCHANGED scanButContexts)
BY DEF Next, vars, MainStep, Setup, NoRoute, NoInterface, Detected, NoCapture, NotConfigured,
       Start, ListenerEnds, Judge, Write, EndScan, JoinScan, ReporterStep, Report, CancelUI,
       UIStep, UIStarts, UIFails, UIKilled, UIBreaks, UIQuits, MoveUI, WatcherStep, WatcherTakes, WatcherCancels, WatcherUnwinds,
       WatcherStops, Signal, SignalKills, Over

\* None of them disturbs the scan's part.
LEMMA ScanPartStep ==
    ASSUME Inv, [Next]_vars
    PROVE  ScanInv' /\ Judged'
<1>. USE DEF Inv
<1>1. CASE UNCHANGED scanVars
  <2>1. UNCHANGED S!vars /\ [S!Next]_(S!vars)
    BY <1>1 DEF scanVars, S!vars
  <2>. QED
    BY <2>1, ScanPreserved
<1>2. CASE CancelContext /\ UNCHANGED scanButContexts
  BY <1>2, CancelPreserves
<1>3. CASE ScanStep
  BY <1>3, ScanStepIsOne, ScanPreserved
<1>. QED
  BY <1>1, <1>2, <1>3, ElseCancels

\* Whoever cancels the program's context cancels the scan's, which is never revived.
LEMMA DerivedStep ==
    ASSUME Inv, [Next]_vars
    PROVE  Derived'
<1>1. CASE ScanStep
  <2>1. S!Next
    BY <1>1, ScanStepIsOne
  <2>2. cancelled \in BOOLEAN /\ parentDone \in BOOLEAN
    BY DEF Inv, ScanInv, S!TypeInv
  <2>3. ASSUME S!CallerStep \/ S!MergerStep \/ S!Completes \/ S!ParentCancels \/ S!Over
        PROVE  Derived'
    BY <2>2, <2>3 DEF Inv, Derived, S!CallerStep, S!QueueSeed, S!StartWorkers,
         S!WorkersJoined, S!MergerJoined, S!Drain, S!Return, S!MergerStep, S!Merge,
         S!SweepBlocks, S!SweepSends, S!SweepAbandons, S!MergerStops, S!Completes,
         S!WorkerReturns, S!ParentCancels, S!Over, S!vars
  <2>4. ASSUME NEW w \in Worker, S!WorkerStep(w)
        PROVE  Derived'
    BY <2>2, <2>4 DEF Inv, Derived, S!WorkerStep, S!Send, S!Obeys, S!Fails, S!Quits,
         S!WorkerReturns, S!Classify, S!Record, S!CancelOthers, S!Finish
  <2>. QED
    BY <2>1, <2>3, <2>4 DEF S!Next
<1>2. CASE ~ScanStep
  <2>1. UNCHANGED scanVars \/ CancelContext
    BY <1>2, ElseCancels
  <2>. QED
    BY <2>1 DEF Inv, Derived, CancelContext, scanVars
<1>. QED
  BY <1>1, <1>2

LEMMA InvHolds == Spec => []Inv
<1>1. Init => Inv
  <2>. SUFFICES ASSUME Init PROVE Inv
    OBVIOUS
  <2>. USE DEF Init, Scan!Init
  <2>1. S!TypeInv
    <3>1. updates \in Seq({"seed", "live"}) /\ Len(updates) = 0 /\ errs \in Seq(Worker)
      OBVIOUS
    <3>2. worker \in [Worker -> S!Goroutine] /\ outcome \in [Worker -> S!Outcome]
      BY DEF S!Goroutine, S!Outcome
    <3>3. seedsLeft \in 0..Seeds /\ hostsLeft \in 0..Hosts /\ 0 <= UpdatesCap
      BY ScanAssumption
    <3>. QED
      BY <3>1, <3>2, <3>3 DEF S!TypeInv, S!Caller
  <2>2. S!Recorded /\ S!InOrder /\ S!Joined /\ S!Accounted
    BY ScanAssumption DEF S!Recorded, S!InOrder, S!Joined, S!Accounted
  <2>3. Judged /\ Phases /\ Ending /\ Derived
    BY ScanAssumption DEF Judged, Phases, Ending, Found, Derived
  <2>. QED
    BY <2>1, <2>2, <2>3 DEF Inv, ScanInv
<1>2. Inv /\ [Next]_vars => Inv'
  BY ScanPartStep, PhasesStep, EndingStep, DerivedStep DEF Inv
<1>. QED
  BY <1>1, <1>2, PTL DEF Spec

----------------------------------------------------------------------------
(* The theorems *)

\* However signals, quitting, failures and cancellations meet, the exit code has the
\* reason that main.go:32-37 gives for it.
THEOREM ExitCodesAreDeserved == Spec => []ExitIsDeserved
<1>1. ASSUME Inv, code = "nodevices" \/ output # "none" PROVE once /\ Swept
  <2>1. once /\ result = "nil" /\ caller = "returned" /\ errs \in Seq(Worker)
    BY <1>1 DEF Inv, Ending, Judged, ScanInv, S!TypeInv
  <2>2. errs = <<>>
    BY <1>1, <2>1, ScanAssumption DEF Inv, Judged
  <2>. QED
    BY <1>1, <2>1, <2>2 DEF Inv, Judged, Swept
<1>2. Inv => ExitIsDeserved
  BY <1>1 DEF Inv, Ending, Found, ExitIsDeserved
<1>. QED
  BY <1>2, InvHolds, PTL

\* Whichever way main ends, but by a signal nobody catches, the goroutines it started for
\* the scan have ended and merged all there was.
THEOREM MainEndsLast == Spec => []NothingOutlivesMain
<1>1. Inv => NothingOutlivesMain
  BY DEF Inv, ScanInv, S!Joined, Ending, NothingOutlivesMain
<1>. QED
  BY <1>1, InvHolds, PTL

\* The program runs the scan as scanner.go lets its callers run it: until it returns, every
\* step of the program is one of Scanner's for it, a cancellation by its parent included.
THEOREM ProgramRunsScanner ==
    Spec => Scan!Init /\ [][caller # "returned" => Scan!Next]_(Scan!vars)
<1>1. Init => Scan!Init
  BY DEF Init
<1>2. ASSUME Inv, [Next]_vars, caller # "returned" PROVE [Scan!Next]_(Scan!vars)
  <2>1. CASE ScanStep
    BY <2>1 DEF ScanStep, Lift, MergerSends, Scan!Next, Scan!MergerStep
  <2>2. CASE UNCHANGED scanVars
    BY <2>2 DEF scanVars, Scan!vars
  <2>3. CASE CancelContext /\ UNCHANGED scanButContexts
    <3>1. cancelled \in BOOLEAN /\ parentDone \in BOOLEAN
      BY <1>2 DEF Inv, ScanInv, S!TypeInv
    <3>2. CASE parentDone
      BY <1>2, <2>3, <3>1, <3>2 DEF Inv, Derived, CancelContext, scanButContexts, Scan!vars
    <3>3. CASE ~parentDone
      <4>1. Scan!ParentCancels
        BY <1>2, <2>3, <3>3 DEF CancelContext, scanButContexts, Scan!ParentCancels,
             Scan!callerVars, Scan!mergerVars, Scan!workerVars
      <4>. QED
        BY <4>1 DEF Scan!Next
    <3>. QED
      BY <3>2, <3>3
  <2>. QED
    BY <1>2, <2>1, <2>2, <2>3, ElseCancels
<1>3. Inv /\ [Next]_vars => [caller # "returned" => Scan!Next]_(Scan!vars)
  BY <1>2
<1>. QED
  BY <1>1, <1>3, InvHolds, PTL DEF Spec

----------------------------------------------------------------------------
(* Detect and SubnetIPs: numbers first *)

\* A set of numbers has a least one.
LEMMA LeastIs ==
    ASSUME NEW A \in SUBSET Nat, A # {}
    PROVE  \E n \in A : \A k \in A : n <= k
<1>. DEFINE less == OpToRel(<, Nat)
<1>1. PICK n \in A : \A k \in A : ~(<<k, n>> \in less)
  BY NatLessThanWellFounded, WFMin, Zenon
<1>2. \A k \in A : <<k, n>> \in less <=> k < n
  BY DEF OpToRel
<1>3. ASSUME NEW k \in A PROVE n <= k
  <2>1. n \in Nat /\ k \in Nat /\ ~(k < n)
    BY <1>1, <1>2
  <2>. QED
    BY <2>1
<1>. QED
  BY <1>3

\* A set that holds 0 and every successor holds all numbers: induction without a parameter.
LEMMA SetInduction ==
    ASSUME NEW T, 0 \in T, \A n \in Nat : n \in T => n + 1 \in T
    PROVE  Nat \subseteq T
<1>. DEFINE rest == Nat \ T
<1>. SUFFICES ASSUME rest # {} PROVE FALSE
  OBVIOUS
<1>1. PICK n \in rest : \A k \in rest : n <= k
  <2>1. rest \in SUBSET Nat
    OBVIOUS
  <2>. HIDE DEF rest
  <2>. QED
    BY <2>1, LeastIs
<1>2. n \in Nat /\ n # 0 /\ n - 1 \in Nat
  OBVIOUS
<1>3. n - 1 \in T
  BY <1>1, <1>2
<1>4. (n - 1) + 1 \in T
  BY <1>2, <1>3
<1>. QED
  BY <1>2, <1>4


\* A function by recursion over numbers, each value made of the one before.
Follows(f, N, V, a, G) ==
    f \in [0..N -> V] /\ f[0] = a /\ \A n \in 1..N : f[n] = G[<<n, f[n - 1]>>]

LEMMA Recursion ==
    ASSUME NEW N \in Nat, NEW V, NEW a \in V, NEW G, G \in [(1..N) \X V -> V]
    PROVE  \E f : Follows(f, N, V, a, G)
<1>. DEFINE Fits(f, k) == f[0] = a /\ \A n \in 1..k : f[n] = G[<<n, f[n - 1]>>]
            T == {k \in Nat : k <= N => \E f \in [0..k -> V] : Fits(f, k)}
<1>1. 0 \in T
  <2>. DEFINE f == [n \in 0..0 |-> a]
  <2>1. f \in [0..0 -> V] /\ f[0] = a /\ 1..0 = {}
    OBVIOUS
  <2>. HIDE DEF f
  <2>2. Fits(f, 0)
    BY <2>1
  <2>. QED
    BY <2>1, <2>2
<1>2. ASSUME NEW k \in Nat, k \in T PROVE k + 1 \in T
  <2>. SUFFICES ASSUME k + 1 <= N PROVE \E f \in [0..(k + 1) -> V] : Fits(f, k + 1)
    OBVIOUS
  <2>1. PICK g \in [0..k -> V] : Fits(g, k)
    BY <1>2
  <2>. DEFINE f == [n \in 0..(k + 1) |-> IF n <= k THEN g[n] ELSE G[<<n, g[n - 1]>>]]
  <2>2. g[k] \in V /\ G[<<k + 1, g[k]>>] \in V
    OBVIOUS
  <2>3. f \in [0..(k + 1) -> V]
    <3>1. ASSUME NEW n \in 0..(k + 1) PROVE f[n] \in V
      <4>1. CASE n <= k
        BY <4>1
      <4>2. CASE n = k + 1
        <5>1. n - 1 = k
          BY <4>2
        <5>. QED
          BY <2>2, <4>2, <5>1
      <4>. QED
        BY <4>1, <4>2
    <3>. QED
      BY <3>1
  <2>4. f[0] = a
    BY <2>1
  <2>5. ASSUME NEW n \in 1..(k + 1) PROVE f[n] = G[<<n, f[n - 1]>>]
    <3>1. n - 1 \in 0..k /\ f[n - 1] = g[n - 1]
      OBVIOUS
    <3>2. CASE n <= k
      BY <2>1, <3>1, <3>2
    <3>3. CASE n = k + 1
      BY <3>1, <3>3
    <3>. QED
      BY <3>2, <3>3
  <2>. HIDE DEF f
  <2>. QED
    BY <2>3, <2>4, <2>5
<1>3. N \in T
  <2>. HIDE DEF T
  <2>. QED
    BY <1>1, <1>2, SetInduction
<1>4. \E f \in [0..N -> V] : Fits(f, N)
  BY <1>3
<1>. QED
  BY <1>4 DEF Follows

----------------------------------------------------------------------------
(* Powers of two, and the blocks of addresses of such a size *)

USE WidthAssumption

LEMMA PowersAre ==
    /\ Net!Power[0] = 1
    /\ \A n \in 0..Width : Net!Power[n] \in Nat \ {0}
    /\ \A n \in 1..Width : Net!Power[n] = 2 * Net!Power[n - 1]
<1>. DEFINE G == [p \in (1..Width) \X Nat |-> 2 * p[2]]
            IsPower(f) == f = [n \in 0..Width |-> IF n = 0 THEN 1 ELSE 2 * f[n - 1]]
<1>1. PICK f \in [0..Width -> Nat] : f[0] = 1 /\ \A n \in 1..Width : f[n] = G[<<n, f[n - 1]>>]
  <2>1. G \in [(1..Width) \X Nat -> Nat]
    OBVIOUS
  <2>2. 1 \in Nat /\ Width \in Nat
    OBVIOUS
  <2>. HIDE DEF G
  <2>3. PICK f : Follows(f, Width, Nat, 1, G)
    BY <2>1, <2>2, Recursion, Zenon
  <2>. QED
    BY <2>3 DEF Follows
<1>2. \A n \in 1..Width : f[n] = 2 * f[n - 1]
  <2>1. ASSUME NEW n \in 1..Width PROVE f[n] = 2 * f[n - 1]
    <3>1. n - 1 \in 0..Width
      OBVIOUS
    <3>2. f[n - 1] \in Nat
      BY <3>1
    <3>3. G[<<n, f[n - 1]>>] = 2 * f[n - 1]
      BY <3>2
    <3>. HIDE DEF G
    <3>. QED
      BY <1>1, <3>3
  <2>. QED
    BY <2>1
<1>3. IsPower(f)
  <2>1. \A n \in 0..Width : f[n] = IF n = 0 THEN 1 ELSE 2 * f[n - 1]
    BY <1>1, <1>2
  <2>. QED
    BY <2>1
<1>4. IsPower(Net!Power)
  BY <1>3 DEF Net!Power
<1>5. \A n \in 0..Width : Net!Power[n] = IF n = 0 THEN 1 ELSE 2 * Net!Power[n - 1]
  BY <1>4
<1>6. \A n \in 0..Width : Net!Power[n] \in Nat \ {0}
  <2>. DEFINE T == {k \in Nat : k <= Width => Net!Power[k] \in Nat \ {0}}
  <2>1. 0 \in T
    BY <1>5
  <2>2. ASSUME NEW k \in Nat, k \in T PROVE k + 1 \in T
    <3>1. CASE k + 1 <= Width
      <4>1. Net!Power[k + 1] = 2 * Net!Power[k]
        <5>1. k + 1 \in 0..Width /\ k + 1 # 0 /\ (k + 1) - 1 = k
          BY <3>1
        <5>. QED
          BY <1>5, <5>1
      <4>2. Net!Power[k] \in Nat \ {0}
        BY <2>2, <3>1
      <4>. QED
        BY <4>1, <4>2
    <3>. QED
      BY <3>1
  <2>. HIDE DEF T
  <2>3. Nat \subseteq T
    BY <2>1, <2>2, SetInduction
  <2>. QED
    BY <2>3 DEF T
<1>. QED
  BY <1>5, <1>6

\* The space is a multiple of every block, at least twice of one that is not the space itself.
LEMMA BlocksFit ==
    ASSUME NEW n \in 0..Width
    PROVE  \E c \in Nat \ {0} : /\ Net!Power[Width] = c * Net!Power[n]
                                /\ n < Width => c > 1
<1>. DEFINE T == {k \in Nat : k <= Width =>
                     \E c \in Nat \ {0} : Net!Power[Width] = c * Net!Power[Width - k]
                                          /\ (k > 0 => c > 1)}
<1>1. 0 \in T
  <2>1. Net!Power[Width] = 1 * Net!Power[Width - 0]
    BY PowersAre
  <2>. QED
    BY <2>1
<1>2. ASSUME NEW k \in Nat, k \in T PROVE k + 1 \in T
  <2>. SUFFICES ASSUME k + 1 <= Width
                PROVE  \E c \in Nat \ {0} : Net!Power[Width] = c * Net!Power[Width - (k + 1)] /\ c > 1
    OBVIOUS
  <2>1. PICK c \in Nat \ {0} : Net!Power[Width] = c * Net!Power[Width - k]
    BY <1>2
  <2>2. PICK p : p = Net!Power[Width - (k + 1)]
    OBVIOUS
  <2>3. p \in Nat \ {0} /\ Net!Power[Width - k] = 2 * p
    <3>1. Width - k \in 1..Width /\ (Width - k) - 1 = Width - (k + 1) /\ Width - (k + 1) \in 0..Width
      OBVIOUS
    <3>. QED
      BY <2>2, <3>1, PowersAre
  <2>4. c * (2 * p) = (2 * c) * p /\ 2 * c \in Nat \ {0} /\ 2 * c > 1
    BY <2>3
  <2>. QED
    BY <2>1, <2>2, <2>3, <2>4
<1>3. Width - n \in T
  <2>1. Width - n \in Nat
    OBVIOUS
  <2>. HIDE DEF T
  <2>. QED
    BY <1>1, <1>2, <2>1, SetInduction
<1>4. Width - (Width - n) = n /\ Width - n <= Width /\ (n < Width <=> Width - n > 0)
  OBVIOUS
<1>. QED
  BY <1>3, <1>4

\* A block has two addresses at most exactly if one bit at most is not fixed.
LEMMA SmallBlocks ==
    ASSUME NEW n \in 0..Width
    PROVE  Net!Power[n] <= 2 <=> n <= 1
<1>1. Net!Power[0] = 1 /\ Net!Power[1] = 2
  <2>1. 1 \in 1..Width /\ 1 - 1 = 0
    OBVIOUS
  <2>. QED
    BY <2>1, PowersAre
<1>2. ASSUME n >= 2 PROVE Net!Power[n] >= 4
  <2>1. n \in 1..Width /\ n - 1 \in 1..Width /\ (n - 1) - 1 \in 0..Width
    BY <1>2
  <2>2. Net!Power[(n - 1) - 1] \in Nat \ {0}
    BY <2>1, PowersAre
  <2>3. Net!Power[n] = 2 * Net!Power[n - 1] /\ Net!Power[n - 1] = 2 * Net!Power[(n - 1) - 1]
    BY <2>1, PowersAre
  <2>. QED
    BY <2>2, <2>3
<1>3. n = 0 \/ n = 1 \/ n >= 2
  OBVIOUS
<1>. QED
  BY <1>1, <1>2, <1>3, PowersAre

LEMMA Steps ==
    ASSUME NEW b \in Nat \ {0}, NEW q \in Nat, NEW r \in Nat, q < r
    PROVE  b * q + b <= b * r
<1>1. PICK d \in Nat : r = q + 1 + d
  <2>1. r - q - 1 \in Nat /\ r = q + 1 + (r - q - 1)
    OBVIOUS
  <2>. QED
    BY <2>1
<1>2. b * r = b * q + b + b * d
  <2>1. b * (q + 1 + d) = b * q + b * 1 + b * d
    OBVIOUS
  <2>. QED
    BY <1>1, <2>1
<1>3. b * d \in Nat /\ b * q \in Nat
  OBVIOUS
<1>. QED
  BY <1>2, <1>3

\* Who is in a block.
LEMMA InBlock ==
    ASSUME NEW b \in Nat \ {0}, NEW q \in Nat, NEW x \in Nat
    PROVE  x \div b = q <=> b * q <= x /\ x < b * q + b
<1>1. PICK d, e : d = x \div b /\ e = x % b
  OBVIOUS
<1>2. d \in Nat /\ e \in Nat /\ e < b /\ x = b * d + e
  BY <1>1
<1>3. b * d \in Nat /\ b * q \in Nat
  BY <1>2
<1>4. ASSUME d < q PROVE x < b * q
  BY <1>2, <1>3, <1>4, Steps
<1>5. ASSUME q < d PROVE b * q + b <= x
  BY <1>2, <1>3, <1>5, Steps
<1>6. d < q \/ q < d \/ d = q
  BY <1>2
<1>. QED
  BY <1>1, <1>2, <1>3, <1>4, <1>5, <1>6

----------------------------------------------------------------------------
(* The hosts of a subnet *)

\* A subnet of the interface that is not too large, and its block.
Subnets == [ip : Net!Address, ones : 1..Width]

\* First and size, apart from their definitions.
IsBlock(s, b, first, size) ==
    /\ b = Net!BlockSize(s) /\ size = Net!Power[Width] /\ first = Net!Network(s) /\ Net!LastOf(s) = first + b - 1
    /\ b > 0 /\ first + b <= size /\ (first + b = size => first > 0)
    /\ \A ip \in Nat : Net!Contains(s, ip) <=> first <= ip /\ ip < first + b
    /\ b <= 2 <=> s.ones >= Width - 1

LEMMA SubnetIs ==
    ASSUME NEW s \in Subnets
    PROVE  \E b, first, size \in Nat : IsBlock(s, b, first, size)
<1>1. s.ip \in Net!Address /\ s.ones \in 1..Width /\ Width - s.ones \in 0..Width
      /\ Width - s.ones < Width
  BY DEF Subnets
<1>2. PICK b, size : b = Net!Power[Width - s.ones] /\ size = Net!Power[Width]
  OBVIOUS
<1>3. b \in Nat \ {0} /\ size \in Nat \ {0}
  <2>1. Width \in 0..Width
    OBVIOUS
  <2>. QED
    BY <1>1, <1>2, <2>1, PowersAre
<1>4. s.ip \in Nat /\ s.ip < size
  BY <1>1, <1>2, <1>3 DEF Net!Address
<1>5. PICK c \in Nat \ {0} : size = c * b /\ c > 1
  BY <1>1, <1>2, BlocksFit
<1>6. PICK q : q = s.ip \div b
  OBVIOUS
<1>7. q \in Nat /\ s.ip = b * q + (s.ip % b) /\ s.ip % b \in Nat /\ b * q \in Nat
  BY <1>3, <1>4, <1>6
<1>8. Net!Network(s) = b * q
  BY <1>2, <1>7 DEF Net!Network, Net!BlockSize
<1>9. \A ip \in Nat : Net!Contains(s, ip) <=> b * q <= ip /\ ip < b * q + b
  <2>1. \A ip : Net!Contains(s, ip) <=> ip \div b = q
    BY <1>2, <1>6 DEF Net!Contains, Net!BlockSize
  <2>. QED
    BY <1>3, <1>7, <2>1, InBlock
<1>10. q < c
  <2>1. ASSUME ~(q < c) PROVE FALSE
    <3>1. c = q \/ c < q
      BY <1>5, <1>7, <2>1
    <3>2. b * c <= b * q
      <4>1. CASE c < q
        <5>1. b * c + b <= b * q /\ b * c \in Nat
          BY <1>3, <1>5, <1>7, <4>1, Steps
        <5>. QED
          BY <1>3, <1>7, <5>1
      <4>. QED
        BY <1>7, <3>1, <4>1
    <3>3. b * c = c * b
      BY <1>3, <1>5
    <3>. QED
      BY <1>3, <1>4, <1>5, <1>7, <3>2, <3>3
  <2>. QED
    BY <2>1
<1>11. b * q + b <= size
  <2>1. b * q + b <= b * c
    BY <1>3, <1>5, <1>7, <1>10, Steps
  <2>2. b * c = c * b
    BY <1>3, <1>5
  <2>. QED
    BY <1>5, <2>1, <2>2
<1>12. ASSUME b * q + b = size PROVE b * q > 0
  <2>1. ASSUME q = 0 PROVE FALSE
    <3>1. b * q = 0
      BY <1>3, <2>1
    <3>2. b * 1 + b <= b * c
      BY <1>3, <1>5, Steps
    <3>3. b * c = c * b /\ b * 1 = b
      BY <1>3, <1>5
    <3>. QED
      BY <1>3, <1>5, <1>12, <3>1, <3>2, <3>3
  <2>2. b * 0 + b <= b * q
    BY <1>3, <1>7, <2>1, Steps
  <2>3. b * 0 = 0
    BY <1>3
  <2>. QED
    BY <1>3, <1>7, <2>2, <2>3
<1>13. Net!LastOf(s) = b * q + b - 1
  BY <1>2, <1>8 DEF Net!LastOf, Net!BlockSize
<1>14. b <= 2 <=> s.ones >= Width - 1
  BY <1>1, <1>2, SmallBlocks
<1>15. b = Net!BlockSize(s)
  BY <1>2 DEF Net!BlockSize
<1>16. IsBlock(s, b, b * q, size)
  BY <1>2, <1>3, <1>7, <1>8, <1>9, <1>11, <1>12, <1>13, <1>14, <1>15 DEF IsBlock
<1>. QED
  BY <1>3, <1>7, <1>16, Zenon

\* The loop of SubnetIPs goes once through the block, also at the end of the space.
LEMMA LoopVisits ==
    ASSUME NEW s \in Subnets
    PROVE  Net!SubnetIPs(s) = {ip \in Net!Address : Net!Contains(s, ip) /\ Net!IsHost(s, ip)}
<1>. DEFINE At(n) == (Net!Network(s) + n) % Net!Power[Width]
            Ends(n) == ~Net!Contains(s, At(n)) /\ \A k \in 1..(n - 1) : Net!Contains(s, At(k))
<1>1. PICK b, first, size \in Nat :
              /\ first = Net!Network(s) /\ size = Net!Power[Width]
              /\ b > 0 /\ first + b <= size /\ (first + b = size => first > 0)
              /\ \A ip \in Nat : Net!Contains(s, ip) <=> first <= ip /\ ip < first + b
  BY SubnetIs DEF IsBlock
<1>2. ASSUME NEW n \in 0..(b - 1) PROVE At(n) = first + n /\ Net!Contains(s, At(n))
  <2>1. first + n \in Nat /\ first + n < size /\ size > 0
    BY <1>1
  <2>2. (first + n) % size = first + n
    BY <1>1, <2>1
  <2>. QED
    BY <1>1, <2>1, <2>2
<1>3. ~Net!Contains(s, At(b))
  <2>1. CASE first + b < size
    <3>1. (first + b) % size = first + b
      BY <1>1, <2>1
    <3>. QED
      BY <1>1, <3>1
  <2>2. CASE first + b = size
    <3>1. size % size = 0
      BY <1>1
    <3>. QED
      BY <1>1, <2>2, <3>1
  <2>. QED
    BY <1>1, <2>1, <2>2
<1>. HIDE DEF At
<1>4. b \in 1..Net!Power[Width] /\ Ends(b)
  BY <1>1, <1>2, <1>3
<1>5. \A n \in 1..Net!Power[Width] : Ends(n) => n = b
  <2>1. ASSUME NEW n \in 1..Net!Power[Width], Ends(n), n # b PROVE FALSE
    <3>1. n < b \/ b < n
      BY <1>1, <2>1
    <3>2. CASE n < b
      <4>1. n \in 0..(b - 1)
        BY <1>1, <3>2
      <4>. QED
        BY <1>2, <2>1, <4>1
    <3>3. CASE b < n
      <4>1. b \in 1..(n - 1)
        BY <1>1, <3>3
      <4>. QED
        BY <1>3, <2>1, <4>1
    <3>. QED
      BY <3>1, <3>2, <3>3
  <2>. QED
    BY <2>1
<1>6. (CHOOSE n \in 1..Net!Power[Width] : Ends(n)) = b
  <2>. HIDE DEF Ends
  <2>. QED
    BY <1>4, <1>5
<1>7. Net!SubnetIPs(s) = {ip \in {At(n) : n \in 0..(b - 1)} : Net!IsHost(s, ip)}
  BY <1>6 DEF Net!SubnetIPs, At
<1>8. {At(n) : n \in 0..(b - 1)} = {ip \in Net!Address : Net!Contains(s, ip)}
  <2>1. ASSUME NEW n \in 0..(b - 1) PROVE At(n) \in Net!Address /\ Net!Contains(s, At(n))
    BY <1>1, <1>2 DEF Net!Address
  <2>2. ASSUME NEW ip \in Net!Address, Net!Contains(s, ip)
        PROVE  \E n \in 0..(b - 1) : ip = At(n)
    <3>1. ip \in Nat
      BY <1>1 DEF Net!Address
    <3>2. first <= ip /\ ip < first + b
      BY <1>1, <2>2, <3>1
    <3>3. ip - first \in 0..(b - 1) /\ first + (ip - first) = ip
      BY <1>1, <3>1, <3>2
    <3>. QED
      BY <1>2, <3>3
  <2>. QED
    BY <2>1, <2>2
<1>. QED
  BY <1>7, <1>8

\* The subnet as infoForAddresses returns it, without the host's bits.
Masked(s) == [ip |-> Net!Network(s), ones |-> s.ones]

LEMMA MaskedIs ==
    ASSUME NEW s \in Subnets
    PROVE  /\ Masked(s) \in Subnets
           /\ \A ip \in Nat : Net!Contains(Masked(s), ip) <=> Net!Contains(s, ip)
           /\ Net!Network(Masked(s)) = Net!Network(s) /\ Net!LastOf(Masked(s)) = Net!LastOf(s)
<1>1. PICK b, first, size \in Nat : IsBlock(s, b, first, size)
  BY SubnetIs
<1>2. first \in Net!Address /\ Net!Contains(s, first) /\ first = Net!Network(s)
  BY <1>1 DEF IsBlock, Net!Address
<1>3. Masked(s) \in Subnets
  BY <1>2 DEF Masked, Subnets
<1>4. Net!BlockSize(Masked(s)) = Net!BlockSize(s)
  BY DEF Masked, Net!BlockSize
<1>5. \A ip \in Nat : Net!Contains(Masked(s), ip) <=> Net!Contains(s, ip)
  <2>1. Masked(s).ip = first
    BY <1>2 DEF Masked
  <2>. QED
    BY <1>2, <1>4, <2>1 DEF Net!Contains
<1>6. PICK c, least, all \in Nat : IsBlock(Masked(s), c, least, all)
  BY <1>3, SubnetIs
<1>7. b = c
  BY <1>1, <1>4, <1>6 DEF IsBlock
<1>8. first = least
  <2>1. b > 0 /\ \A ip \in Nat : first <= ip /\ ip < first + b <=> least <= ip /\ ip < least + b
    BY <1>1, <1>5, <1>6, <1>7 DEF IsBlock
  <2>2. least <= first /\ first <= least
    BY <2>1
  <2>. QED
    BY <2>2
<1>. QED
  BY <1>1, <1>3, <1>5, <1>6, <1>7, <1>8 DEF IsBlock

\* What a subnet's sweep and seeds should be is what they are.
LEMMA SubnetIsSwept ==
    ASSUME NEW s \in Subnets, NEW info, info.subnet = Masked(s),
           machine.os \in {"linux", "darwin", "windows"}
    PROVE  SubnetIsExact(info, s)
<1>. DEFINE inside == {ip \in Net!Address : Net!Contains(s, ip)}
            ends == {ip \in inside : ip - 1 \notin inside \/ ip + 1 \notin inside}
            hosts == Net!SubnetIPs(info.subnet)
            special == {0, Net!Power[Width] - 1} \cup Loopback \cup Multicast
            seeded == Net!SeedFromKernelARP(machine.os, Neighbor, info)
<1>1. PICK b, first, size \in Nat : IsBlock(s, b, first, size)
  BY SubnetIs
<1>2. b > 0 /\ first + b <= size /\ size = Net!Power[Width]
  BY <1>1 DEF IsBlock
<1>3. \A x \in Int : x \in inside <=> first <= x /\ x < first + b
  BY <1>1, <1>2 DEF IsBlock, Net!Address
<1>4. inside \subseteq Nat
  BY <1>2 DEF Net!Address
<1>. HIDE DEF inside
<1>5. ends = {first, first + b - 1}
  <2>1. first \in ends /\ first + b - 1 \in ends
    BY <1>2, <1>3
  <2>2. ASSUME NEW x \in ends PROVE x = first \/ x = first + b - 1
    <3>1. x \in Nat /\ x \in inside /\ (x - 1 \notin inside \/ x + 1 \notin inside)
      BY <1>4
    <3>2. first <= x /\ x < first + b /\ (~(first <= x - 1) \/ ~(x + 1 < first + b))
      BY <1>3, <3>1
    <3>. QED
      BY <3>1, <3>2
  <2>. HIDE DEF ends
  <2>. QED
    BY <2>1, <2>2
<1>. HIDE DEF ends
<1>6. inside = ends <=> b <= 2
  <2>1. ASSUME b <= 2 PROVE inside = ends
    <3>1. ASSUME NEW x \in inside PROVE x \in ends
      BY <1>2, <1>3, <1>4, <1>5, <2>1
    <3>2. ASSUME NEW x \in ends PROVE x \in inside
      BY <1>2, <1>3, <1>5
    <3>. QED
      BY <3>1, <3>2
  <2>2. ASSUME b > 2 PROVE inside # ends
    <3>1. first + 1 \in inside /\ first + 1 \notin ends
      BY <1>2, <1>3, <1>5, <2>2
    <3>. QED
      BY <3>1
  <2>. QED
    BY <2>1, <2>2
<1>7. b <= 2 <=> s.ones >= Width - 1
  BY <1>1 DEF IsBlock
<1>8. ends = {Net!Network(s), Net!LastOf(s)}
  BY <1>1, <1>5 DEF IsBlock
<1>9. /\ Masked(s) \in Subnets /\ Masked(s).ones = s.ones
      /\ \A ip \in Nat : Net!Contains(Masked(s), ip) <=> Net!Contains(s, ip)
      /\ {Net!Network(Masked(s)), Net!LastOf(Masked(s))} = ends
  BY <1>8, MaskedIs DEF Masked
<1>10. \A ip : Net!IsHost(Masked(s), ip) <=> s.ones >= Width - 1 \/ ip \notin ends
  BY <1>9 DEF Net!IsHost
<1>11. \A ip \in Net!Address : ip \in inside <=> Net!Contains(Masked(s), ip)
  <2>1. Net!Address \subseteq Nat
    BY <1>2 DEF Net!Address
  <2>. QED
    BY <1>9, <2>1 DEF inside
<1>12. hosts = IF inside = ends THEN inside ELSE inside \ ends
  <2>1. hosts = {ip \in Net!Address : Net!Contains(Masked(s), ip) /\ Net!IsHost(Masked(s), ip)}
    BY <1>9, LoopVisits
  <2>2. inside \subseteq Net!Address
    BY DEF inside
  <2>3. ASSUME NEW ip \in Net!Address
        PROVE  ip \in hosts <=> ip \in inside /\ (inside = ends \/ ip \notin ends)
    BY <1>6, <1>7, <1>10, <1>11, <2>1
  <2>4. hosts \subseteq Net!Address
    BY <2>1
  <2>. HIDE DEF hosts
  <2>. QED
    BY <2>2, <2>3, <2>4
<1>13. ASSUME NEW row \in Neighbor
       PROVE  Net!UsableARPNeighbor(info.subnet, row.ip, row.mac) <=>
                  row.mac = "unicast" /\ row.ip \in hosts \ special
  <2>1. row.ip \in Net!Address
    BY MachineAssumption
  <2>2. row.ip \in hosts <=> row.ip \in inside /\ (b <= 2 \/ row.ip \notin ends)
    BY <1>6, <1>12
  <2>3. Masked(s).ones < Width - 1 <=> ~(b <= 2)
    <3>1. s.ones \in Int
      BY DEF Subnets
    <3>. QED
      BY <1>7, <1>9, <3>1
  <2>4. {Net!Unspecified, Net!Broadcast} = {0, Net!Power[Width] - 1}
    BY DEF Net!Unspecified, Net!Broadcast
  <2>5. row.ip \in special <=> row.ip \in {Net!Unspecified, Net!Broadcast} \cup Loopback \cup Multicast
    BY <2>4
  <2>. HIDE DEF special, hosts
  <2>. QED
    BY <1>9, <1>11, <2>1, <2>2, <2>3, <2>5 DEF Net!UsableARPNeighbor
<1>14. seeded = {row \in Neighbor : /\ row.iface = info.iface /\ row.mac = "unicast"
                                    /\ row.resolved \/ machine.os = "darwin"
                                    /\ row.ip \in hosts \ special}
  <2>1. seeded = {row \in Neighbor :
                     /\ row.iface = info.iface
                     /\ IF machine.os = "darwin" THEN Net!Extracted(row) ELSE Net!Resolved(row)
                     /\ Net!UsableARPNeighbor(info.subnet, row.ip, row.mac)}
    BY DEF Net!SeedFromKernelARP
  <2>. HIDE DEF seeded, hosts, special
  <2>. QED
    BY <1>13, <2>1, MachineAssumption DEF Net!Extracted, Net!Resolved
<1>. QED
  BY <1>12, <1>14 DEF SubnetIsExact, inside, ends

----------------------------------------------------------------------------
(* The default route and its address *)

IsRoute(n) == Net!IsCandidate(machine.os, machine.adapters, machine.table[n])

Price(n) == Net!Cost(machine.os, machine.adapters, machine.table[n])

\* k is the first of the cheapest candidates among the first n rows, 0 if there is none.
IsBest(k, n) ==
    /\ k = 0 => \A j \in 1..n : ~IsRoute(j)
    /\ k # 0 => /\ k \in 1..n /\ IsRoute(k)
                /\ \A j \in 1..n : IsRoute(j) => Price(k) < Price(j) \/ (Price(k) = Price(j) /\ k <= j)

\* The loop's choice after a row, made of that after the row before.
NextBest(n, best) ==
    IF IsRoute(n) /\ (best = 0 \/ Price(n) < Price(best)) THEN n ELSE best

LEMMA MemberOf ==
    ASSUME NEW R, NEW s \in Seq(R), NEW n \in DOMAIN s
    PROVE  s[n] \in R
  OBVIOUS

\* The platforms' own rules are what the property says of them.
LEMMA PricesAre ==
    ASSUME machine \in Machine, NEW n \in DOMAIN machine.table
    PROVE  /\ Price(n) \in Int /\ machine.table[n].iface \in DOMAIN machine.addrs
           /\ Price(n) = Rank(machine.table[n])
           /\ IsRoute(n) <=> IsInForce(machine.table[n])
<1>1. machine.table[n] \in [iface : DOMAIN machine.addrs, all : BOOLEAN, valid : BOOLEAN,
                            gateway : Net!Address \cup {Net!NoGateway}, metric : Int]
  <2>1. machine.table \in Seq([iface : DOMAIN machine.addrs, all : BOOLEAN, valid : BOOLEAN,
                               gateway : Net!Address \cup {Net!NoGateway}, metric : Int])
    BY MachineAssumption
  <2>. QED
    BY <2>1, MemberOf, Zenon
<1>2. machine.os \in {"linux", "darwin", "windows"} /\ machine.adapters \in [DOMAIN machine.addrs -> Int]
  BY MachineAssumption
<1>3. Price(n) = Rank(machine.table[n])
  BY <1>1, <1>2 DEF Price, Net!Cost, Rank
<1>4. IsRoute(n) <=> IsInForce(machine.table[n])
  BY <1>1, <1>2 DEF IsRoute, Net!IsCandidate, Net!OnLinux, Net!OnDarwin, Net!OnWindows, IsInForce
<1>. QED
  BY <1>1, <1>2, <1>3, <1>4 DEF Price, Net!Cost

\* DefaultRoute chooses the first of the cheapest.
LEMMA RouteIs ==
    ASSUME machine \in Machine
    PROVE  LET preferred == {n \in DOMAIN machine.table : IsPreferred(n)}
           IN  \/ /\ preferred = {}
                  /\ Net!DefaultRoute(machine.os, machine.table, machine.adapters) = Net!NoRoute
               \/ \E k \in DOMAIN machine.table :
                     /\ preferred = {k}
                     /\ Net!DefaultRoute(machine.os, machine.table, machine.adapters) =
                            [iface |-> machine.table[k].iface, gateway |-> machine.table[k].gateway]
<1>. DEFINE rows == Len(machine.table)
            G == [p \in (1..rows) \X (0..rows) |-> NextBest(p[1], p[2])]
            IsChoice(f) == f = [n \in 0..rows |-> IF n = 0 THEN 0 ELSE NextBest(n, f[n - 1])]
            best == CHOOSE f : IsChoice(f)
            preferred == {n \in DOMAIN machine.table : IsPreferred(n)}
<1>1. rows \in Nat /\ DOMAIN machine.table = 1..rows
  <2>1. machine.table \in Seq([iface : DOMAIN machine.addrs, all : BOOLEAN, valid : BOOLEAN,
                               gateway : Net!Address \cup {Net!NoGateway}, metric : Int])
    BY MachineAssumption
  <2>. QED
    BY <2>1
<1>2. \E f : IsChoice(f)
  <2>1. G \in [(1..rows) \X (0..rows) -> 0..rows]
    BY <1>1 DEF NextBest
  <2>2. 0 \in 0..rows
    BY <1>1
  <2>3. PICK f : Follows(f, rows, 0..rows, 0, G)
    <3>. HIDE DEF G, rows
    <3>. QED
      BY <1>1, <2>1, <2>2, Recursion, Zenon
  <2>4. \A n \in 1..rows : f[n] = NextBest(n, f[n - 1])
    <3>1. ASSUME NEW n \in 1..rows PROVE f[n] = NextBest(n, f[n - 1])
      <4>1. n - 1 \in 0..rows
        BY <1>1
      <4>2. f[n - 1] \in 0..rows
        BY <2>3, <4>1 DEF Follows
      <4>3. G[<<n, f[n - 1]>>] = NextBest(n, f[n - 1])
        BY <4>2
      <4>. HIDE DEF G, rows
      <4>. QED
        BY <2>3, <4>3 DEF Follows
    <3>. QED
      BY <3>1
  <2>5. IsChoice(f)
    <3>1. f = [n \in 0..rows |-> f[n]] /\ f[0] = 0
      BY <2>3 DEF Follows
    <3>. HIDE DEF rows
    <3>2. \A n \in 0..rows : f[n] = IF n = 0 THEN 0 ELSE NextBest(n, f[n - 1])
      <4>1. \A n \in 0..rows : n = 0 \/ n \in 1..rows
        BY <1>1
      <4>. QED
        BY <2>4, <3>1, <4>1, Zenon
    <3>. QED
      BY <3>1, <3>2, Zenon
  <2>. QED
    BY <2>5
<1>3. IsChoice(best)
  <2>. HIDE DEF IsChoice
  <2>. QED
    BY <1>2
<1>4. Net!DefaultRoute(machine.os, machine.table, machine.adapters) =
          IF best[rows] = 0 THEN Net!NoRoute
          ELSE [iface |-> machine.table[best[rows]].iface,
                gateway |-> machine.table[best[rows]].gateway]
  BY DEF Net!DefaultRoute, NextBest, IsRoute, Price
<1>. HIDE DEF best
<1>5. IsBest(best[rows], rows)
  <2>. DEFINE T == {n \in Nat : n <= rows => IsBest(best[n], n)}
  <2>. HIDE DEF rows
  <2>0. best[0] = 0 /\ \A n \in 1..rows : best[n] = NextBest(n, best[n - 1])
    BY <1>1, <1>3
  <2>1. 0 \in T
    BY <2>0 DEF IsBest
  <2>2. ASSUME NEW n \in Nat, n \in T PROVE n + 1 \in T
    <3>. SUFFICES ASSUME n + 1 <= rows PROVE IsBest(best[n + 1], n + 1)
      OBVIOUS
    <3>1. IsBest(best[n], n)
      BY <1>1, <2>2
    <3>2. best[n + 1] = NextBest(n + 1, best[n])
      BY <1>1, <2>0
    <3>3. \A j \in 1..(n + 1) : j \in 1..n \/ j = n + 1
      OBVIOUS
    <3>4. \A j \in 1..(n + 1) : Price(j) \in Int
      BY <1>1, PricesAre
    <3>5. CASE best[n] = 0
      BY <3>1, <3>2, <3>3, <3>4, <3>5 DEF IsBest, NextBest
    <3>6. CASE best[n] # 0
      <4>1. best[n] \in 1..n /\ IsRoute(best[n])
            /\ \A j \in 1..n : IsRoute(j) =>
                   Price(best[n]) < Price(j) \/ (Price(best[n]) = Price(j) /\ best[n] <= j)
        BY <3>1, <3>6 DEF IsBest
      <4>2. CASE IsRoute(n + 1) /\ Price(n + 1) < Price(best[n])
        <5>1. best[n + 1] = n + 1
          BY <3>2, <4>2 DEF NextBest
        <5>2. \A j \in 1..n : IsRoute(j) => Price(n + 1) < Price(j)
          BY <3>4, <4>1, <4>2
        <5>. QED
          BY <3>3, <4>2, <5>1, <5>2 DEF IsBest
      <4>3. CASE ~(IsRoute(n + 1) /\ Price(n + 1) < Price(best[n]))
        <5>1. best[n + 1] = best[n]
          BY <3>2, <3>6, <4>3 DEF NextBest
        <5>2. IsRoute(n + 1) => Price(best[n]) <= Price(n + 1)
          BY <3>4, <4>1, <4>3
        <5>3. \A j \in 1..(n + 1) : IsRoute(j) =>
                  Price(best[n]) < Price(j) \/ (Price(best[n]) = Price(j) /\ best[n] <= j)
          BY <3>3, <3>4, <4>1, <5>2
        <5>. QED
          BY <3>6, <4>1, <5>1, <5>3 DEF IsBest
      <4>. QED
        BY <4>2, <4>3
    <3>. QED
      BY <3>5, <3>6
  <2>3. rows \in T
    <3>. HIDE DEF T
    <3>. QED
      BY <1>1, <2>1, <2>2, SetInduction
  <2>. QED
    BY <1>1, <2>3
<1>6. \A n : n \in preferred <=>
          /\ n \in 1..rows /\ IsRoute(n)
          /\ \A j \in 1..rows : IsRoute(j) => Price(n) < Price(j) \/ (Price(n) = Price(j) /\ n <= j)
  <2>1. \A j \in 1..rows : /\ Price(j) = Rank(machine.table[j])
                           /\ IsRoute(j) <=> IsInForce(machine.table[j])
    BY <1>1, PricesAre
  <2>. QED
    BY <1>1, <2>1 DEF IsPreferred
<1>7. \A j \in 1..rows : Price(j) \in Int
  BY <1>1, PricesAre
<1>. HIDE DEF preferred, rows
<1>8. CASE best[rows] = 0
  <2>1. preferred = {}
    BY <1>5, <1>6, <1>8 DEF IsBest
  <2>. QED
    BY <1>4, <1>8, <2>1 DEF preferred
<1>9. CASE best[rows] # 0
  <2>. DEFINE k == best[rows]
  <2>1. k \in 1..rows /\ IsRoute(k)
        /\ \A j \in 1..rows : IsRoute(j) => Price(k) < Price(j) \/ (Price(k) = Price(j) /\ k <= j)
    BY <1>5, <1>9 DEF IsBest
  <2>. HIDE DEF k
  <2>2. k \in preferred
    BY <1>6, <2>1
  <2>3. ASSUME NEW n \in preferred PROVE n = k
    <3>1. IsRoute(n) /\ n \in 1..rows
      BY <1>6
    <3>2. Price(n) < Price(k) \/ (Price(n) = Price(k) /\ n <= k)
      BY <1>6, <2>1
    <3>3. Price(k) < Price(n) \/ (Price(k) = Price(n) /\ k <= n)
      BY <2>1, <3>1
    <3>4. Price(n) \in Int /\ Price(k) \in Int /\ n \in Int /\ k \in Int
      BY <1>7, <2>1, <3>1
    <3>. QED
      BY <3>2, <3>3, <3>4
  <2>4. preferred = {k}
    BY <2>2, <2>3
  <2>. QED
    BY <1>1, <1>4, <1>9, <2>1, <2>4 DEF k, preferred
<1>. QED
  BY <1>8, <1>9

----------------------------------------------------------------------------
(* The address of the interface *)

Addresses == [ip : Net!Address, ones : 0..Width] \cup {Net!Other}

IsUsable(addrs, k) == addrs[k] # Net!Other
IsHolding(addrs, gateway, k) == addrs[k] # Net!Other /\ Net!Matches(addrs[k], gateway)

\* c is the choice among the first n addresses.
IsChosen(addrs, gateway, n, c) ==
    /\ c \in [first : 0..Len(addrs), routed : 0..Len(addrs)]
    /\ c.first = 0 => \A k \in 1..n : ~IsUsable(addrs, k)
    /\ c.first # 0 => /\ c.first \in 1..n /\ IsUsable(addrs, c.first)
                      /\ \A k \in 1..n : IsUsable(addrs, k) => c.first <= k
    /\ c.routed = 0 => \A k \in 1..n : ~IsHolding(addrs, gateway, k)
    /\ c.routed # 0 => /\ c.routed \in 1..n /\ IsHolding(addrs, gateway, c.routed)
                       /\ \A k \in 1..n : IsHolding(addrs, gateway, k) =>
                             \/ addrs[k].ones < addrs[c.routed].ones
                             \/ addrs[k].ones = addrs[c.routed].ones /\ c.routed <= k

\* The loop's choice after an address, made of that after the address before.
NextChosen(addrs, gateway, n, c) ==
    IF addrs[n] = Net!Other THEN c
    ELSE [first |-> IF c.first = 0 THEN n ELSE c.first,
          routed |-> IF Net!Better(addrs, n, gateway, c.routed) THEN n ELSE c.routed]

LEMMA OnesAre ==
    ASSUME NEW addrs \in Seq(Addresses), NEW k \in DOMAIN addrs
    PROVE  addrs[k].ones \in Nat /\ (IsUsable(addrs, k) => addrs[k] \in [ip : Net!Address, ones : 0..Width])
<1>1. addrs[k] \in Addresses
  BY MemberOf, Zenon
<1>2. \A s \in [ip : Net!Address, ones : 0..Width] : s.ones \in Nat
  OBVIOUS
<1>3. Net!Other.ones = 0
  BY DEF Net!Other
<1>. QED
  BY <1>1, <1>2, <1>3 DEF Addresses, IsUsable

\* One turn of the loop.
LEMMA ChoiceStep ==
    ASSUME NEW addrs \in Seq(Addresses), NEW gateway, NEW n \in Nat, n + 1 \in DOMAIN addrs,
           NEW c, IsChosen(addrs, gateway, n, c)
    PROVE  IsChosen(addrs, gateway, n + 1, NextChosen(addrs, gateway, n + 1, c))
<1>. DEFINE d == NextChosen(addrs, gateway, n + 1, c)
            len == Len(addrs)
<1>1. len \in Nat /\ n + 1 \in 1..len /\ DOMAIN addrs = 1..len
  OBVIOUS
<1>. HIDE DEF len
<1>2. c \in [first : 0..len, routed : 0..len]
  BY DEF IsChosen, len
<1>3. c.first \in 0..len /\ c.routed \in 0..len
  BY <1>2
<1>4. \A k \in 1..(n + 1) : addrs[k].ones \in Nat /\ (k \in 1..n \/ k = n + 1)
  BY <1>1, OnesAre
<1>5. CASE ~IsUsable(addrs, n + 1)
  <2>1. d = c
    BY <1>5 DEF NextChosen, IsUsable
  <2>2. ~IsHolding(addrs, gateway, n + 1)
    BY <1>5 DEF IsUsable, IsHolding
  <2>3. 1..n \subseteq 1..(n + 1)
    OBVIOUS
  <2>. HIDE DEF d
  <2>. QED
    BY <1>4, <1>5, <2>1, <2>2, <2>3 DEF IsChosen, d
<1>6. CASE IsUsable(addrs, n + 1)
  <2>1. d = [first |-> IF c.first = 0 THEN n + 1 ELSE c.first,
             routed |-> IF Net!Better(addrs, n + 1, gateway, c.routed) THEN n + 1 ELSE c.routed]
    BY <1>6 DEF NextChosen, IsUsable
  <2>2. /\ d.first = IF c.first = 0 THEN n + 1 ELSE c.first
        /\ d.routed = IF Net!Better(addrs, n + 1, gateway, c.routed) THEN n + 1 ELSE c.routed
    BY <2>1
  <2>3. d \in [first : 0..len, routed : 0..len]
    BY <1>1, <1>3, <2>1
  <2>. HIDE DEF d
  <2>4. /\ d.first # 0 /\ d.first \in 1..(n + 1) /\ IsUsable(addrs, d.first)
        /\ \A k \in 1..(n + 1) : IsUsable(addrs, k) => d.first <= k
    <3>1. CASE c.first = 0
      <4>1. \A k \in 1..n : ~IsUsable(addrs, k)
        BY <3>1 DEF IsChosen
      <4>. QED
        BY <1>4, <1>6, <2>2, <3>1, <4>1
    <3>2. CASE c.first # 0
      <4>1. /\ c.first \in 1..n /\ IsUsable(addrs, c.first)
            /\ \A k \in 1..n : IsUsable(addrs, k) => c.first <= k
        BY <3>2 DEF IsChosen
      <4>. QED
        BY <1>4, <2>2, <3>2, <4>1
    <3>. QED
      BY <3>1, <3>2
  <2>5. /\ d.routed = 0 => \A k \in 1..(n + 1) : ~IsHolding(addrs, gateway, k)
        /\ d.routed # 0 => /\ d.routed \in 1..(n + 1) /\ IsHolding(addrs, gateway, d.routed)
                           /\ \A k \in 1..(n + 1) : IsHolding(addrs, gateway, k) =>
                                 \/ addrs[k].ones < addrs[d.routed].ones
                                 \/ addrs[k].ones = addrs[d.routed].ones /\ d.routed <= k
    <3>1. IsHolding(addrs, gateway, n + 1) <=> Net!Matches(addrs[n + 1], gateway)
      BY <1>6 DEF IsHolding, IsUsable
    <3>2. Net!Better(addrs, n + 1, gateway, c.routed) <=>
              IsHolding(addrs, gateway, n + 1)
              /\ (c.routed = 0 \/ addrs[n + 1].ones > addrs[c.routed].ones)
      BY <3>1 DEF Net!Better
    <3>3. CASE c.routed = 0
      <4>1. \A k \in 1..n : ~IsHolding(addrs, gateway, k)
        BY <3>3 DEF IsChosen
      <4>2. CASE IsHolding(addrs, gateway, n + 1)
        <5>1. d.routed = n + 1
          BY <2>2, <3>2, <3>3, <4>2
        <5>. QED
          BY <1>4, <4>1, <4>2, <5>1
      <4>3. CASE ~IsHolding(addrs, gateway, n + 1)
        <5>1. d.routed = 0
          BY <2>2, <3>2, <3>3, <4>3
        <5>. QED
          BY <1>4, <4>1, <4>3, <5>1
      <4>. QED
        BY <4>2, <4>3
    <3>4. CASE c.routed # 0
      <4>1. /\ c.routed \in 1..n /\ IsHolding(addrs, gateway, c.routed)
            /\ \A k \in 1..n : IsHolding(addrs, gateway, k) =>
                  \/ addrs[k].ones < addrs[c.routed].ones
                  \/ addrs[k].ones = addrs[c.routed].ones /\ c.routed <= k
        BY <3>4 DEF IsChosen
      <4>2. CASE IsHolding(addrs, gateway, n + 1) /\ addrs[n + 1].ones > addrs[c.routed].ones
        <5>1. d.routed = n + 1
          BY <2>2, <3>2, <4>2
        <5>2. \A k \in 1..n : IsHolding(addrs, gateway, k) => addrs[k].ones < addrs[n + 1].ones
          BY <1>4, <4>1, <4>2
        <5>. QED
          BY <1>4, <4>2, <5>1, <5>2
      <4>3. CASE ~(IsHolding(addrs, gateway, n + 1) /\ addrs[n + 1].ones > addrs[c.routed].ones)
        <5>1. d.routed = c.routed
          BY <2>2, <3>2, <3>4, <4>3
        <5>2. IsHolding(addrs, gateway, n + 1) => addrs[n + 1].ones <= addrs[c.routed].ones
          BY <1>4, <4>1, <4>3
        <5>3. \A k \in 1..(n + 1) : IsHolding(addrs, gateway, k) =>
                  \/ addrs[k].ones < addrs[c.routed].ones
                  \/ addrs[k].ones = addrs[c.routed].ones /\ c.routed <= k
          BY <1>4, <4>1, <5>2
        <5>4. c.routed \in 1..(n + 1)
          BY <4>1
        <5>. QED
          BY <3>4, <4>1, <5>1, <5>3, <5>4
      <4>. QED
        BY <4>2, <4>3
    <3>. QED
      BY <3>3, <3>4
  <2>. QED
    BY <2>3, <2>4, <2>5 DEF IsChosen, d, len
<1>. QED
  BY <1>5, <1>6

\* What the loop has chosen at its end.
LEMMA ChosenIs ==
    ASSUME NEW addrs \in Seq(Addresses), NEW gateway
    PROVE  IsChosen(addrs, gateway, Len(addrs), Net!Chosen(addrs, gateway))
<1>. DEFINE len == Len(addrs)
            V == [first : 0..len, routed : 0..len]
            none == [first |-> 0, routed |-> 0]
            G == [p \in (1..len) \X V |-> NextChosen(addrs, gateway, p[1], p[2])]
            IsChoice(f) ==
                f = [n \in 0..len |-> IF n = 0 THEN none
                                      ELSE NextChosen(addrs, gateway, n, f[n - 1])]
            chosen == CHOOSE f : IsChoice(f)
<1>1. len \in Nat /\ DOMAIN addrs = 1..len
  OBVIOUS
<1>2. \E f : IsChoice(f)
  <2>1. G \in [(1..len) \X V -> V]
    <3>1. ASSUME NEW n \in 1..len, NEW c \in V PROVE NextChosen(addrs, gateway, n, c) \in V
      BY <1>1 DEF NextChosen
    <3>. QED
      BY <3>1
  <2>2. none \in V
    BY <1>1
  <2>3. PICK f : Follows(f, len, V, none, G)
    <3>. HIDE DEF G, len, V, none
    <3>. QED
      BY <1>1, <2>1, <2>2, Recursion, Zenon
  <2>4. \A n \in 1..len : f[n] = NextChosen(addrs, gateway, n, f[n - 1])
    <3>1. ASSUME NEW n \in 1..len PROVE f[n] = NextChosen(addrs, gateway, n, f[n - 1])
      <4>1. n - 1 \in 0..len
        BY <1>1
      <4>2. f[n - 1] \in V
        <5>. HIDE DEF G, len, V, none
        <5>. QED
          BY <2>3, <4>1 DEF Follows
      <4>3. G[<<n, f[n - 1]>>] = NextChosen(addrs, gateway, n, f[n - 1])
        <5>. HIDE DEF len, V, none
        <5>. QED
          BY <4>2
      <4>. HIDE DEF G, len, V, none
      <4>. QED
        BY <2>3, <4>3 DEF Follows
    <3>. QED
      BY <3>1
  <2>5. IsChoice(f)
    <3>. HIDE DEF G, len, V, none
    <3>1. f = [n \in 0..len |-> f[n]] /\ f[0] = none
      BY <2>3 DEF Follows
    <3>2. \A n \in 0..len : f[n] = IF n = 0 THEN none ELSE NextChosen(addrs, gateway, n, f[n - 1])
      <4>1. \A n \in 0..len : n = 0 \/ n \in 1..len
        BY <1>1
      <4>. QED
        BY <2>4, <3>1, <4>1, Zenon
    <3>. QED
      BY <3>1, <3>2, Zenon
  <2>. QED
    BY <2>5
<1>3. IsChoice(chosen)
  <2>. HIDE DEF IsChoice
  <2>. QED
    BY <1>2
<1>4. Net!Chosen(addrs, gateway) = chosen[len]
  BY DEF Net!Chosen, NextChosen
<1>. HIDE DEF chosen
<1>. DEFINE T == {n \in Nat : n <= len => IsChosen(addrs, gateway, n, chosen[n])}
<1>5. chosen[0] = none /\ \A n \in 1..len : chosen[n] = NextChosen(addrs, gateway, n, chosen[n - 1])
  <2>. HIDE DEF len, none
  <2>. QED
    BY <1>1, <1>3
<1>6. 0 \in T
  <2>1. IsChosen(addrs, gateway, 0, none)
    BY <1>1 DEF IsChosen
  <2>. HIDE DEF len, none
  <2>. QED
    BY <1>5, <2>1
<1>7. ASSUME NEW n \in Nat, n \in T PROVE n + 1 \in T
  <2>. SUFFICES ASSUME n + 1 <= len PROVE IsChosen(addrs, gateway, n + 1, chosen[n + 1])
    OBVIOUS
  <2>. HIDE DEF len, none
  <2>1. IsChosen(addrs, gateway, n, chosen[n]) /\ n + 1 \in 1..len
    BY <1>1, <1>7
  <2>2. chosen[n + 1] = NextChosen(addrs, gateway, n + 1, chosen[n])
    BY <1>5, <2>1
  <2>. QED
    BY <1>1, <2>1, <2>2, ChoiceStep
<1>8. len \in T
  <2>. HIDE DEF T, len, none
  <2>. QED
    BY <1>1, <1>6, <1>7, SetInduction
<1>. QED
  BY <1>1, <1>4, <1>8

\* InfoForAddresses takes the one address that it should.
LEMMA AddressIs ==
    ASSUME NEW addrs \in Seq(Addresses), NEW gateway, NEW name
    PROVE  LET routed == {n \in DOMAIN addrs : IsRouted(n, addrs, gateway)}
               info == Net!InfoForAddresses(name, addrs, gateway)
           IN  \/ routed = {} /\ info = Net!Nothing
               \/ \E k \in DOMAIN addrs :
                     /\ routed = {k} /\ addrs[k] \in [ip : Net!Address, ones : 0..Width]
                     /\ info = [iface |-> name, subnet |-> Masked(addrs[k]),
                                error |-> addrs[k].ones < MinOnes]
<1>. DEFINE len == Len(addrs)
            c == Net!Chosen(addrs, gateway)
            chosen == IF c.routed = 0 THEN c.first ELSE c.routed
            usable == {k \in DOMAIN addrs : addrs[k] # Net!Other}
            holding == {k \in usable : Net!Matches(addrs[k], gateway)}
            routed == {n \in DOMAIN addrs : IsRouted(n, addrs, gateway)}
            info == Net!InfoForAddresses(name, addrs, gateway)
<1>1. len \in Nat /\ DOMAIN addrs = 1..len
  OBVIOUS
<1>2. info = IF c.first = 0 THEN Net!Nothing
             ELSE [iface |-> name, subnet |-> Masked(addrs[chosen]),
                   error |-> addrs[chosen].ones < MinOnes]
  BY DEF Net!InfoForAddresses, Masked
<1>3. \A n : n \in routed <=>
          /\ n \in 1..len
          /\ IF holding = {} THEN n \in usable /\ \A k \in usable : n <= k
             ELSE /\ n \in holding
                  /\ \A k \in holding : \/ addrs[k].ones < addrs[n].ones
                                        \/ addrs[k].ones = addrs[n].ones /\ n <= k
  BY <1>1 DEF IsRouted
<1>4. /\ \A k : k \in usable <=> k \in 1..len /\ IsUsable(addrs, k)
      /\ \A k : k \in holding <=> k \in 1..len /\ IsHolding(addrs, gateway, k)
      /\ holding \subseteq usable
  BY <1>1 DEF IsUsable, IsHolding
<1>5. IsChosen(addrs, gateway, len, c)
  BY ChosenIs
<1>6. \A k \in 1..len : /\ addrs[k].ones \in Nat
                        /\ IsUsable(addrs, k) => addrs[k] \in [ip : Net!Address, ones : 0..Width]
  BY <1>1, OnesAre
<1>. HIDE DEF len, c, usable, holding, routed, info
<1>7. CASE c.first = 0
  <2>1. usable = {}
    BY <1>4, <1>5, <1>7 DEF IsChosen
  <2>2. routed = {}
    BY <1>3, <1>4, <2>1
  <2>. QED
    BY <1>2, <1>7, <2>2 DEF routed, info
<1>8. CASE c.first # 0
  <2>1. chosen \in 1..len /\ IsUsable(addrs, chosen) /\ chosen \in routed
    <3>1. CASE c.routed = 0
      <4>1. holding = {}
        BY <1>4, <1>5, <3>1 DEF IsChosen
      <4>. QED
        BY <1>3, <1>4, <1>5, <1>8, <3>1, <4>1 DEF IsChosen
    <3>2. CASE c.routed # 0
      <4>1. /\ c.routed \in 1..len /\ IsHolding(addrs, gateway, c.routed)
            /\ \A k \in 1..len : IsHolding(addrs, gateway, k) =>
                  \/ addrs[k].ones < addrs[c.routed].ones
                  \/ addrs[k].ones = addrs[c.routed].ones /\ c.routed <= k
        BY <1>5, <3>2 DEF IsChosen
      <4>2. c.routed \in holding /\ holding # {}
        BY <1>4, <4>1
      <4>. QED
        BY <1>3, <1>4, <3>2, <4>1, <4>2
    <3>. QED
      BY <3>1, <3>2
  <2>2. ASSUME NEW n \in routed PROVE n = chosen
    <3>1. n \in 1..len /\ n \in Int /\ chosen \in Int
      BY <1>1, <1>3, <2>1
    <3>2. CASE holding = {}
      <4>1. n \in usable /\ chosen \in usable /\ n <= chosen /\ chosen <= n
        BY <1>3, <2>1, <2>2, <3>2
      <4>. QED
        BY <3>1, <4>1
    <3>3. CASE holding # {}
      <4>1. n \in holding /\ chosen \in holding
        BY <1>3, <2>1, <2>2, <3>3
      <4>2. \/ addrs[n].ones < addrs[chosen].ones
            \/ addrs[n].ones = addrs[chosen].ones /\ chosen <= n
        BY <1>3, <2>1, <3>3, <4>1
      <4>3. \/ addrs[chosen].ones < addrs[n].ones
            \/ addrs[chosen].ones = addrs[n].ones /\ n <= chosen
        BY <1>3, <2>2, <3>3, <4>1
      <4>4. addrs[n].ones \in Nat /\ addrs[chosen].ones \in Nat
        BY <1>6, <2>1, <3>1
      <4>. HIDE DEF chosen
      <4>. QED
        BY <3>1, <4>2, <4>3, <4>4
    <3>. QED
      BY <3>2, <3>3
  <2>. HIDE DEF chosen
  <2>3. routed = {chosen}
    BY <2>1, <2>2
  <2>4. chosen \in DOMAIN addrs /\ addrs[chosen] \in [ip : Net!Address, ones : 0..Width]
    BY <1>1, <1>6, <2>1
  <2>5. info = [iface |-> name, subnet |-> Masked(addrs[chosen]),
                error |-> addrs[chosen].ones < MinOnes]
    BY <1>2, <1>8
  <2>. QED
    BY <2>3, <2>4, <2>5 DEF routed, info
<1>. QED
  BY <1>7, <1>8

----------------------------------------------------------------------------
(* The machine *)

\* Whatever the operating system says, Detect chooses and scans as it should.
LEMMA MachineIsDetected ==
    ASSUME machine \in Machine
    PROVE  HostsAreExact
<1>. DEFINE info == Net!Detect(machine)
            preferred == {n \in DOMAIN machine.table : IsPreferred(n)}
            route == machine.table[CHOOSE n \in preferred : TRUE]
            addrs == machine.addrs[route.iface]
            routed == {n \in DOMAIN addrs : IsRouted(n, addrs, route.gateway)}
            subnet == addrs[CHOOSE n \in routed : TRUE]
            chosen == Net!DefaultRoute(machine.os, machine.table, machine.adapters)
<1>. SUFFICES IF preferred = {} \/ routed = {} THEN info.error
              ELSE /\ info.error <=> subnet.ones < MinOnes
                   /\ ~info.error => info.iface = route.iface /\ SubnetIsExact(info, subnet)
  BY DEF HostsAreExact
<1>1. info = IF chosen = Net!NoRoute THEN Net!Nothing
             ELSE Net!InfoForAddresses(chosen.iface, machine.addrs[chosen.iface], chosen.gateway)
  BY DEF Net!Detect
<1>2. Net!Nothing.error
  BY DEF Net!Nothing
<1>3. machine.os \in {"linux", "darwin", "windows"}
      /\ Net!NoInterface \notin DOMAIN machine.addrs
      /\ \A i \in DOMAIN machine.addrs : machine.addrs[i] \in Seq(Addresses)
  BY MachineAssumption DEF Addresses
<1>. HIDE DEF info, chosen
<1>4. CASE preferred = {}
  <2>1. chosen = Net!NoRoute
    BY RouteIs, <1>4 DEF chosen
  <2>. QED
    BY <1>1, <1>2, <1>4, <2>1
<1>5. CASE preferred # {}
  <2>1. PICK k \in DOMAIN machine.table :
            /\ preferred = {k}
            /\ chosen = [iface |-> machine.table[k].iface, gateway |-> machine.table[k].gateway]
    BY RouteIs, <1>5 DEF chosen
  <2>2. route = machine.table[k]
    <3>. HIDE DEF preferred
    <3>. QED
      BY <2>1
  <2>. HIDE DEF preferred, route
  <2>3. chosen.iface = route.iface /\ chosen.gateway = route.gateway
    BY <2>1, <2>2
  <2>4. route.iface \in DOMAIN machine.addrs
    BY <2>2, PricesAre
  <2>5. chosen # Net!NoRoute
    BY <1>3, <2>3, <2>4 DEF Net!NoRoute
  <2>6. info = Net!InfoForAddresses(route.iface, addrs, route.gateway)
    BY <1>1, <2>3, <2>5
  <2>7. addrs \in Seq(Addresses)
    BY <1>3, <2>4
  <2>. HIDE DEF addrs
  <2>8. CASE routed = {}
    BY <1>2, <2>6, <2>7, <2>8, AddressIs
  <2>9. CASE routed # {}
    <3>1. PICK n \in DOMAIN addrs :
              /\ routed = {n} /\ addrs[n] \in [ip : Net!Address, ones : 0..Width]
              /\ info = [iface |-> route.iface, subnet |-> Masked(addrs[n]),
                         error |-> addrs[n].ones < MinOnes]
      BY <2>6, <2>7, <2>9, AddressIs
    <3>. HIDE DEF routed
    <3>2. subnet = addrs[n]
      BY <3>1
    <3>. HIDE DEF subnet
    <3>3. info.iface = route.iface /\ info.subnet = Masked(subnet) /\ (info.error <=> subnet.ones < MinOnes)
      BY <3>1, <3>2
    <3>4. ASSUME ~info.error PROVE SubnetIsExact(info, subnet)
      <4>1. subnet \in [ip : Net!Address, ones : 0..Width] /\ ~(subnet.ones < MinOnes)
        BY <3>1, <3>2, <3>3, <3>4
      <4>2. subnet.ip \in Net!Address /\ subnet.ones \in 1..Width
            /\ subnet = [ip |-> subnet.ip, ones |-> subnet.ones]
        BY <4>1
      <4>3. subnet \in Subnets
        BY <4>2 DEF Subnets
      <4>. QED
        BY <1>3, <3>3, <4>3, SubnetIsSwept
    <3>. QED
      BY <1>5, <2>9, <3>3, <3>4
  <2>. QED
    BY <2>8, <2>9
<1>. QED
  BY <1>4, <1>5

\* netiface.go:42-43 and :115-116: until the program has chosen a subnet, what it is about
\* to choose and to visit is right for every machine.
THEOREM HostsAreScanned == Spec => []HostsAreExact
<1>. DEFINE Told == main = "start" => machine \in Machine
<1>1. Init => Told
  BY DEF Init
<1>2. Told /\ [Next]_vars => Told'
  <2>. SUFFICES ASSUME Told, [Next]_vars PROVE Told'
    OBVIOUS
  <2>1. main' = "start" => main = "start" /\ machine' = machine
    <3>1. CASE MainStep
      BY <3>1 DEF MainStep, Setup, NoRoute, NoInterface, Detected, NoCapture, Start, NotConfigured,
                  Exit, ListenerEnds, Judge, Write, EndScan, JoinScan
    <3>2. CASE ReporterStep
      BY <3>2 DEF ReporterStep, Report, CancelUI
    <3>3. CASE UIStep
      BY <3>3 DEF UIStep, UIStarts, UIFails, UIKilled, UIBreaks, UIQuits, MoveUI
    <3>4. CASE WatcherStep
      BY <3>4 DEF WatcherStep, WatcherTakes, WatcherCancels, WatcherUnwinds, WatcherStops
    <3>5. CASE Signal \/ SignalKills
      BY <3>5 DEF Signal, SignalKills, Exit
    <3>6. CASE ScanStep
      BY <3>6 DEF ScanStep, Lift, ownVars
    <3>7. CASE UNCHANGED vars \/ Over
      BY <3>7 DEF Over, vars, ownVars
    <3>. QED
      BY <3>1, <3>2, <3>3, <3>4, <3>5, <3>6, <3>7 DEF Next
  <2>. QED
    BY <2>1
<1>3. Told => HostsAreExact
  <2>1. main # "start" => HostsAreExact
    BY DEF HostsAreExact
  <2>. QED
    BY <2>1, MachineIsDetected
<1>. QED
  BY <1>1, <1>2, <1>3, PTL DEF Spec
=============================================================================
