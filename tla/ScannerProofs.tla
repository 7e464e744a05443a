---------------------------- MODULE ScannerProofs ----------------------------
(***************************************************************************)
(* Theorems about Scanner, for all values of its constants: the safety     *)
(* properties its run checks, each from a part of one inductive invariant. *)
(***************************************************************************)
EXTENDS Scanner, FiniteSetTheorems, TLAPS

USE WorkerAssumption, BoundsAssumption

----------------------------------------------------------------------------
(* The inductive invariant *)

\* TypeOK, but that the errs channel has room: see Recorded.
TypeInv ==
    /\ once \in BOOLEAN /\ caller \in Caller /\ seedsLeft \in 0..Seeds
    /\ updates \in Seq({"seed", "live"}) /\ Len(updates) <= UpdatesCap
    /\ merger \in {"select", "blocked", "done"} /\ merged \subseteq {"seed", "live"}
    /\ worker \in [Worker -> Goroutine] /\ hostsLeft \in 0..Hosts
    /\ outcome \in [Worker -> Outcome]
    /\ errs \in Seq(Worker)
    /\ parentDone \in BOOLEAN /\ cancelled \in BOOLEAN /\ closed \in BOOLEAN
    /\ result \in Worker \cup {"none", "nil", "canceled"}

\* A worker is in errs once at most, and only after it has been recorded.
Recorded ==
    /\ \A n \in DOMAIN errs : worker[errs[n]] \in {"cancelling", "finishing", "done"}
    /\ \A n, k \in DOMAIN errs : errs[n] = errs[k] => n = k

\* Seeds precede live updates in the channel, and workers only start after the seeding.
InOrder ==
    /\ \A n, k \in DOMAIN updates : n < k /\ updates[k] = "seed" => updates[n] = "seed"
    /\ caller = "seeding" =>
          /\ "live" \notin merged
          /\ \A n \in DOMAIN updates : updates[n] = "seed"
          /\ \A w \in Worker : worker[w] = "unborn"
    /\ "live" \in merged => \A n \in DOMAIN updates : updates[n] # "seed"

\* What runWorkers waited for stays as it is.
Joined ==
    /\ caller \in {"joining", "draining", "returned"} =>
          \A w \in Worker : worker[w] = "done"
    /\ caller \in {"draining", "returned"} => merger = "done"
    /\ caller = "returned" => updates = <<>>
    /\ closed => caller = "returned"

\* An outcome that only a cancellation excuses came after one.
Excused ==
    /\ \A w \in Worker : outcome[w] = "canceled" => cancelled
    /\ \A w \in Worker : outcome[w] = "nil" => cancelled \/ (once /\ w = Active)

\* What is recorded is worth it.
Deserved ==
    /\ \A w \in Worker : worker[w] = "recording" => outcome[w] \in {"failure", "timeout", "quit"}
    /\ \A n \in DOMAIN errs : outcome[errs[n]] \in {"failure", "timeout", "quit"}

\* The reason why the scan is not a success.
Spoilt == parentDone \/ errs # <<>>

\* Where a cancellation comes from, what it does to the active worker's outcome, and that
\* no failure goes unrecorded.
Accounted ==
    /\ \A w \in Worker : outcome[w] = "none" <=> worker[w] \in {"unborn", "running"}
    /\ \A w \in Worker : worker[w] = "cancelling" => errs # <<>>
    /\ cancelled => \/ Spoilt
                    \/ once /\ worker[Active] = "done"
                    \/ caller \in {"joining", "draining", "returned"}
    /\ outcome[Active] # "none" => Spoilt \/ (once /\ hostsLeft = 0)
    /\ \A w \in Worker : outcome[w] = "failure" =>
          worker[w] \in {"classifying", "recording"} \/ errs # <<>>

\* A success is not spoilt, which nothing can do any more once runWorkers has returned.
Unspoilt == result = "nil" => caller = "returned" /\ ~Spoilt

Inv == /\ TypeInv /\ Recorded /\ InOrder /\ Joined /\ Excused /\ Deserved
       /\ Accounted /\ Unspoilt

----------------------------------------------------------------------------
(* Every step preserves it *)

\* An update that is merged leaves the channel.
LEMMA MergedType ==
    ASSUME TypeInv, updates # <<>>, updates' = Tail(updates), Merged(Head(updates))
    PROVE  /\ updates' \in Seq({"seed", "live"}) /\ Len(updates') <= UpdatesCap
           /\ merged' \subseteq {"seed", "live"}
<1>1. updates \in Seq({"seed", "live"}) /\ Len(updates) <= UpdatesCap /\ Len(updates) \in Nat
      /\ UpdatesCap \in Nat
  BY BoundsAssumption DEF TypeInv
<1>2. Head(updates) \in {"seed", "live"}
  BY <1>1
<1>3. Len(Tail(updates)) = Len(updates) - 1 /\ Tail(updates) \in Seq({"seed", "live"})
  BY <1>1
<1>4. merged' \subseteq {"seed", "live"}
  BY <1>2 DEF TypeInv, Merged
<1>5. Len(updates') <= UpdatesCap
  BY <1>1, <1>3
<1>. QED
  BY <1>3, <1>4, <1>5

\* Types and the bounds of the updates channel.
LEMMA TypeStep ==
    ASSUME TypeInv, [Next]_vars
    PROVE  TypeInv'
<1>. USE DEF TypeInv, Caller, Goroutine, Outcome
<1>1. ASSUME QueueSeed PROVE TypeInv'
  BY <1>1 DEF QueueSeed, Room, callerVars, mergerVars, workerVars
<1>2. ASSUME StartWorkers PROVE TypeInv'
  BY <1>2 DEF StartWorkers, callerVars, mergerVars, workerVars
<1>3. ASSUME WorkersJoined PROVE TypeInv'
  BY <1>3 DEF WorkersJoined, callerVars, mergerVars, workerVars
<1>4. ASSUME MergerJoined PROVE TypeInv'
  BY <1>4 DEF MergerJoined, callerVars, mergerVars, workerVars
<1>5. ASSUME Drain PROVE TypeInv'
  BY <1>5, MergedType DEF Drain, callerVars, mergerVars, workerVars
<1>6. ASSUME Return PROVE TypeInv'
  BY <1>6 DEF Return, Result, callerVars, mergerVars, workerVars
<1>7. ASSUME Merge PROVE TypeInv'
  BY <1>7, MergedType DEF Merge, callerVars, mergerVars, workerVars
<1>8. ASSUME SweepBlocks PROVE TypeInv'
  BY <1>8 DEF SweepBlocks, callerVars, mergerVars, workerVars
<1>9. ASSUME SweepSends PROVE TypeInv'
  BY <1>9 DEF SweepSends, callerVars, mergerVars, workerVars
<1>10. ASSUME SweepAbandons PROVE TypeInv'
  BY <1>10 DEF SweepAbandons, callerVars, mergerVars, workerVars
<1>11. ASSUME MergerStops PROVE TypeInv'
  BY <1>11 DEF MergerStops, callerVars, mergerVars, workerVars
<1>12. ASSUME Completes PROVE TypeInv'
  BY <1>12 DEF Completes, WorkerReturns, callerVars, mergerVars, workerVars
<1>13. ASSUME NEW w \in Worker, Send(w) PROVE TypeInv'
  BY <1>13 DEF Send, Room, callerVars, mergerVars, workerVars
<1>14. ASSUME NEW w \in Worker, Obeys(w) PROVE TypeInv'
  BY <1>14 DEF Obeys, WorkerReturns, callerVars, mergerVars, workerVars
<1>15. ASSUME NEW w \in Worker, Fails(w) PROVE TypeInv'
  BY <1>15 DEF Fails, WorkerReturns, callerVars, mergerVars, workerVars
<1>16. ASSUME NEW w \in Worker, Quits(w) PROVE TypeInv'
  BY <1>16 DEF Quits, WorkerReturns, callerVars, mergerVars, workerVars
<1>17. ASSUME NEW w \in Worker, Classify(w) PROVE TypeInv'
  BY <1>17 DEF Classify, IsFailure, ContextError, Unexpected, Nil, callerVars, mergerVars, workerVars
<1>18. ASSUME NEW w \in Worker, Record(w) PROVE TypeInv'
  BY <1>18 DEF Record, callerVars, mergerVars, workerVars
<1>19. ASSUME NEW w \in Worker, CancelOthers(w) PROVE TypeInv'
  BY <1>19 DEF CancelOthers, callerVars, mergerVars, workerVars
<1>20. ASSUME NEW w \in Worker, Finish(w) PROVE TypeInv'
  BY <1>20 DEF Finish, callerVars, mergerVars, workerVars
<1>21. ASSUME ParentCancels PROVE TypeInv'
  BY <1>21 DEF ParentCancels, callerVars, mergerVars, workerVars
<1>22. ASSUME UNCHANGED vars PROVE TypeInv'
  BY <1>22 DEF vars
<1>. QED
  BY <1>1, <1>2, <1>3, <1>4, <1>5, <1>6, <1>7, <1>8, <1>9, <1>10, <1>11, <1>12, <1>13, <1>14, <1>15, <1>16, <1>17, <1>18, <1>19, <1>20, <1>21, <1>22
  DEF Next, CallerStep, MergerStep, WorkerStep, Over

\* Nobody is recorded twice.
LEMMA RecordedStep ==
    ASSUME TypeInv, Recorded, InOrder, [Next]_vars
    PROVE  Recorded'
<1>. USE DEF TypeInv, Recorded, InOrder
<1>1. ASSUME QueueSeed PROVE Recorded'
  BY <1>1 DEF QueueSeed, Room, callerVars, mergerVars, workerVars
<1>2. ASSUME StartWorkers PROVE Recorded'
  BY <1>2 DEF StartWorkers, callerVars, mergerVars, workerVars
<1>3. ASSUME WorkersJoined PROVE Recorded'
  BY <1>3 DEF WorkersJoined, callerVars, mergerVars, workerVars
<1>4. ASSUME MergerJoined PROVE Recorded'
  BY <1>4 DEF MergerJoined, callerVars, mergerVars, workerVars
<1>5. ASSUME Drain PROVE Recorded'
  BY <1>5 DEF Drain, Merged, callerVars, mergerVars, workerVars
<1>6. ASSUME Return PROVE Recorded'
  BY <1>6 DEF Return, Result, callerVars, mergerVars, workerVars
<1>7. ASSUME Merge PROVE Recorded'
  BY <1>7 DEF Merge, Merged, callerVars, mergerVars, workerVars
<1>8. ASSUME SweepBlocks PROVE Recorded'
  BY <1>8 DEF SweepBlocks, callerVars, mergerVars, workerVars
<1>9. ASSUME SweepSends PROVE Recorded'
  BY <1>9 DEF SweepSends, callerVars, mergerVars, workerVars
<1>10. ASSUME SweepAbandons PROVE Recorded'
  BY <1>10 DEF SweepAbandons, callerVars, mergerVars, workerVars
<1>11. ASSUME MergerStops PROVE Recorded'
  BY <1>11 DEF MergerStops, callerVars, mergerVars, workerVars
<1>12. ASSUME Completes PROVE Recorded'
  BY <1>12 DEF Completes, WorkerReturns, callerVars, mergerVars, workerVars
<1>13. ASSUME NEW w \in Worker, Send(w) PROVE Recorded'
  BY <1>13 DEF Send, Room, callerVars, mergerVars, workerVars
<1>14. ASSUME NEW w \in Worker, Obeys(w) PROVE Recorded'
  BY <1>14 DEF Obeys, WorkerReturns, callerVars, mergerVars, workerVars
<1>15. ASSUME NEW w \in Worker, Fails(w) PROVE Recorded'
  BY <1>15 DEF Fails, WorkerReturns, callerVars, mergerVars, workerVars
<1>16. ASSUME NEW w \in Worker, Quits(w) PROVE Recorded'
  BY <1>16 DEF Quits, WorkerReturns, callerVars, mergerVars, workerVars
<1>17. ASSUME NEW w \in Worker, Classify(w) PROVE Recorded'
  BY <1>17 DEF Classify, IsFailure, ContextError, Unexpected, Nil, callerVars, mergerVars, workerVars
<1>18. ASSUME NEW w \in Worker, Record(w) PROVE Recorded'
  <2>1. errs' = Append(errs, w) /\ worker' = [worker EXCEPT ![w] = "cancelling"] /\ worker[w] = "recording"
    BY <1>18 DEF Record
  <2>2. \A n \in DOMAIN errs : errs[n] # w
    BY <2>1
  <2>3. \A n \in DOMAIN errs' : (n \in DOMAIN errs /\ errs'[n] = errs[n]) \/ (n = Len(errs) + 1 /\ errs'[n] = w)
    BY <2>1
  <2>4. \A n \in DOMAIN errs' : worker'[errs'[n]] \in {"cancelling", "finishing", "done"}
    BY <2>1, <2>2, <2>3
  <2>5. \A n, k \in DOMAIN errs' : errs'[n] = errs'[k] => n = k
    BY <2>2, <2>3
  <2>. QED
    BY <2>4, <2>5
<1>19. ASSUME NEW w \in Worker, CancelOthers(w) PROVE Recorded'
  BY <1>19 DEF CancelOthers, callerVars, mergerVars, workerVars
<1>20. ASSUME NEW w \in Worker, Finish(w) PROVE Recorded'
  BY <1>20 DEF Finish, callerVars, mergerVars, workerVars
<1>21. ASSUME ParentCancels PROVE Recorded'
  BY <1>21 DEF ParentCancels, callerVars, mergerVars, workerVars
<1>22. ASSUME UNCHANGED vars PROVE Recorded'
  BY <1>22 DEF vars
<1>. QED
  BY <1>1, <1>2, <1>3, <1>4, <1>5, <1>6, <1>7, <1>8, <1>9, <1>10, <1>11, <1>12, <1>13, <1>14, <1>15, <1>16, <1>17, <1>18, <1>19, <1>20, <1>21, <1>22
  DEF Next, CallerStep, MergerStep, WorkerStep, Over

\* No worker sends while a seed is to come.
LEMMA InOrderStep ==
    ASSUME TypeInv, InOrder, [Next]_vars
    PROVE  InOrder'
<1>. USE DEF TypeInv, InOrder
<1>1. ASSUME QueueSeed PROVE InOrder'
  BY <1>1 DEF QueueSeed, Room, callerVars, mergerVars, workerVars
<1>2. ASSUME StartWorkers PROVE InOrder'
  BY <1>2 DEF StartWorkers, callerVars, mergerVars, workerVars
<1>3. ASSUME WorkersJoined PROVE InOrder'
  BY <1>3 DEF WorkersJoined, callerVars, mergerVars, workerVars
<1>4. ASSUME MergerJoined PROVE InOrder'
  BY <1>4 DEF MergerJoined, callerVars, mergerVars, workerVars
<1>5. ASSUME Drain PROVE InOrder'
  BY <1>5 DEF Drain, Merged, callerVars, mergerVars, workerVars
<1>6. ASSUME Return PROVE InOrder'
  BY <1>6 DEF Return, Result, callerVars, mergerVars, workerVars
<1>7. ASSUME Merge PROVE InOrder'
  BY <1>7 DEF Merge, Merged, callerVars, mergerVars, workerVars
<1>8. ASSUME SweepBlocks PROVE InOrder'
  BY <1>8 DEF SweepBlocks, callerVars, mergerVars, workerVars
<1>9. ASSUME SweepSends PROVE InOrder'
  BY <1>9 DEF SweepSends, callerVars, mergerVars, workerVars
<1>10. ASSUME SweepAbandons PROVE InOrder'
  BY <1>10 DEF SweepAbandons, callerVars, mergerVars, workerVars
<1>11. ASSUME MergerStops PROVE InOrder'
  BY <1>11 DEF MergerStops, callerVars, mergerVars, workerVars
<1>12. ASSUME Completes PROVE InOrder'
  BY <1>12 DEF Completes, WorkerReturns, callerVars, mergerVars, workerVars
<1>13. ASSUME NEW w \in Worker, Send(w) PROVE InOrder'
  BY <1>13 DEF Send, Room, callerVars, mergerVars, workerVars
<1>14. ASSUME NEW w \in Worker, Obeys(w) PROVE InOrder'
  BY <1>14 DEF Obeys, WorkerReturns, callerVars, mergerVars, workerVars
<1>15. ASSUME NEW w \in Worker, Fails(w) PROVE InOrder'
  BY <1>15 DEF Fails, WorkerReturns, callerVars, mergerVars, workerVars
<1>16. ASSUME NEW w \in Worker, Quits(w) PROVE InOrder'
  BY <1>16 DEF Quits, WorkerReturns, callerVars, mergerVars, workerVars
<1>17. ASSUME NEW w \in Worker, Classify(w) PROVE InOrder'
  BY <1>17 DEF Classify, IsFailure, ContextError, Unexpected, Nil, callerVars, mergerVars, workerVars
<1>18. ASSUME NEW w \in Worker, Record(w) PROVE InOrder'
  BY <1>18 DEF Record, callerVars, mergerVars, workerVars
<1>19. ASSUME NEW w \in Worker, CancelOthers(w) PROVE InOrder'
  BY <1>19 DEF CancelOthers, callerVars, mergerVars, workerVars
<1>20. ASSUME NEW w \in Worker, Finish(w) PROVE InOrder'
  BY <1>20 DEF Finish, callerVars, mergerVars, workerVars
<1>21. ASSUME ParentCancels PROVE InOrder'
  BY <1>21 DEF ParentCancels, callerVars, mergerVars, workerVars
<1>22. ASSUME UNCHANGED vars PROVE InOrder'
  BY <1>22 DEF vars
<1>. QED
  BY <1>1, <1>2, <1>3, <1>4, <1>5, <1>6, <1>7, <1>8, <1>9, <1>10, <1>11, <1>12, <1>13, <1>14, <1>15, <1>16, <1>17, <1>18, <1>19, <1>20, <1>21, <1>22
  DEF Next, CallerStep, MergerStep, WorkerStep, Over

\* Nobody comes back after runWorkers has waited for it.
LEMMA JoinedStep ==
    ASSUME TypeInv, Joined, [Next]_vars
    PROVE  Joined'
<1>. USE DEF TypeInv, Joined
<1>1. ASSUME QueueSeed PROVE Joined'
  BY <1>1 DEF QueueSeed, Room, callerVars, mergerVars, workerVars
<1>2. ASSUME StartWorkers PROVE Joined'
  BY <1>2 DEF StartWorkers, callerVars, mergerVars, workerVars
<1>3. ASSUME WorkersJoined PROVE Joined'
  BY <1>3 DEF WorkersJoined, callerVars, mergerVars, workerVars
<1>4. ASSUME MergerJoined PROVE Joined'
  BY <1>4 DEF MergerJoined, callerVars, mergerVars, workerVars
<1>5. ASSUME Drain PROVE Joined'
  BY <1>5 DEF Drain, Merged, callerVars, mergerVars, workerVars
<1>6. ASSUME Return PROVE Joined'
  BY <1>6 DEF Return, Result, callerVars, mergerVars, workerVars
<1>7. ASSUME Merge PROVE Joined'
  BY <1>7 DEF Merge, Merged, callerVars, mergerVars, workerVars
<1>8. ASSUME SweepBlocks PROVE Joined'
  BY <1>8 DEF SweepBlocks, callerVars, mergerVars, workerVars
<1>9. ASSUME SweepSends PROVE Joined'
  BY <1>9 DEF SweepSends, callerVars, mergerVars, workerVars
<1>10. ASSUME SweepAbandons PROVE Joined'
  BY <1>10 DEF SweepAbandons, callerVars, mergerVars, workerVars
<1>11. ASSUME MergerStops PROVE Joined'
  BY <1>11 DEF MergerStops, callerVars, mergerVars, workerVars
<1>12. ASSUME Completes PROVE Joined'
  BY <1>12 DEF Completes, WorkerReturns, callerVars, mergerVars, workerVars
<1>13. ASSUME NEW w \in Worker, Send(w) PROVE Joined'
  BY <1>13 DEF Send, Room, callerVars, mergerVars, workerVars
<1>14. ASSUME NEW w \in Worker, Obeys(w) PROVE Joined'
  BY <1>14 DEF Obeys, WorkerReturns, callerVars, mergerVars, workerVars
<1>15. ASSUME NEW w \in Worker, Fails(w) PROVE Joined'
  BY <1>15 DEF Fails, WorkerReturns, callerVars, mergerVars, workerVars
<1>16. ASSUME NEW w \in Worker, Quits(w) PROVE Joined'
  BY <1>16 DEF Quits, WorkerReturns, callerVars, mergerVars, workerVars
<1>17. ASSUME NEW w \in Worker, Classify(w) PROVE Joined'
  BY <1>17 DEF Classify, IsFailure, ContextError, Unexpected, Nil, callerVars, mergerVars, workerVars
<1>18. ASSUME NEW w \in Worker, Record(w) PROVE Joined'
  BY <1>18 DEF Record, callerVars, mergerVars, workerVars
<1>19. ASSUME NEW w \in Worker, CancelOthers(w) PROVE Joined'
  BY <1>19 DEF CancelOthers, callerVars, mergerVars, workerVars
<1>20. ASSUME NEW w \in Worker, Finish(w) PROVE Joined'
  BY <1>20 DEF Finish, callerVars, mergerVars, workerVars
<1>21. ASSUME ParentCancels PROVE Joined'
  BY <1>21 DEF ParentCancels, callerVars, mergerVars, workerVars
<1>22. ASSUME UNCHANGED vars PROVE Joined'
  BY <1>22 DEF vars
<1>. QED
  BY <1>1, <1>2, <1>3, <1>4, <1>5, <1>6, <1>7, <1>8, <1>9, <1>10, <1>11, <1>12, <1>13, <1>14, <1>15, <1>16, <1>17, <1>18, <1>19, <1>20, <1>21, <1>22
  DEF Next, CallerStep, MergerStep, WorkerStep, Over

\* ctx never becomes undone.
LEMMA ExcusedStep ==
    ASSUME TypeInv, Excused, [Next]_vars
    PROVE  Excused'
<1>. USE DEF TypeInv, Excused
<1>1. ASSUME QueueSeed PROVE Excused'
  BY <1>1 DEF QueueSeed, Room, callerVars, mergerVars, workerVars
<1>2. ASSUME StartWorkers PROVE Excused'
  BY <1>2 DEF StartWorkers, callerVars, mergerVars, workerVars
<1>3. ASSUME WorkersJoined PROVE Excused'
  BY <1>3 DEF WorkersJoined, callerVars, mergerVars, workerVars
<1>4. ASSUME MergerJoined PROVE Excused'
  BY <1>4 DEF MergerJoined, callerVars, mergerVars, workerVars
<1>5. ASSUME Drain PROVE Excused'
  BY <1>5 DEF Drain, Merged, callerVars, mergerVars, workerVars
<1>6. ASSUME Return PROVE Excused'
  BY <1>6 DEF Return, Result, callerVars, mergerVars, workerVars
<1>7. ASSUME Merge PROVE Excused'
  BY <1>7 DEF Merge, Merged, callerVars, mergerVars, workerVars
<1>8. ASSUME SweepBlocks PROVE Excused'
  BY <1>8 DEF SweepBlocks, callerVars, mergerVars, workerVars
<1>9. ASSUME SweepSends PROVE Excused'
  BY <1>9 DEF SweepSends, callerVars, mergerVars, workerVars
<1>10. ASSUME SweepAbandons PROVE Excused'
  BY <1>10 DEF SweepAbandons, callerVars, mergerVars, workerVars
<1>11. ASSUME MergerStops PROVE Excused'
  BY <1>11 DEF MergerStops, callerVars, mergerVars, workerVars
<1>12. ASSUME Completes PROVE Excused'
  BY <1>12 DEF Completes, WorkerReturns, callerVars, mergerVars, workerVars
<1>13. ASSUME NEW w \in Worker, Send(w) PROVE Excused'
  BY <1>13 DEF Send, Room, callerVars, mergerVars, workerVars
<1>14. ASSUME NEW w \in Worker, Obeys(w) PROVE Excused'
  BY <1>14 DEF Obeys, WorkerReturns, callerVars, mergerVars, workerVars
<1>15. ASSUME NEW w \in Worker, Fails(w) PROVE Excused'
  BY <1>15 DEF Fails, WorkerReturns, callerVars, mergerVars, workerVars
<1>16. ASSUME NEW w \in Worker, Quits(w) PROVE Excused'
  BY <1>16 DEF Quits, WorkerReturns, callerVars, mergerVars, workerVars
<1>17. ASSUME NEW w \in Worker, Classify(w) PROVE Excused'
  BY <1>17 DEF Classify, IsFailure, ContextError, Unexpected, Nil, callerVars, mergerVars, workerVars
<1>18. ASSUME NEW w \in Worker, Record(w) PROVE Excused'
  BY <1>18 DEF Record, callerVars, mergerVars, workerVars
<1>19. ASSUME NEW w \in Worker, CancelOthers(w) PROVE Excused'
  BY <1>19 DEF CancelOthers, callerVars, mergerVars, workerVars
<1>20. ASSUME NEW w \in Worker, Finish(w) PROVE Excused'
  BY <1>20 DEF Finish, callerVars, mergerVars, workerVars
<1>21. ASSUME ParentCancels PROVE Excused'
  BY <1>21 DEF ParentCancels, callerVars, mergerVars, workerVars
<1>22. ASSUME UNCHANGED vars PROVE Excused'
  BY <1>22 DEF vars
<1>. QED
  BY <1>1, <1>2, <1>3, <1>4, <1>5, <1>6, <1>7, <1>8, <1>9, <1>10, <1>11, <1>12, <1>13, <1>14, <1>15, <1>16, <1>17, <1>18, <1>19, <1>20, <1>21, <1>22
  DEF Next, CallerStep, MergerStep, WorkerStep, Over

\* A worker is judged by its outcome, which is final.
LEMMA DeservedStep ==
    ASSUME TypeInv, Recorded, Excused, Deserved, [Next]_vars
    PROVE  Deserved'
<1>. USE DEF TypeInv, Recorded, Excused, Deserved
<1>1. ASSUME QueueSeed PROVE Deserved'
  BY <1>1 DEF QueueSeed, Room, callerVars, mergerVars, workerVars
<1>2. ASSUME StartWorkers PROVE Deserved'
  BY <1>2 DEF StartWorkers, callerVars, mergerVars, workerVars
<1>3. ASSUME WorkersJoined PROVE Deserved'
  BY <1>3 DEF WorkersJoined, callerVars, mergerVars, workerVars
<1>4. ASSUME MergerJoined PROVE Deserved'
  BY <1>4 DEF MergerJoined, callerVars, mergerVars, workerVars
<1>5. ASSUME Drain PROVE Deserved'
  BY <1>5 DEF Drain, Merged, callerVars, mergerVars, workerVars
<1>6. ASSUME Return PROVE Deserved'
  BY <1>6 DEF Return, Result, callerVars, mergerVars, workerVars
<1>7. ASSUME Merge PROVE Deserved'
  BY <1>7 DEF Merge, Merged, callerVars, mergerVars, workerVars
<1>8. ASSUME SweepBlocks PROVE Deserved'
  BY <1>8 DEF SweepBlocks, callerVars, mergerVars, workerVars
<1>9. ASSUME SweepSends PROVE Deserved'
  BY <1>9 DEF SweepSends, callerVars, mergerVars, workerVars
<1>10. ASSUME SweepAbandons PROVE Deserved'
  BY <1>10 DEF SweepAbandons, callerVars, mergerVars, workerVars
<1>11. ASSUME MergerStops PROVE Deserved'
  BY <1>11 DEF MergerStops, callerVars, mergerVars, workerVars
<1>12. ASSUME Completes PROVE Deserved'
  BY <1>12 DEF Completes, WorkerReturns, callerVars, mergerVars, workerVars
<1>13. ASSUME NEW w \in Worker, Send(w) PROVE Deserved'
  BY <1>13 DEF Send, Room, callerVars, mergerVars, workerVars
<1>14. ASSUME NEW w \in Worker, Obeys(w) PROVE Deserved'
  BY <1>14 DEF Obeys, WorkerReturns, callerVars, mergerVars, workerVars
<1>15. ASSUME NEW w \in Worker, Fails(w) PROVE Deserved'
  BY <1>15 DEF Fails, WorkerReturns, callerVars, mergerVars, workerVars
<1>16. ASSUME NEW w \in Worker, Quits(w) PROVE Deserved'
  BY <1>16 DEF Quits, WorkerReturns, callerVars, mergerVars, workerVars
<1>17. ASSUME NEW w \in Worker, Classify(w) PROVE Deserved'
  BY <1>17 DEF Classify, IsFailure, ContextError, Unexpected, Nil, callerVars, mergerVars, workerVars
<1>18. ASSUME NEW w \in Worker, Record(w) PROVE Deserved'
  BY <1>18 DEF Record, callerVars, mergerVars, workerVars
<1>19. ASSUME NEW w \in Worker, CancelOthers(w) PROVE Deserved'
  BY <1>19 DEF CancelOthers, callerVars, mergerVars, workerVars
<1>20. ASSUME NEW w \in Worker, Finish(w) PROVE Deserved'
  BY <1>20 DEF Finish, callerVars, mergerVars, workerVars
<1>21. ASSUME ParentCancels PROVE Deserved'
  BY <1>21 DEF ParentCancels, callerVars, mergerVars, workerVars
<1>22. ASSUME UNCHANGED vars PROVE Deserved'
  BY <1>22 DEF vars
<1>. QED
  BY <1>1, <1>2, <1>3, <1>4, <1>5, <1>6, <1>7, <1>8, <1>9, <1>10, <1>11, <1>12, <1>13, <1>14, <1>15, <1>16, <1>17, <1>18, <1>19, <1>20, <1>21, <1>22
  DEF Next, CallerStep, MergerStep, WorkerStep, Over

\* A scan that is not spoilt ended by its active worker.
LEMMA AccountedStep ==
    ASSUME TypeInv, Recorded, InOrder, Joined, Accounted, [Next]_vars
    PROVE  Accounted'
<1>. USE DEF TypeInv, Recorded, InOrder, Joined, Accounted, Spoilt
<1>1. ASSUME QueueSeed PROVE Accounted'
  BY <1>1 DEF QueueSeed, Room, callerVars, mergerVars, workerVars
<1>2. ASSUME StartWorkers PROVE Accounted'
  BY <1>2 DEF StartWorkers, callerVars, mergerVars, workerVars
<1>3. ASSUME WorkersJoined PROVE Accounted'
  BY <1>3 DEF WorkersJoined, callerVars, mergerVars, workerVars
<1>4. ASSUME MergerJoined PROVE Accounted'
  BY <1>4 DEF MergerJoined, callerVars, mergerVars, workerVars
<1>5. ASSUME Drain PROVE Accounted'
  BY <1>5 DEF Drain, Merged, callerVars, mergerVars, workerVars
<1>6. ASSUME Return PROVE Accounted'
  BY <1>6 DEF Return, workerVars
<1>7. ASSUME Merge PROVE Accounted'
  BY <1>7 DEF Merge, Merged, callerVars, mergerVars, workerVars
<1>8. ASSUME SweepBlocks PROVE Accounted'
  BY <1>8 DEF SweepBlocks, callerVars, mergerVars, workerVars
<1>9. ASSUME SweepSends PROVE Accounted'
  BY <1>9 DEF SweepSends, callerVars, mergerVars, workerVars
<1>10. ASSUME SweepAbandons PROVE Accounted'
  BY <1>10 DEF SweepAbandons, callerVars, mergerVars, workerVars
<1>11. ASSUME MergerStops PROVE Accounted'
  BY <1>11 DEF MergerStops, callerVars, mergerVars, workerVars
<1>12. ASSUME Completes PROVE Accounted'
  BY <1>12 DEF Completes, WorkerReturns, callerVars, mergerVars, workerVars
<1>13. ASSUME NEW w \in Worker, Send(w) PROVE Accounted'
  BY <1>13 DEF Send, Room, callerVars, mergerVars, workerVars
<1>14. ASSUME NEW w \in Worker, Obeys(w) PROVE Accounted'
  BY <1>14 DEF Obeys, WorkerReturns, callerVars, mergerVars, workerVars
<1>15. ASSUME NEW w \in Worker, Fails(w) PROVE Accounted'
  BY <1>15 DEF Fails, WorkerReturns, callerVars, mergerVars, workerVars
<1>16. ASSUME NEW w \in Worker, Quits(w) PROVE Accounted'
  BY <1>16 DEF Quits, WorkerReturns, callerVars, mergerVars, workerVars
<1>17. ASSUME NEW w \in Worker, Classify(w) PROVE Accounted'
  BY <1>17 DEF Classify, IsFailure, ContextError, Unexpected, Nil, callerVars, mergerVars, workerVars
<1>18. ASSUME NEW w \in Worker, Record(w) PROVE Accounted'
  BY <1>18 DEF Record, callerVars, mergerVars, workerVars
<1>19. ASSUME NEW w \in Worker, CancelOthers(w) PROVE Accounted'
  BY <1>19 DEF CancelOthers, callerVars, mergerVars, workerVars
<1>20. ASSUME NEW w \in Worker, Finish(w) PROVE Accounted'
  BY <1>20 DEF Finish, callerVars, mergerVars, workerVars
<1>21. ASSUME ParentCancels PROVE Accounted'
  BY <1>21 DEF ParentCancels, callerVars, mergerVars, workerVars
<1>22. ASSUME UNCHANGED vars PROVE Accounted'
  BY <1>22 DEF vars
<1>. QED
  BY <1>1, <1>2, <1>3, <1>4, <1>5, <1>6, <1>7, <1>8, <1>9, <1>10, <1>11, <1>12, <1>13, <1>14, <1>15, <1>16, <1>17, <1>18, <1>19, <1>20, <1>21, <1>22
  DEF Next, CallerStep, MergerStep, WorkerStep, Over

\* What Return makes of the errs channel and of the parent context.
LEMMA Results ==
    ASSUME TypeInv
    PROVE  /\ Result = "nil" <=> ~Spoilt
           /\ Result \in Worker <=> errs # <<>>
           /\ Result \in Worker \cup {"nil", "canceled"}
<1>1. errs # <<>> => Head(errs) \in Worker
  BY DEF TypeInv
<1>. QED
  BY <1>1 DEF Result, Spoilt

\* When runWorkers has returned nobody is left who could take a step.
LEMMA NothingFollows ==
    ASSUME Joined, [Next]_vars, caller = "returned"
    PROVE  UNCHANGED vars
<1>1. ~Completes /\ \A w \in Worker : ~WorkerStep(w)
  BY DEF Joined, Completes, WorkerStep, Send, Obeys, Fails, Quits, WorkerReturns, Classify,
         Record, CancelOthers, Finish
<1>2. ~CallerStep /\ ~MergerStep /\ ~ParentCancels
  BY DEF Joined, CallerStep, QueueSeed, StartWorkers, WorkersJoined, MergerJoined, Drain,
         Return, MergerStep, Merge, SweepBlocks, SweepSends, SweepAbandons, MergerStops,
         ParentCancels
<1>. QED
  BY <1>1, <1>2 DEF Next, Over

\* The mode never changes, a cancelled parent stays so, and only Return has a result.
LEMMA OnlyReturnReturns ==
    ASSUME [Next]_vars
    PROVE  /\ UNCHANGED once
           /\ parentDone => parentDone'
           /\ ~Return => /\ UNCHANGED result
                         /\ caller' = "returned" => caller = "returned"
BY DEF Next, CallerStep, QueueSeed, StartWorkers, WorkersJoined, MergerJoined, Drain, Return,
       MergerStep, Merge, SweepBlocks, SweepSends, SweepAbandons, MergerStops, Completes,
       WorkerStep, Send, Obeys, Fails, Quits, WorkerReturns, Classify, Record, CancelOthers,
       Finish, ParentCancels, Over, vars, callerVars

\* A success is returned once, and after that nobody records anything.
LEMMA UnspoiltStep ==
    ASSUME TypeInv, Joined, Unspoilt, [Next]_vars
    PROVE  Unspoilt'
<1>1. CASE Return
  BY <1>1, Results DEF Return, Unspoilt, Spoilt, workerVars
<1>2. CASE caller = "returned"
  BY <1>2, NothingFollows DEF Unspoilt, Spoilt, vars
<1>3. CASE ~Return /\ caller # "returned"
  BY <1>3, OnlyReturnReturns DEF Unspoilt
<1>. QED
  BY <1>1, <1>2, <1>3

LEMMA InvHolds == Spec => []Inv
<1>1. Init => Inv
  <2>. SUFFICES ASSUME Init PROVE Inv
    OBVIOUS
  <2>1. TypeInv
    <3>1. updates \in Seq({"seed", "live"}) /\ Len(updates) = 0 /\ errs \in Seq(Worker)
      BY DEF Init
    <3>2. worker \in [Worker -> Goroutine] /\ outcome \in [Worker -> Outcome]
      BY DEF Init, Goroutine, Outcome
    <3>3. seedsLeft \in 0..Seeds /\ hostsLeft \in 0..Hosts /\ 0 <= UpdatesCap
      BY DEF Init
    <3>. QED
      BY <3>1, <3>2, <3>3 DEF Init, TypeInv, Caller
  <2>2. Recorded /\ Excused /\ Deserved
    BY DEF Init, Recorded, Excused, Deserved
  <2>3. InOrder /\ Joined
    BY DEF Init, InOrder, Joined
  <2>4. Accounted /\ Unspoilt
    BY DEF Init, Accounted, Unspoilt
  <2>. QED
    BY <2>1, <2>2, <2>3, <2>4 DEF Inv
<1>2. Inv /\ [Next]_vars => Inv'
  BY TypeStep, RecordedStep, InOrderStep, JoinedStep, ExcusedStep, DeservedStep, AccountedStep,
     UnspoiltStep
  DEF Inv
<1>. QED
  BY <1>1, <1>2, PTL DEF Spec

----------------------------------------------------------------------------
(* The theorems *)

\* Every reachable state of runWorkers has its types.  The errs channel (scanner.go:111) has
\* room for every worker and each records itself once, so that line 121 never blocks.
THEOREM ScannerTypeCorrect == Spec => []TypeOK
<1>1. ASSUME TypeInv, Recorded PROVE Len(errs) <= Cardinality(Worker)
  <2>. DEFINE places == 1..Len(errs)
  <2>1. places = DOMAIN errs /\ Len(errs) \in Nat /\ errs \in [places -> Worker]
    BY <1>1 DEF TypeInv
  <2>2. errs \in Injection(places, Worker)
    BY <1>1, <2>1 DEF Recorded, Injection, IsInjective
  <2>3. IsFiniteSet(places) /\ Cardinality(places) = Len(errs)
    BY <2>1, FS_Interval
  <2>. QED
    BY <2>2, <2>3, FS_Injection
<1>2. Inv => TypeOK
  BY <1>1 DEF Inv, TypeInv, TypeOK
<1>. QED
  BY <1>2, InvHolds, PTL

\* However a scan ends, when its events are closed no update is left, and nobody runs who
\* could send another one.
THEOREM NobodyLeftBehind == Spec => []NothingLeftBehind
<1>1. Inv => NothingLeftBehind
  BY DEF Inv, Joined, NothingLeftBehind
<1>. QED
  BY <1>1, InvHolds, PTL

\* When every worker is done and nothing spoilt the scan, the sweep was what ended it.
LEMMA UnspoiltIsComplete ==
    ASSUME Accounted, ~Spoilt, \A w \in Worker : worker[w] = "done"
    PROVE  once /\ hostsLeft = 0 /\ \A w \in Worker : outcome[w] # "failure"
<1>1. Active \in Worker /\ outcome[Active] # "none"
  BY DEF Accounted
<1>2. once /\ hostsLeft = 0
  BY <1>1 DEF Accounted
<1>3. \A w \in Worker : outcome[w] # "failure"
  BY DEF Accounted, Spoilt
<1>. QED
  BY <1>2, <1>3

\* Whichever worker ends first and for whatever reason, success means that the sweep of a
\* one-shot scan was finished and that nothing failed.
THEOREM SuccessMeansComplete == Spec => []SuccessIsComplete
<1>1. ASSUME Inv, result = "nil" PROVE once /\ hostsLeft = 0 /\ \A w \in Worker : outcome[w] # "failure"
  <2>1. ~Spoilt /\ \A w \in Worker : worker[w] = "done"
    BY <1>1 DEF Inv, Unspoilt, Joined
  <2>. QED
    BY <1>1, <2>1, UnspoiltIsComplete DEF Inv
<1>2. Inv => SuccessIsComplete
  BY <1>1 DEF SuccessIsComplete
<1>. QED
  BY <1>2, InvHolds, PTL

\* Between its return and the reads of ctx.Err a cancellation can turn no clean return into
\* a blamed one.
THEOREM NobodyIsBlamedInVain == Spec => []BlameIsDeserved
<1>1. Inv => BlameIsDeserved
  BY DEF Inv, Deserved, BlameIsDeserved
<1>. QED
  BY <1>1, InvHolds, PTL

\* For any number of cached neighbours and any size of the channel, they are merged before
\* any observation.
THEOREM SeedsComeFirst == Spec => []SeedsFirst
<1>1. Inv => SeedsFirst
  BY DEF Inv, InOrder, SeedsFirst
<1>. QED
  BY <1>1, InvHolds, PTL
=============================================================================
