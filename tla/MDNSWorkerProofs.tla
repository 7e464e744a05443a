-------------------------- MODULE MDNSWorkerProofs --------------------------
(***************************************************************************)
(* Theorems about MDNSWorker: its types, and that a session leaves nothing *)
(* behind, for every set of services and instances and every buffer size.  *)
(***************************************************************************)
EXTENDS MDNSWorker, TLAPS

----------------------------------------------------------------------------
(* Type correctness *)

\* The empty channels of a session that has not begun.
LEMMA EmptyEntries ==
    /\ [s \in Service |-> <<>>] \in [Service -> Seq(Instance)]
    /\ Len(<<>>) <= EntriesCap
BY BufferAssumption

LEMMA TypeOKInit == Init => TypeOK
<1>. SUFFICES ASSUME Init PROVE TypeOK
  OBVIOUS
<1>1. /\ entries \in [Service -> Seq(Instance)]
      /\ \A s \in Service : Len(entries[s]) <= EntriesCap
  BY EmptyEntries DEF Init
<1>2. out \in 0..OutCap
  BY BufferAssumption DEF Init
<1>. QED
  BY <1>1, <1>2 DEF Init, TypeOK, Nobody

LEMMA RunTypes == ASSUME TypeOK, RunStep PROVE TypeOK'
<1>1. CASE CancelledBefore
  BY <1>1 DEF CancelledBefore, Return, TypeOK, loopVars
<1>2. CASE Lookup
  BY <1>2 DEF Lookup, TypeOK, loopVars
<1>3. CASE NewSession
  <2>1. /\ entries' \in [Service -> Seq(Instance)]
        /\ \A s \in Service : Len(entries'[s]) <= EntriesCap
    BY <1>3, EmptyEntries DEF NewSession
  <2>. QED
    BY <1>3, <2>1 DEF NewSession, TypeOK, Nobody
<1>4. CASE LeaveLoop
  BY <1>4 DEF LeaveLoop, Return, TypeOK, loopVars
<1>5. ASSUME NEW s \in Service, Open(s) PROVE TypeOK'
  BY <1>5 DEF Open, TypeOK, loopVars
<1>6. CASE Browse
  BY <1>6 DEF Browse, TypeOK
<1>7. CASE Join
  BY <1>7 DEF Join, TypeOK, loopVars
<1>. QED
  BY <1>1, <1>2, <1>3, <1>4, <1>5, <1>6, <1>7 DEF RunStep

LEMMA EndTypes == ASSUME TypeOK, Select \/ Failure PROVE TypeOK'
<1>1. CASE Refresh
  BY <1>1 DEF Refresh, EndSession, TypeOK
<1>2. CASE SessionCancelled
  BY <1>2 DEF SessionCancelled, EndSession, TypeOK
<1>3. CASE LookupFails
  BY <1>3 DEF LookupFails, Return, TypeOK, loopVars
<1>4. CASE ResolverFails
  BY <1>4 DEF ResolverFails, EndSession, TypeOK
<1>5. CASE BrowseFails
  BY <1>5 DEF BrowseFails, EndSession, TypeOK
<1>. QED
  BY <1>1, <1>2, <1>3, <1>4, <1>5 DEF Select, Failure

LEMMA ServiceTypes ==
    ASSUME TypeOK, NEW s \in Service, ConsumerStep(s) \/ Report(s) \/ LoopStep(s)
    PROVE  TypeOK'
<1>1. CASE Take(s)
  <2>1. entries[s] \in Seq(Instance) /\ entries[s] # <<>> /\ Len(entries[s]) <= EntriesCap
    BY <1>1 DEF Take, TypeOK
  <2>2. /\ Head(entries[s]) \in Instance /\ Tail(entries[s]) \in Seq(Instance)
        /\ Len(Tail(entries[s])) <= EntriesCap
    BY <2>1, BufferAssumption
  <2>. QED
    BY <1>1, <2>2 DEF Take, TypeOK, consuming, runVars, loopVars
<1>2. CASE GiveUp(s)
  BY <1>2 DEF GiveUp, TypeOK, consuming, runVars, loopVars
<1>3. CASE Finish(s)
  BY <1>3 DEF Finish, TypeOK, consuming, runVars, loopVars
<1>4. CASE Report(s)
  <2>1. out' \in 0..OutCap
    BY <1>4, BufferAssumption DEF Report, Room, TypeOK
  <2>. QED
    BY <1>4, <2>1 DEF Report, TypeOK, consuming, runVars, loopVars
<1>5. CASE Submit(s)
  <2>1. offer[s] \in Instance /\ entries[s] \in Seq(Instance) /\ Len(entries[s]) < EntriesCap
    BY <1>5 DEF Submit, TypeOK
  <2>2. /\ Append(entries[s], offer[s]) \in Seq(Instance)
        /\ Len(Append(entries[s], offer[s])) <= EntriesCap
    BY <2>1, BufferAssumption
  <2>. QED
    BY <1>5, <2>1, <2>2 DEF Submit, TypeOK, browsing, runVars
<1>6. CASE Close(s)
  BY <1>6 DEF Close, TypeOK, browsing, runVars
<1>. QED
  BY <1>1, <1>2, <1>3, <1>4, <1>5, <1>6 DEF ConsumerStep, LoopStep

LEMMA EnvironmentTypes == ASSUME TypeOK, Environment PROVE TypeOK'
<1>1. ASSUME NEW i \in Instance, Answer(i) PROVE TypeOK'
  BY <1>1, InstanceAssumption DEF Answer, TypeOK, browsing, runVars
<1>2. ASSUME NEW i \in Instance, Appear(i) PROVE TypeOK'
  BY <1>2 DEF Appear, TypeOK, runVars, loopVars
<1>3. ASSUME NEW s \in Service, Expire(s) PROVE TypeOK'
  BY <1>3 DEF Expire, TypeOK, browsing, runVars
<1>4. CASE Tick
  BY <1>4 DEF Tick, TypeOK, runVars, loopVars
<1>5. CASE Receive
  <2>1. out' \in 0..OutCap
    BY <1>5, BufferAssumption DEF Receive, TypeOK
  <2>. QED
    BY <1>5, <2>1 DEF Receive, TypeOK, runVars, loopVars
<1>6. CASE Cancel
  BY <1>6 DEF Cancel, TypeOK, runVars, loopVars
<1>. QED
  BY <1>1, <1>2, <1>3, <1>4, <1>5, <1>6 DEF Environment

LEMMA TypeOKStep == TypeOK /\ [Next]_vars => TypeOK'
<1>. SUFFICES ASSUME TypeOK, [Next]_vars PROVE TypeOK'
  OBVIOUS
<1>1. CASE Over \/ UNCHANGED vars
  BY <1>1 DEF Over, vars, runVars, loopVars, TypeOK
<1>. QED
  BY <1>1, RunTypes, EndTypes, ServiceTypes, EnvironmentTypes DEF Next

\* The state always has its types; no channel outgrows its buffer.
THEOREM MDNSTypeCorrect == Spec => []TypeOK
<1>. QED
  BY TypeOKInit, TypeOKStep, PTL DEF Spec

----------------------------------------------------------------------------
(* A session leaves nothing behind *)

\* How far the goroutine, the main loop and the channel of a service are, together:
\* a goroutine ends after its main loop, and neither exists before the type is opened.
Phase(s) ==
    /\ consumer[s] = "off" => loop[s] = "off"
    /\ consumer[s] = "done" => loop[s] = "closed" /\ entries[s] = <<>>
    /\ ~Live(s) => offer[s] = None
    /\ loop[s] = "off" => entries[s] = <<>>
    /\ opening = s => consumer[s] = "ranging" /\ loop[s] = "off"
    /\ s \in todo => consumer[s] = "off"

JoinInv ==
    /\ TypeOK
    /\ \A s \in Service : Phase(s)
    /\ SessionIsJoined

LEMMA JoinInvInit == Init => JoinInv
<1>. SUFFICES ASSUME Init PROVE JoinInv
  OBVIOUS
<1>1. ASSUME NEW s \in Service PROVE Phase(s) /\ ~Live(s) /\ offer[s] = None
  BY NamesAssumption DEF Init, Nobody, Phase, Live
<1>2. SessionIsJoined
  BY <1>1 DEF Init, SessionIsJoined
<1>. QED
  BY <1>1, <1>2, TypeOKInit DEF JoinInv

\* The steps of runWithRefresh and browseSession.
LEMMA RunJoins == ASSUME JoinInv, RunStep PROVE JoinInv'
<1>. USE DEF JoinInv
<1>0. TypeOK'
  BY RunTypes
<1>1. CASE CancelledBefore \/ LeaveLoop
  <2>1. /\ cancelled /\ cancelled' = cancelled /\ run \in {"start", "looping"}
        /\ UNCHANGED <<todo, opening, loop, offer, entries, consumer>>
    BY <1>1 DEF CancelledBefore, LeaveLoop, Return, loopVars
  <2>2. SessionIsJoined' /\ \A s \in Service : Phase(s)'
    BY <2>1 DEF SessionIsJoined, Phase, Live
  <2>. QED
    BY <1>0, <2>1, <2>2
<1>2. CASE Lookup
  BY <1>0, <1>2 DEF Lookup, loopVars, SessionIsJoined, Phase, Live
<1>3. CASE NewSession
  <2>1. \A s \in Service : Phase(s)'
    BY <1>3, NamesAssumption DEF NewSession, Phase, Live, Nobody
  <2>. QED
    BY <1>0, <1>3, <2>1 DEF NewSession, SessionIsJoined
<1>4. ASSUME NEW t \in Service, Open(t) PROVE JoinInv'
  <2>1. \A s \in Service : Phase(s)'
    BY <1>4 DEF Open, loopVars, Phase, Live, TypeOK
  <2>. QED
    BY <1>0, <1>4, <2>1 DEF Open, SessionIsJoined
<1>5. CASE Browse
  <2>1. \A s \in Service : Phase(s)'
    BY <1>5, NamesAssumption DEF Browse, Phase, Live, TypeOK
  <2>. QED
    BY <1>0, <1>5, <2>1 DEF Browse, SessionIsJoined
<1>6. CASE Join
  <2>1. UNCHANGED <<todo, opening, loop, offer, entries, consumer, cancelled>>
    BY <1>6 DEF Join, loopVars
  <2>2. \A s \in Service : Phase(s)'
    BY <2>1 DEF Phase, Live
  <2>3. \A s \in Service : /\ consumer[s] \in {"off", "done"}
                           /\ ~Live(s) /\ offer[s] = None /\ entries[s] = <<>>
    BY <1>6 DEF Join, Phase, Live
  <2>4. SessionIsJoined'
    BY <2>1, <2>3 DEF SessionIsJoined, Live
  <2>. QED
    BY <1>0, <2>2, <2>4
<1>. QED
  BY <1>1, <1>2, <1>3, <1>4, <1>5, <1>6 DEF RunStep

LEMMA EndJoins == ASSUME JoinInv, Select \/ Failure PROVE JoinInv'
<1>. USE DEF JoinInv
<1>0. TypeOK'
  BY EndTypes
<1>1. CASE Refresh \/ SessionCancelled \/ ResolverFails
  <2>1. /\ run' = "joining"
        /\ UNCHANGED <<todo, opening, loop, offer, entries, consumer, cancelled, result>>
    BY <1>1 DEF Refresh, SessionCancelled, ResolverFails, EndSession
  <2>. QED
    BY <1>0, <2>1 DEF Phase, Live, SessionIsJoined
<1>2. CASE LookupFails
  BY <1>0, <1>2 DEF LookupFails, Return, loopVars, Phase, Live, SessionIsJoined
<1>3. CASE BrowseFails
  <2>1. \A s \in Service : Phase(s)'
    BY <1>3, NamesAssumption DEF BrowseFails, EndSession, Phase, Live, TypeOK
  <2>. QED
    BY <1>0, <1>3, <2>1 DEF BrowseFails, EndSession, SessionIsJoined
<1>. QED
  BY <1>1, <1>2, <1>3 DEF Select, Failure

\* A goroutine or a main loop moves: then the session is not over.
LEMMA ServiceJoins ==
    ASSUME JoinInv, NEW t \in Service, ConsumerStep(t) \/ Report(t) \/ LoopStep(t)
    PROVE  JoinInv'
<1>. USE DEF JoinInv
<1>0. TypeOK'
  BY ServiceTypes
<1>1. UNCHANGED <<run, result, cancelled, todo, opening>>
  BY DEF ConsumerStep, Take, GiveUp, Finish, Report, LoopStep, Submit, Close,
         consuming, browsing, runVars
<1>2. run \notin {"start", "looping", "returned"}
  <2>1. CASE ConsumerStep(t) \/ Report(t)
    BY <2>1, NamesAssumption DEF ConsumerStep, Take, GiveUp, Finish, Report, SessionIsJoined
  <2>2. CASE LoopStep(t)
    BY <2>2 DEF LoopStep, Submit, Close, SessionIsJoined
  <2>. QED
    BY <2>1, <2>2
<1>3. \A s \in Service : Phase(s)'
  <2>1. CASE Take(t)
    BY <1>1, <2>1, NamesAssumption DEF Take, consuming, loopVars, Phase, Live, TypeOK
  <2>2. CASE GiveUp(t) \/ Report(t)
    <3>1. /\ consumer[t] \in Instance /\ consumer' = [consumer EXCEPT ![t] = "ranging"]
          /\ UNCHANGED <<loop, offer, entries>>
      BY <2>2 DEF GiveUp, Report, consuming, loopVars
    <3>. QED
      BY <1>1, <3>1, NamesAssumption DEF Phase, Live, TypeOK
  <2>3. CASE Finish(t)
    BY <1>1, <2>3 DEF Finish, consuming, loopVars, Phase, Live, TypeOK
  <2>4. CASE Submit(t)
    BY <1>1, <2>4 DEF Submit, browsing, Phase, Live, TypeOK
  <2>5. CASE Close(t)
    BY <1>1, <2>5 DEF Close, browsing, Phase, Live, TypeOK
  <2>. QED
    BY <2>1, <2>2, <2>3, <2>4, <2>5 DEF ConsumerStep, LoopStep
<1>. QED
  BY <1>0, <1>1, <1>2, <1>3 DEF SessionIsJoined

LEMMA EnvironmentJoins == ASSUME JoinInv, Environment PROVE JoinInv'
<1>. USE DEF JoinInv
<1>0. TypeOK'
  BY EnvironmentTypes
<1>1. ASSUME NEW i \in Instance, Answer(i) PROVE JoinInv'
  <2>1. ServiceOf[i] \in Service /\ Live(ServiceOf[i])
    BY <1>1, InstanceAssumption DEF Answer
  <2>2. run \notin {"start", "looping", "returned"}
    BY <2>1 DEF SessionIsJoined
  <2>3. \A s \in Service : Phase(s)'
    BY <1>1, <2>1 DEF Answer, browsing, runVars, Phase, Live, TypeOK
  <2>. QED
    BY <1>0, <1>1, <2>2, <2>3 DEF Answer, browsing, runVars, SessionIsJoined
<1>2. ASSUME NEW t \in Service, Expire(t) PROVE JoinInv'
  <2>1. run \notin {"start", "looping", "returned"}
    BY <1>2 DEF Expire, SessionIsJoined, Live
  <2>2. \A s \in Service : Phase(s)'
    BY <1>2 DEF Expire, browsing, runVars, Phase, Live, TypeOK
  <2>. QED
    BY <1>0, <1>2, <2>1, <2>2 DEF Expire, browsing, runVars, SessionIsJoined
<1>3. CASE Tick \/ Receive \/ Cancel \/ \E i \in Instance : Appear(i)
  <2>1. /\ UNCHANGED <<run, result, todo, opening, loop, offer, entries, consumer>>
        /\ cancelled => cancelled'
    BY <1>3 DEF Tick, Receive, Cancel, Appear, runVars, loopVars
  <2>. QED
    BY <1>0, <2>1 DEF Phase, Live, SessionIsJoined
<1>. QED
  BY <1>1, <1>2, <1>3 DEF Environment

LEMMA JoinInvStep == JoinInv /\ [Next]_vars => JoinInv'
<1>. SUFFICES ASSUME JoinInv, [Next]_vars PROVE JoinInv'
  OBVIOUS
<1>1. CASE Over \/ UNCHANGED vars
  BY <1>1, TypeOKStep
     DEF Over, vars, runVars, loopVars, JoinInv, Phase, Live, SessionIsJoined
<1>. QED
  BY <1>1, RunJoins, EndJoins, ServiceJoins, EnvironmentJoins DEF Next

\* When a session is over, none of its goroutines can send an update and none of its
\* main loops waits in a send or competes with the next session's.
THEOREM SessionsAreJoined == Spec => []SessionIsJoined
<1>1. JoinInv => SessionIsJoined
  BY DEF JoinInv
<1>. QED
  BY <1>1, JoinInvInit, JoinInvStep, PTL DEF Spec

----------------------------------------------------------------------------
(* The worker keeps its contract *)

\* The worker has a result once it has returned.
Ended == result = "none" <=> run # "returned"

LEMMA EndedStep == JoinInv /\ Ended /\ [Next]_vars => Ended'
<1>. SUFFICES ASSUME JoinInv, Ended, [Next]_vars PROVE Ended'
  OBVIOUS
<1>. USE DEF Ended, runVars
<1>1. ASSUME RunStep PROVE Ended'
  BY <1>1 DEF RunStep, CancelledBefore, Lookup, NewSession, LeaveLoop, Open, Browse, Join, Return
<1>2. ASSUME Select \/ Failure PROVE Ended'
  BY <1>2 DEF Select, Failure, Refresh, SessionCancelled, LookupFails, ResolverFails, BrowseFails,
              EndSession, Return
<1>3. ASSUME NEW s \in Service, ConsumerStep(s) \/ Report(s) \/ LoopStep(s) PROVE Ended'
  BY <1>3 DEF ConsumerStep, Take, GiveUp, Finish, Report, LoopStep, Submit, Close, consuming,
              browsing
<1>4. ASSUME Environment \/ Over \/ UNCHANGED vars PROVE Ended'
  BY <1>4 DEF Environment, Answer, Appear, Expire, Tick, Receive, Cancel, Over, vars, browsing
<1>. QED
  BY <1>1, <1>2, <1>3, <1>4 DEF Next

\* Every step of the worker is one that the contract allows.
LEMMA ContractStep == JoinInv /\ Ended /\ [Next]_vars => [Contract!Next]_(Contract!vars)
<1>. SUFFICES ASSUME JoinInv, Ended, [Next]_vars PROVE [Contract!Next]_(Contract!vars)
  OBVIOUS
<1>. USE DEF Contract!vars, Contract!Running
<1>0. UNCHANGED <<FALSE, TRUE>> /\ TRUE' \in BOOLEAN
  OBVIOUS
<1>1. ASSUME NEW value \in {"nil", "failed"}, run # "returned", result' = value,
             UNCHANGED <<cancelled, out>>, value = "nil" => cancelled
      PROVE  Contract!Next
  <2>1. result = "none"
    BY <1>1 DEF Ended
  <2>2. CASE value = "failed"
    BY <1>0, <1>1, <2>1, <2>2 DEF Contract!Next, Contract!Fails, Contract!Returns
  <2>3. CASE value = "nil"
    BY <1>0, <1>1, <2>1, <2>3 DEF Contract!Next, Contract!Obeys, Contract!Returns
  <2>. QED
    BY <1>1, <2>2, <2>3
<1>2. ASSUME CancelledBefore \/ LeaveLoop \/ LookupFails PROVE Contract!Next
  BY <1>1, <1>2 DEF CancelledBefore, LeaveLoop, LookupFails, Return
<1>3. ASSUME Join PROVE [Contract!Next]_(Contract!vars)
  <2>1. CASE failure
    BY <1>1, <1>3, <2>1 DEF Join
  <2>2. CASE ~failure
    BY <1>0, <1>3, <2>2 DEF Join, Ended
  <2>. QED
    BY <2>1, <2>2
<1>4. ASSUME NEW s \in Service, Report(s) PROVE Contract!Next
  <2>1. run # "returned"
    BY <1>4, NamesAssumption DEF Report, JoinInv, SessionIsJoined
  <2>2. /\ result = "none" /\ out < OutCap /\ out' = out + 1 /\ UNCHANGED <<cancelled, result>>
    BY <1>4, <2>1 DEF Report, Room, consuming, runVars, Ended
  <2>3. Contract!Sends
    BY <1>0, <2>2, Zenon DEF Contract!Sends
  <2>. QED
    BY <2>3 DEF Contract!Next
<1>5. ASSUME Receive PROVE Contract!Next
  BY <1>0, <1>5 DEF Receive, runVars, Contract!Next, Contract!Receives
<1>6. ASSUME Cancel PROVE Contract!Next
  BY <1>0, <1>6 DEF Cancel, runVars, Contract!Next, Contract!Cancel
<1>7. ASSUME UNCHANGED <<cancelled, out, result>> PROVE UNCHANGED Contract!vars
  BY <1>0, <1>7
<1>8. ASSUME \/ Lookup \/ NewSession \/ (\E s \in Service : Open(s)) \/ Browse
             \/ Select \/ ResolverFails \/ BrowseFails
      PROVE  UNCHANGED Contract!vars
  BY <1>7, <1>8 DEF Lookup, NewSession, Open, Browse, Select, Refresh, SessionCancelled,
                    ResolverFails, BrowseFails, EndSession, runVars
<1>9. ASSUME NEW s \in Service, ConsumerStep(s) \/ LoopStep(s) PROVE UNCHANGED Contract!vars
  BY <1>7, <1>9 DEF ConsumerStep, Take, GiveUp, Finish, LoopStep, Submit, Close, consuming,
                    browsing, runVars
<1>10. ASSUME \/ \E i \in Instance : Answer(i) \/ Appear(i)
              \/ \E s \in Service : Expire(s)
              \/ Tick \/ Over \/ UNCHANGED vars
       PROVE  UNCHANGED Contract!vars
  BY <1>7, <1>10 DEF Answer, Appear, Expire, Tick, Over, vars, browsing, runVars
<1>. QED
  BY <1>2, <1>3, <1>4, <1>5, <1>6, <1>8, <1>9, <1>10
     DEF Next, RunStep, Failure, Environment

\* The safety part of WorkerSpec: no goroutine of a session, left over or not, sends
\* after the worker returned, and it returns once, for a cancellation or a failure.
THEOREM MDNSWorkerKeepsContract ==
    Spec => Contract!Init /\ [][Contract!Next]_(Contract!vars)
<1>1. Init => JoinInv /\ Ended
  BY JoinInvInit DEF Init, Ended
<1>2. Init => Contract!Init
  BY DEF Init, Contract!Init
<1>. QED
  BY <1>1, <1>2, JoinInvStep, EndedStep, ContractStep, PTL DEF Spec
=============================================================================
