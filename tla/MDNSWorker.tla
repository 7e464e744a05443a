----------------------------- MODULE MDNSWorker -----------------------------
(***************************************************************************)
(* The mDNS worker of internal/scanner/mdns.go: sessions of one browse per *)
(* service type, each with a zeroconf main loop that submits entries and a *)
(* goroutine that turns them into updates, restarted by a ticker because   *)
(* zeroconf reports an instance once per browse.                           *)
(* The order of commonServiceTypes does not matter: a session opens them   *)
(* in any order.  An entry is the instance that announced itself.  The     *)
(* main loops are external; they do what the comments of mdns.go say.      *)
(***************************************************************************)
EXTENDS Naturals, Sequences, FiniteSets

CONSTANTS
    Service,        \* commonServiceTypes
    Instance,       \* the service instances of the network
    ServiceOf,      \* instance -> its service type
    InSubnet,       \* instances with an address that scopedIP accepts
    None,           \* no service, no instance
    EntriesCap,     \* buffer of an entries channel (16 in the code)
    OutCap          \* buffer of the updates channel (256 in the code)

ASSUME NamesAssumption ==
    /\ None \notin Service \cup Instance
    /\ Instance \cap {"off", "ranging", "done"} = {}
ASSUME InstanceAssumption == ServiceOf \in [Instance -> Service] /\ InSubnet \subseteq Instance
ASSUME BufferAssumption == EntriesCap \in Nat \ {0} /\ OutCap \in Nat \ {0}

VARIABLES
    run,        \* where runWithRefresh and browseSession are
    result,     \* what runWithRefresh returned
    failure,    \* browseSession ends with an error
    cancelled,  \* ctx is done
    ended,      \* the session's own context is cancelled
    tick,       \* a tick waits in the ticker's channel, whose buffer is one
    todo,       \* service types the session has not opened
    opening,    \* the service type whose consumer runs and whose Browse does not, yet
    loop,       \* service -> the main loop of its browse
    offer,      \* service -> the instance its main loop is submitting
    sent,       \* instances submitted in this session: they are not submitted again
    entries,    \* service -> its entries channel
    consumer,   \* service -> its goroutine, and the instance it is reporting
    out,        \* updates in the updates channel
    present,    \* instances that are on the network
    prompt      \* the network answers well within mdnsRefreshInterval; never changes

runVars    == <<run, result, failure, todo, opening, ended>>
loopVars   == <<loop, offer, sent>>
vars == <<runVars, cancelled, tick, loopVars, entries, consumer, out, present, prompt>>

\* ctx.Done of a session: the worker's context, or its own.
Done == cancelled \/ ended

Nobody == [s \in Service |-> None]

Init ==
    /\ run = "start" /\ result = "none" /\ failure = FALSE
    /\ cancelled \in BOOLEAN /\ ended = FALSE /\ tick = FALSE
    /\ todo = {} /\ opening = None
    /\ loop = [s \in Service |-> "off"] /\ offer = Nobody /\ sent = {}
    /\ entries = [s \in Service |-> <<>>]
    /\ consumer = [s \in Service |-> "off"]
    /\ out = 0
    /\ present \in SUBSET Instance /\ prompt \in BOOLEAN

----------------------------------------------------------------------------
(* runWithRefresh *)

Return(value) ==
    /\ run' = "returned" /\ result' = value
    /\ UNCHANGED <<failure, todo, opening, ended, cancelled, tick, loopVars, entries,
                   consumer, out, present, prompt>>

CancelledBefore == run = "start" /\ cancelled /\ Return("nil")

LookupFails == run = "start" /\ ~cancelled /\ Return("failed")

Lookup ==
    /\ run = "start" /\ ~cancelled
    /\ run' = "looping"
    /\ UNCHANGED <<result, failure, todo, opening, ended, cancelled, tick, loopVars,
                   entries, consumer, out, present, prompt>>

\* browseSession is called: a fresh context, fresh resolvers and channels.
NewSession ==
    /\ run = "looping" /\ ~cancelled
    /\ run' = "opening" /\ todo' = Service /\ opening' = None
    /\ ended' = FALSE
    /\ loop' = [s \in Service |-> "off"] /\ offer' = Nobody /\ sent' = {}
    /\ entries' = [s \in Service |-> <<>>]
    /\ consumer' = [s \in Service |-> "off"]
    /\ UNCHANGED <<result, failure, cancelled, tick, out, present, prompt>>

LeaveLoop == run = "looping" /\ cancelled /\ Return("nil")

----------------------------------------------------------------------------
(* browseSession *)

\* The deferred cancel; wg.Wait follows.
EndSession(failed) ==
    /\ run' = "joining" /\ ended' = TRUE /\ failure' = failed
    /\ UNCHANGED <<result, todo, cancelled, offer, sent, entries, out, present, prompt>>

\* The next service type: a resolver of its own and a goroutine for its entries.
Open(s) ==
    /\ run = "opening" /\ opening = None /\ s \in todo /\ ~Done
    /\ opening' = s /\ todo' = todo \ {s}
    /\ consumer' = [consumer EXCEPT ![s] = "ranging"]
    /\ UNCHANGED <<run, result, failure, ended, cancelled, tick, loopVars, entries,
                   out, present, prompt>>

ResolverFails ==
    /\ run = "opening" /\ opening = None /\ todo # {} /\ ~Done
    /\ EndSession(TRUE)
    /\ UNCHANGED <<tick, opening, loop, consumer>>

\* Browse starts the main loop and sends the first query.
Browse ==
    /\ run = "opening" /\ opening # None
    /\ opening' = None
    /\ loop' = [loop EXCEPT ![opening] = "browsing"]
    /\ UNCHANGED <<run, result, failure, todo, ended, cancelled, tick, offer, sent,
                   entries, consumer, out, present, prompt>>

\* The query fails: Browse cancels its main loop, the session ends.
BrowseFails ==
    /\ run = "opening" /\ opening # None
    /\ opening' = None
    /\ loop' = [loop EXCEPT ![opening] = "stopping"]
    /\ EndSession(TRUE)
    /\ UNCHANGED <<tick, consumer>>

\* Between two service types, or in the select after the last.
SessionCancelled ==
    /\ run = "opening" /\ opening = None /\ Done
    /\ EndSession(FALSE)
    /\ UNCHANGED <<tick, opening, loop, consumer>>

\* Mutant: the session waits for ctx alone.
RefreshNever ==
    /\ run = "opening" /\ opening = None /\ todo = {} /\ tick /\ Done
    /\ tick' = FALSE
    /\ EndSession(FALSE)
    /\ UNCHANGED <<opening, loop, consumer>>

Refresh ==
    /\ run = "opening" /\ opening = None /\ todo = {} /\ tick
    /\ tick' = FALSE
    /\ EndSession(FALSE)
    /\ UNCHANGED <<opening, loop, consumer>>

\* wg.Wait is over.
Join ==
    /\ run = "joining"
    /\ \A s \in Service : consumer[s] \in {"off", "done"}
    /\ run' = IF failure THEN "returned" ELSE "looping"
    /\ result' = IF failure THEN "failed" ELSE "none"
    /\ UNCHANGED <<failure, todo, opening, ended, cancelled, tick, loopVars, entries,
                   consumer, out, present, prompt>>

----------------------------------------------------------------------------
(* consume, for the service type s *)

consuming == <<runVars, cancelled, tick, loopVars, present, prompt>>

\* An entry is dropped when ctx is done or no address of it is in the subnet.
Take(s) ==
    /\ consumer[s] = "ranging" /\ entries[s] # <<>>
    /\ LET i == Head(entries[s])
       IN  consumer' = [consumer EXCEPT ![s] = IF Done \/ i \notin InSubnet THEN @ ELSE i]
    /\ entries' = [entries EXCEPT ![s] = Tail(@)]
    /\ UNCHANGED <<consuming, out>>

Room == out < OutCap

Report(s) ==
    /\ consumer[s] \in Instance /\ Room
    /\ out' = out + 1
    /\ consumer' = [consumer EXCEPT ![s] = "ranging"]
    /\ UNCHANGED <<consuming, entries>>

\* Mutant: the send does not watch ctx.
GiveUpWithRoom(s) ==
    /\ consumer[s] \in Instance /\ Done /\ Room
    /\ consumer' = [consumer EXCEPT ![s] = "ranging"]
    /\ UNCHANGED <<consuming, entries, out>>

GiveUp(s) ==
    /\ consumer[s] \in Instance /\ Done
    /\ consumer' = [consumer EXCEPT ![s] = "ranging"]
    /\ UNCHANGED <<consuming, entries, out>>

\* Mutant: the goroutine ends as soon as ctx is done.
FinishOnCancel(s) ==
    /\ consumer[s] = "ranging" /\ entries[s] = <<>>
    /\ loop[s] = "closed" \/ Done
    /\ consumer' = [consumer EXCEPT ![s] = "done"]
    /\ UNCHANGED <<consuming, entries, out>>

\* The channel is closed and drained.
Finish(s) ==
    /\ consumer[s] = "ranging" /\ entries[s] = <<>> /\ loop[s] = "closed"
    /\ consumer' = [consumer EXCEPT ![s] = "done"]
    /\ UNCHANGED <<consuming, entries, out>>

----------------------------------------------------------------------------
(* zeroconf: the main loop of the browse for s *)

browsing == <<runVars, cancelled, tick, consumer, out, present, prompt>>

Live(s) == loop[s] \in {"browsing", "stopping"}

\* A message of i arrives that the browse has not reported.
Answer(i) ==
    LET s == ServiceOf[i]
    IN  /\ i \in present /\ Live(s) /\ offer[s] = None /\ i \notin sent
        /\ offer' = [offer EXCEPT ![s] = i]
        /\ UNCHANGED <<browsing, loop, sent, entries>>

\* The send of an entry, which does not watch the context.
Submit(s) ==
    /\ offer[s] # None /\ Len(entries[s]) < EntriesCap
    /\ entries' = [entries EXCEPT ![s] = Append(@, offer[s])]
    /\ sent' = sent \cup {offer[s]}
    /\ offer' = [offer EXCEPT ![s] = None]
    /\ UNCHANGED <<browsing, loop>>

\* The context is done, the session's or the browse's own.
Close(s) ==
    /\ Live(s) /\ offer[s] = None
    /\ Done \/ loop[s] = "stopping"
    /\ loop' = [loop EXCEPT ![s] = "closed"]
    /\ UNCHANGED <<browsing, offer, sent, entries>>

\* A browse that nobody answered gives up by itself.
Expire(s) ==
    /\ loop[s] = "browsing" /\ offer[s] = None
    /\ \A i \in sent : ServiceOf[i] # s
    /\ prompt => \A i \in present : ServiceOf[i] # s
    /\ loop' = [loop EXCEPT ![s] = "closed"]
    /\ UNCHANGED <<browsing, offer, sent, entries>>

----------------------------------------------------------------------------
(* The environment: merger, ticker, network, caller *)

\* Everybody who could answer was heard; with prompt, the ticker is slower than that.
Settled ==
    /\ run = "opening" /\ opening = None /\ todo = {}
    /\ \A i \in present : Live(ServiceOf[i]) => i \in sent
    /\ \A s \in Service : entries[s] = <<>> /\ consumer[s] \in {"ranging", "done"}

Tick ==
    /\ run # "returned" /\ ~tick
    /\ prompt => Settled
    /\ tick' = TRUE
    /\ UNCHANGED <<runVars, cancelled, loopVars, entries, consumer, out, present, prompt>>

Receive ==
    /\ out > 0 /\ out' = out - 1
    /\ UNCHANGED <<runVars, cancelled, tick, loopVars, entries, consumer, present, prompt>>

Appear(i) ==
    /\ i \notin present /\ present' = present \cup {i}
    /\ UNCHANGED <<runVars, cancelled, tick, loopVars, entries, consumer, out, prompt>>

Cancel ==
    /\ ~cancelled /\ cancelled' = TRUE
    /\ UNCHANGED <<runVars, tick, loopVars, entries, consumer, out, present, prompt>>

\* Nothing is left to do.
Over == run = "returned" /\ UNCHANGED vars

RunStep ==
    \/ CancelledBefore \/ Lookup \/ NewSession \/ LeaveLoop
    \/ \E s \in Service : Open(s)
    \/ Browse \/ Join

Select == Refresh \/ SessionCancelled

Failure == LookupFails \/ ResolverFails \/ BrowseFails

ConsumerStep(s) == Take(s) \/ GiveUp(s) \/ Finish(s)

LoopStep(s) == Submit(s) \/ Close(s)

Environment ==
    \/ \E i \in Instance : Answer(i) \/ Appear(i)
    \/ \E s \in Service : Expire(s)
    \/ Tick \/ Receive \/ Cancel

Next ==
    \/ RunStep \/ Select \/ Failure
    \/ \E s \in Service : ConsumerStep(s) \/ Report(s) \/ LoopStep(s)
    \/ Environment
    \/ Over

Spec == Init /\ [][Next]_vars

\* Goroutines run, blocked senders are served in turn, the network answers, the
\* ticker ticks, and the merger receives until ctx is done.  Nothing has to fail,
\* to expire, to appear or to be cancelled.
Fairness ==
    /\ WF_vars(RunStep) /\ WF_vars(Select)
    /\ \A s \in Service :
          WF_vars(ConsumerStep(s)) /\ SF_vars(Report(s)) /\ WF_vars(Submit(s)) /\ SF_vars(Close(s))
    /\ \A i \in Instance : SF_vars(Answer(i))
    /\ WF_vars(Tick)
    /\ WF_vars(Receive /\ ~cancelled)

FairSpec == Spec /\ Fairness

----------------------------------------------------------------------------
(* Properties *)

\* The state has its types, and no buffer holds more than its capacity.
TypeOK ==
    /\ run \in {"start", "looping", "opening", "joining", "returned"}
    /\ result \in {"none", "nil", "failed"}
    /\ failure \in BOOLEAN /\ cancelled \in BOOLEAN /\ ended \in BOOLEAN
    /\ tick \in BOOLEAN
    /\ todo \subseteq Service /\ opening \in Service \cup {None}
    /\ loop \in [Service -> {"off", "browsing", "stopping", "closed"}]
    /\ offer \in [Service -> Instance \cup {None}]
    /\ sent \subseteq Instance
    /\ entries \in [Service -> Seq(Instance)]
    /\ \A s \in Service : Len(entries[s]) <= EntriesCap
    /\ consumer \in [Service -> {"off", "ranging", "done"} \cup Instance]
    /\ out \in 0..OutCap
    /\ present \subseteq Instance /\ prompt \in BOOLEAN

\* mdns.go:126-131: outside a session no browse of an earlier one is left, neither a
\* goroutine that could send an update nor a main loop that waits in a send or could
\* compete with the next session's.
SessionIsJoined ==
    run \in {"start", "looping", "returned"} =>
        \A s \in Service :
            /\ consumer[s] \in {"off", "done"}
            /\ ~Live(s) /\ offer[s] = None /\ entries[s] = <<>>

\* scanner.go:116-127 relies on it: no goroutine of a session reports after the worker
\* returned, it ends for cancellation or a failure alone, and once cancelled it returns,
\* although nobody receives its updates any more and zeroconf never gives up a send.
Contract == INSTANCE Worker WITH once <- FALSE, busy <- TRUE, queued <- out
WorkerSpec == Contract!Spec

Stopped == cancelled \/ run = "returned"

\* The update about i is sent.
Reports(i) == Report(ServiceOf[i]) /\ consumer[ServiceOf[i]] = i

\* mdns.go:43-45: an instance of the subnet is reported again and again for as long
\* as the worker runs, also one that appears after its browse has expired, if the
\* network answers well before the next refresh.
KeptFresh ==
    \A i \in InSubnet :
        ~prompt \/ <>Stopped \/ []<>(i \notin present) \/ []<><<Reports(i)>>_vars
=============================================================================
