------------------------- MODULE ActiveWorkerProofs -------------------------
(***************************************************************************)
(* Theorems about ActiveWorker, for all values of its constants.           *)
(***************************************************************************)
EXTENDS ActiveWorker, TLAPS

USE ProfileAssumption, PoolAssumption, OutAssumption

----------------------------------------------------------------------------
(* Type correctness *)

\* The stages in which a goroutine has a host.
Hosting == {"ping", "tcp", "recheck", "nbns", "ports", "check", "send"}

HostsOK == \A g \in Goroutine : pool[g].stage \in Hosting => pool[g].host \in Host

\* A confirmation is never taken back.
StillConfirmed == early \subseteq arp

TypeInv == TypeOK /\ HostsOK /\ StillConfirmed

\* A goroutine without a host is a task of every kind.
LEMMA AtType ==
    ASSUME NEW stage \in Stage
    PROVE  /\ At(stage) \in Task
           /\ At(stage).stage = stage
           /\ ~At(stage).alive /\ ~At(stage).heard /\ ~At(stage).cut
BY DEF At, Task

\* What a probe's outcome can be.
LEMMA OutcomeType ==
    ASSUME NEW g, NEW p, NEW ok \in Outcome(g, p)
    PROVE  /\ ok \in BOOLEAN
           /\ ~cancelled => ok = (p \in answers[pool[g].host])
<1>. DEFINE truth == p \in answers[pool[g].host]
<1>1. truth \in BOOLEAN
  OBVIOUS
<1>2. IF cancelled THEN ok \in {truth, FALSE} ELSE ok \in {truth}
  BY DEF Outcome
<1>. HIDE DEF truth
<1>3. ok \in BOOLEAN /\ (~cancelled => ok = truth)
  BY <1>1, <1>2
<1>. QED
  BY <1>3 DEF truth

\* A step of one goroutine touches its own task and the set of heard hosts.
LEMMA Moving ==
    ASSUME TypeInv, NEW g \in Goroutine, NEW task \in Task, NEW heard \in BOOLEAN,
           pool[g].host \in Host \/ ~heard,
           Moves(g, task, heard)
    PROVE  /\ pool' \in [Goroutine -> Task]
           /\ pool'[g] = task
           /\ \A x \in Goroutine : x # g => pool'[x] = pool[x]
           /\ answered \subseteq answered' /\ answered' \subseteq Host
           /\ heard => pool[g].host \in answered'
BY DEF TypeInv, TypeOK, Moves

\* A task that claims a sign of life has one, and one that is about to be sent
\* comes from a whole scan.
HonestTask(task) ==
    /\ task.alive \/ task.heard => task.host \in answered
    /\ task.stage \in {"check", "send"} => task.alive \/ task.heard
    /\ task.cut => cancelled
    /\ task.stage = "send" => ~task.cut

HonestPool == \A g \in Goroutine : HonestTask(pool[g])

\* The sweep must find h: it answers ping or TCP, or anything at all if ARP had confirmed it
\* when its probe began.
Due(h) == \/ answers[h] \cap {"ping", "tcp"} # {}
          \/ h \in early /\ answers[h] # {}

Stealthy(h) == answers[h] \cap {"nbns", "ports"} # {}

\* A task that will end in a report of its host, were it not for cancellation: the probes
\* that are still to come will make up for those that failed.
OnTrack(task) ==
    /\ task.stage \in Hosting
    /\ task.stage = "tcp" => \/ "tcp" \in answers[task.host]
                             \/ task.host \in early /\ Stealthy(task.host)
    /\ task.stage = "recheck" => task.host \in early /\ Stealthy(task.host)
    /\ task.stage = "nbns" => task.alive \/ Stealthy(task.host)
    /\ task.stage = "ports" =>
          task.alive \/ task.heard \/ "ports" \in answers[task.host]

\* What a step of g that is neither a Take nor a Send makes of its task.
Sound(g, task, heard) ==
    /\ pool[g].stage \in Hosting \/ ~heard
    /\ pool[g].stage # "done"
    /\ task.stage \in Hosting => pool[g].stage \in Hosting /\ task.host = pool[g].host
    /\ task.alive \/ task.heard =>
          task.host = pool[g].host /\ (pool[g].alive \/ pool[g].heard \/ heard)
    /\ task.stage \in {"check", "send"} => task.alive \/ task.heard
    /\ task.cut => cancelled
    /\ task.stage = "send" => ~task.cut
    /\ task.stage = "done" => closed /\ jobs = {}
    /\ ~cancelled /\ Due(pool[g].host) /\ OnTrack(pool[g]) => OnTrack(task)

\* Such a step is sound: the probes one by one.
LEMMA ProbeStep ==
    ASSUME TypeInv, HonestPool, NEW g \in Goroutine, PoolStep(g),
           \A h \in Host : ~Take(g, h)
    PROVE  /\ UNCHANGED probing
           /\ \E task \in Task, heard \in BOOLEAN :
                 Moves(g, task, heard) /\ Sound(g, task, heard)
<1>. DEFINE Goal == \E task \in Task, heard \in BOOLEAN :
                       Moves(g, task, heard) /\ Sound(g, task, heard)
<1>0. UNCHANGED probing
  BY DEF PoolStep, Ends, Ping, TCPAlive, Recheck, NBNS, ScanPorts, Check, Abandon
<1>. SUFFICES Goal
  BY <1>0
<1>h. /\ pool[g] \in Task /\ HonestTask(pool[g])
      /\ cancelled \in BOOLEAN /\ answers \in [Host -> SUBSET Probe]
      /\ pool[g].stage \in Hosting => pool[g].host \in Host
  BY DEF TypeInv, TypeOK, HonestPool, HostsOK
<1>a. /\ At("ready") \in Task /\ At("ready").stage = "ready"
      /\ At("done") \in Task /\ At("done").stage = "done"
      /\ ~At("ready").alive /\ ~At("ready").heard /\ ~At("ready").cut
      /\ ~At("done").alive /\ ~At("done").heard /\ ~At("done").cut
  BY AtType DEF Stage
<1>r. ASSUME Moves(g, At("ready"), FALSE), pool[g].stage \in Hosting,
             ~cancelled /\ Due(pool[g].host) => ~OnTrack(pool[g])
      PROVE  Goal
  <2>1. Sound(g, At("ready"), FALSE)
    BY <1>a, <1>r DEF Sound, Hosting
  <2>. QED
    BY <1>a, <1>r, <2>1
<1>2. CASE Ends(g)
  <2>1. Sound(g, At("done"), FALSE)
    BY <1>2, <1>a DEF Sound, Hosting, Ends, OnTrack
  <2>. QED
    BY <1>2, <1>a, <2>1 DEF Ends
<1>3. CASE Ping(g)
  <2>. DEFINE task(ok) == [pool[g] EXCEPT !.alive = ok, !.stage = IF ok THEN "nbns" ELSE "tcp"]
  <2>1. PICK ok \in Outcome(g, "ping") : Moves(g, task(ok), ok)
    BY <1>3 DEF Ping
  <2>2. ok \in BOOLEAN /\ (~cancelled => ok = ("ping" \in answers[pool[g].host]))
    BY OutcomeType
  <2>3. /\ task(ok) \in Task /\ task(ok).host = pool[g].host /\ task(ok).alive = ok
        /\ task(ok).heard = pool[g].heard /\ task(ok).cut = pool[g].cut
        /\ task(ok).stage = IF ok THEN "nbns" ELSE "tcp"
    BY <2>2, <1>h DEF Task, Stage
  <2>4. pool[g].stage = "ping"
    BY <1>3 DEF Ping
  <2>. HIDE DEF task
  <2>5. ASSUME ~cancelled, Due(pool[g].host) PROVE OnTrack(task(ok))
    <3>1. pool[g].host \in Host /\ answers[pool[g].host] \subseteq Probe
      BY <1>h, <2>4 DEF Hosting
    <3>2. ~ok => \/ "tcp" \in answers[pool[g].host]
                 \/ pool[g].host \in early /\ Stealthy(pool[g].host)
      BY <2>2, <2>5, <3>1 DEF Due, Stealthy, Probe
    <3>. QED
      BY <2>2, <2>3, <3>2 DEF OnTrack, Hosting
  <2>6. Sound(g, task(ok), ok)
    BY <1>h, <2>2, <2>3, <2>4, <2>5 DEF Sound, HonestTask, Hosting
  <2>. QED
    BY <2>1, <2>2, <2>3, <2>6
<1>4. CASE TCPAlive(g)
  <2>. DEFINE task(ok) == [pool[g] EXCEPT !.alive = ok,
                 !.stage = IF ok \/ pool[g].known THEN "nbns" ELSE "recheck"]
  <2>1. PICK ok \in Outcome(g, "tcp") : Moves(g, task(ok), ok)
    BY <1>4 DEF TCPAlive
  <2>2. ok \in BOOLEAN /\ (~cancelled => ok = ("tcp" \in answers[pool[g].host]))
    BY OutcomeType
  <2>3. /\ task(ok) \in Task /\ task(ok).host = pool[g].host /\ task(ok).alive = ok
        /\ task(ok).heard = pool[g].heard /\ task(ok).cut = pool[g].cut
        /\ task(ok).stage \in {"nbns", "recheck"}
        /\ ok => task(ok).stage = "nbns"
    BY <2>2, <1>h DEF Task, Stage
  <2>4. pool[g].stage = "tcp"
    BY <1>4 DEF TCPAlive
  <2>. HIDE DEF task
  <2>5. ASSUME ~cancelled, OnTrack(pool[g]) PROVE OnTrack(task(ok))
    <3>1. ok \/ (pool[g].host \in early /\ Stealthy(pool[g].host))
      BY <2>2, <2>4, <2>5 DEF OnTrack
    <3>. QED
      BY <2>2, <2>3, <3>1 DEF OnTrack, Hosting
  <2>6. Sound(g, task(ok), ok)
    BY <1>h, <2>2, <2>3, <2>4, <2>5 DEF Sound, HonestTask, Hosting
  <2>. QED
    BY <2>1, <2>2, <2>3, <2>6
<1>5. CASE Recheck(g)
  <2>. DEFINE task == [pool[g] EXCEPT !.known = TRUE, !.stage = "nbns"]
  <2>1. pool[g].stage = "recheck"
    BY <1>5 DEF Recheck
  <2>2. /\ task \in Task /\ task.host = pool[g].host /\ task.stage = "nbns"
        /\ task.alive = pool[g].alive /\ task.heard = pool[g].heard
        /\ task.cut = pool[g].cut
    BY <1>h DEF Task, Stage
  <2>. HIDE DEF task
  <2>3. Sound(g, task, FALSE)
    <3>1. OnTrack(pool[g]) => OnTrack(task)
      BY <2>1, <2>2 DEF OnTrack, Hosting
    <3>. QED
      BY <1>h, <2>1, <2>2, <3>1 DEF Sound, HonestTask, Hosting
  <2>4. \/ Moves(g, task, FALSE)
        \/ Moves(g, At("ready"), FALSE) /\ pool[g].host \notin arp
    BY <1>5 DEF Recheck, task
  <2>5. pool[g].host \notin arp => ~OnTrack(pool[g])
    BY <2>1 DEF OnTrack, TypeInv, StillConfirmed
  <2>. QED
    BY <1>r, <2>1, <2>2, <2>3, <2>4, <2>5 DEF Hosting
<1>6. CASE NBNS(g)
  <2>. DEFINE task(ok) == [pool[g] EXCEPT !.heard = ok, !.stage = "ports"]
  <2>1. PICK ok \in Outcome(g, "nbns") : Moves(g, task(ok), ok)
    BY <1>6 DEF NBNS
  <2>2. ok \in BOOLEAN /\ (~cancelled => ok = ("nbns" \in answers[pool[g].host]))
    BY OutcomeType
  <2>3. /\ task(ok) \in Task /\ task(ok).host = pool[g].host
        /\ task(ok).alive = pool[g].alive /\ task(ok).heard = ok
        /\ task(ok).cut = pool[g].cut /\ task(ok).stage = "ports"
    BY <2>2, <1>h DEF Task, Stage
  <2>4. pool[g].stage = "nbns"
    BY <1>6 DEF NBNS
  <2>. HIDE DEF task
  <2>5. ASSUME ~cancelled, OnTrack(pool[g]) PROVE OnTrack(task(ok))
    <3>1. pool[g].alive \/ ok \/ "ports" \in answers[pool[g].host]
      BY <2>2, <2>4, <2>5 DEF OnTrack, Stealthy
    <3>. QED
      BY <2>3, <3>1 DEF OnTrack, Hosting
  <2>6. Sound(g, task(ok), ok)
    BY <1>h, <2>2, <2>3, <2>4, <2>5 DEF Sound, HonestTask, Hosting
  <2>. QED
    BY <2>1, <2>2, <2>3, <2>6
<1>7. CASE ScanPorts(g)
  <2>. DEFINE cut(ok)  == "ports" \in answers[pool[g].host] /\ ~ok
              task(ok) == [pool[g] EXCEPT !.heard = (@ \/ ok), !.stage = "check",
                                          !.cut = cut(ok)]
  <2>1. PICK ok \in Outcome(g, "ports") :
            Moves(g, IF Silent(task(ok)) THEN At("ready") ELSE task(ok), ok)
    BY <1>7 DEF ScanPorts
  <2>2. ok \in BOOLEAN /\ (~cancelled => ok = ("ports" \in answers[pool[g].host]))
    BY OutcomeType
  <2>3. cut(ok) \in BOOLEAN /\ (pool[g].heard \/ ok) \in BOOLEAN /\ (cut(ok) => cancelled)
    BY <2>2
  <2>. HIDE DEF cut
  <2>4. /\ task(ok) \in Task /\ task(ok).host = pool[g].host
        /\ task(ok).alive = pool[g].alive /\ task(ok).heard = (pool[g].heard \/ ok)
        /\ task(ok).cut = cut(ok) /\ task(ok).stage = "check"
    BY <2>2, <2>3, <1>h DEF Task, Stage
  <2>5. pool[g].stage = "ports"
    BY <1>7 DEF ScanPorts
  <2>. HIDE DEF task
  <2>6. CASE Silent(task(ok))
    <3>1. ~ok /\ ~pool[g].alive /\ ~pool[g].heard
      BY <2>2, <2>4, <2>6 DEF Silent
    <3>2. ok = FALSE
      BY <3>1, <2>2
    <3>. QED
      BY <1>r, <2>1, <2>2, <2>5, <2>6, <3>1, <3>2 DEF OnTrack, Hosting
  <2>7. CASE ~Silent(task(ok))
    <3>1. task(ok).alive \/ task(ok).heard
      BY <2>7 DEF Silent
    <3>2. OnTrack(pool[g]) => OnTrack(task(ok))
      BY <2>4, <2>5 DEF OnTrack, Hosting
    <3>3. Sound(g, task(ok), ok)
      BY <2>3, <2>4, <2>5, <3>1, <3>2 DEF Sound, Hosting
    <3>. QED
      BY <2>1, <2>2, <2>4, <2>7, <3>3
  <2>. QED
    BY <2>6, <2>7
<1>8. CASE Check(g)
  <2>. DEFINE task == [pool[g] EXCEPT !.stage = "send"]
  <2>1. pool[g].stage = "check"
    BY <1>8 DEF Check
  <2>2. /\ task \in Task /\ task.host = pool[g].host /\ task.stage = "send"
        /\ task.alive = pool[g].alive /\ task.heard = pool[g].heard
        /\ task.cut = pool[g].cut
    BY <1>h DEF Task, Stage
  <2>3. Moves(g, IF cancelled THEN At("ready") ELSE task, FALSE)
    BY <1>8 DEF Check
  <2>. HIDE DEF task
  <2>4. CASE cancelled
    BY <1>r, <2>1, <2>3, <2>4 DEF Hosting
  <2>5. CASE ~cancelled
    <3>1. OnTrack(pool[g]) => OnTrack(task)
      BY <2>1, <2>2 DEF OnTrack, Hosting
    <3>2. Sound(g, task, FALSE)
      BY <1>h, <2>1, <2>2, <2>5, <3>1 DEF Sound, HonestTask, Hosting
    <3>. QED
      BY <2>2, <2>3, <2>5, <3>2
  <2>. QED
    BY <2>4, <2>5
<1>9. CASE Abandon(g)
  BY <1>9, <1>r DEF Abandon, Hosting
<1>. QED
  BY <1>2, <1>3, <1>4, <1>5, <1>6, <1>7, <1>8, <1>9 DEF PoolStep

\* Such a step moves only the task of g, and the set of hosts that answered grows.
LEMMA ProbeStepEffect ==
    ASSUME TypeInv, HonestPool, NEW g \in Goroutine, PoolStep(g),
           \A h \in Host : ~Take(g, h)
    PROVE  \E task \in Task, heard \in BOOLEAN :
              /\ Sound(g, task, heard)
              /\ pool' \in [Goroutine -> Task] /\ pool'[g] = task
              /\ \A x \in Goroutine : x # g => pool'[x] = pool[x]
              /\ answered \subseteq answered' /\ answered' \subseteq Host
              /\ heard => pool[g].host \in answered'
              /\ UNCHANGED probing
<1>1. PICK task \in Task, heard \in BOOLEAN : Moves(g, task, heard) /\ Sound(g, task, heard)
  BY ProbeStep
<1>2. pool[g].host \in Host \/ ~heard
  BY <1>1 DEF Sound, TypeInv, HostsOK
<1>. QED
  BY <1>1, <1>2, Moving, ProbeStep

\* A goroutine takes a host: a task at its first probe, or none after cancellation.
LEMMA TakeEffect ==
    ASSUME TypeInv, NEW g \in Goroutine, NEW h \in Host, Take(g, h)
    PROVE  /\ pool' \in [Goroutine -> Task]
           /\ pool[g].stage = "ready"
           /\ \A x \in Goroutine : x # g => pool'[x] = pool[x]
           /\ cancelled => pool' = pool
           /\ ~cancelled => /\ pool'[g].stage = "ping" /\ pool'[g].host = h
                            /\ ~pool'[g].alive /\ ~pool'[g].heard /\ ~pool'[g].cut
<1>. DEFINE task == [At("ping") EXCEPT !.host = h, !.known = (h \in known)]
<1>1. (h \in known) \in BOOLEAN /\ "ping" \in Stage
  BY DEF Stage
<1>2. /\ task \in Task /\ task.host = h /\ task.stage = "ping"
      /\ ~task.alive /\ ~task.heard /\ ~task.cut
  BY <1>1, Zenon DEF At, Task
<1>3. pool' = IF cancelled THEN pool ELSE [pool EXCEPT ![g] = task]
  BY DEF Take
<1>. HIDE DEF task
<1>. QED
  BY <1>2, <1>3 DEF TypeInv, TypeOK, Take

\* A send frees the goroutine and puts its host into the channel.
LEMMA SendEffect ==
    ASSUME TypeInv, NEW g \in Goroutine, Send(g)
    PROVE  /\ pool' \in [Goroutine -> Task]
           /\ \A x \in Goroutine : x # g => pool'[x] = pool[x]
           /\ pool'[g].stage = "ready"
           /\ ~pool'[g].alive /\ ~pool'[g].heard /\ ~pool'[g].cut
           /\ pool[g].stage = "send" /\ pool[g].host \in Host
           /\ out' \in Seq(Update) /\ Len(out') <= OutCap
           /\ Len(out') = Len(out) + 1 /\ Len(out) \in Nat
           /\ out'[Len(out')].cut = pool[g].cut
           /\ \A n \in DOMAIN out : out'[n] = out[n]
<1>1. pool[g].host \in Host /\ pool[g] \in Task /\ pool[g].stage = "send"
  BY DEF Send, TypeInv, TypeOK, HostsOK, Hosting
<1>. DEFINE u == [host |-> pool[g].host, cut |-> pool[g].cut]
<1>2. u \in Update /\ u.cut = pool[g].cut
  BY <1>1 DEF Update, Task
<1>3. out \in Seq(Update) /\ out' = Append(out, u)
  BY DEF Send, TypeInv, TypeOK
<1>. HIDE DEF u
<1>4. /\ out' \in Seq(Update) /\ Len(out') = Len(out) + 1 /\ Len(out) \in Nat
      /\ out'[Len(out')] = u /\ \A n \in DOMAIN out : out'[n] = out[n]
  BY <1>2, <1>3
<1>5. Len(out') <= OutCap
  BY <1>4 DEF Send, Room
<1>6. /\ At("ready") \in Task /\ At("ready").stage = "ready"
      /\ ~At("ready").alive /\ ~At("ready").heard /\ ~At("ready").cut
  BY AtType DEF Stage
<1>7. /\ pool' \in [Goroutine -> Task] /\ pool'[g] = At("ready")
      /\ \A x \in Goroutine : x # g => pool'[x] = pool[x]
  BY <1>6 DEF Send, TypeInv, TypeOK
<1>. QED
  BY <1>1, <1>2, <1>4, <1>5, <1>6, <1>7

\* The steps of a goroutine keep the types.
LEMMA PoolStepType ==
    ASSUME TypeInv, HonestPool, NEW g \in Goroutine, PoolStep(g) \/ Send(g)
    PROVE  TypeInv'
<1>1. ASSUME NEW h \in Host, Take(g, h)  PROVE TypeInv'
  <2>1. HostsOK'
    BY <1>1, TakeEffect DEF TypeInv, HostsOK
  <2>2. pool' \in [Goroutine -> Task]
    BY <1>1, TakeEffect
  <2>3. jobs' \subseteq Host /\ early' \subseteq Host /\ early' \subseteq arp
    BY <1>1 DEF Take, TypeInv, TypeOK, StillConfirmed
  <2>4. UNCHANGED <<runVars, known, toFeed, closed, out, netVars, cancelled,
                    answered, reported>>
    BY <1>1 DEF Take
  <2>. QED
    BY <2>1, <2>2, <2>3, <2>4 DEF TypeInv, TypeOK, StillConfirmed, runVars, netVars
<1>2. ASSUME PoolStep(g), \A h \in Host : ~Take(g, h)  PROVE TypeInv'
  <2>1. PICK task \in Task, heard \in BOOLEAN :
              /\ Sound(g, task, heard)
              /\ pool' \in [Goroutine -> Task] /\ pool'[g] = task
              /\ \A x \in Goroutine : x # g => pool'[x] = pool[x]
              /\ answered' \subseteq Host
              /\ UNCHANGED probing
    BY <1>2, ProbeStepEffect
  <2>2. HostsOK'
    BY <2>1 DEF TypeInv, HostsOK, Sound
  <2>. QED
    BY <2>1, <2>2 DEF TypeInv, TypeOK, StillConfirmed, probing, runVars, jobVars, netVars
<1>3. CASE Send(g)
  <2>1. HostsOK'
    BY <1>3, SendEffect DEF TypeInv, HostsOK, Hosting
  <2>2. reported' \subseteq Host
    <3>1. pool[g].host \in Host
      BY <1>3, SendEffect
    <3>2. reported' = reported \cup {pool[g].host}
      BY <1>3 DEF Send
    <3>3. reported \subseteq Host
      BY DEF TypeInv, TypeOK
    <3>. QED
      BY <3>1, <3>2, <3>3
  <2>3. pool' \in [Goroutine -> Task] /\ out' \in Seq(Update) /\ Len(out') <= OutCap
    BY <1>3, SendEffect
  <2>4. UNCHANGED <<runVars, jobVars, netVars, cancelled, answered, early>>
    BY <1>3 DEF Send
  <2>. QED
    BY <2>1, <2>2, <2>3, <2>4 DEF TypeInv, TypeOK, StillConfirmed, runVars, jobVars, netVars
<1>. QED
  BY <1>1, <1>2, <1>3

\* Every step keeps the types.
LEMMA TypeStep == TypeInv /\ HonestPool /\ [Next]_vars => TypeInv'
<1>. SUFFICES ASSUME TypeInv, HonestPool, [Next]_vars  PROVE TypeInv'
  OBVIOUS
<1>. USE DEF StillConfirmed, runVars, jobVars, netVars, seenVars
<1>1. ASSUME StartSweep, tick' \in BOOLEAN, request' \in BOOLEAN  PROVE TypeInv'
  <2>1. pool' \in [Goroutine -> Task] /\ HostsOK'
    BY <1>1, AtType DEF StartSweep, HostsOK, Hosting, Stage
  <2>. QED
    BY <1>1, <2>1 DEF StartSweep, TypeInv, TypeOK
<1>2. CASE RunStep
  <2>1. CASE FirstSweep \/ TickSweep \/ RescanSweep
    BY <2>1, <1>1 DEF FirstSweep, TickSweep, RescanSweep, TypeInv, TypeOK
  <2>2. ASSUME NEW h \in Host, Feed(h)  PROVE TypeInv'
    <3>1. /\ toFeed' \subseteq Host /\ jobs' \subseteq Host
          /\ UNCHANGED <<runVars, known, closed, pool, out, netVars, cancelled, seenVars>>
      BY <2>2 DEF Feed, TypeInv, TypeOK
    <3>2. HostsOK' /\ StillConfirmed'
      BY <3>1 DEF TypeInv, HostsOK
    <3>. QED
      BY <3>1, <3>2 DEF TypeInv, TypeOK
  <2>3. CASE CloseJobs \/ SweepEnds
    BY <2>3 DEF CloseJobs, SweepEnds, TypeInv, TypeOK, HostsOK
  <2>4. CASE ReturnOnce
    BY <2>4 DEF ReturnOnce, Return, TypeInv, TypeOK, HostsOK
  <2>. QED
    BY <1>2, <2>1, <2>2, <2>3, <2>4 DEF RunStep
<1>3. CASE CancelledInDelay \/ ReturnIdle
  BY <1>3 DEF CancelledInDelay, ReturnIdle, Return, TypeInv, TypeOK, HostsOK
<1>4. ASSUME NEW g \in Goroutine, PoolStep(g) \/ Send(g)  PROVE TypeInv'
  BY <1>4, PoolStepType
<1>5. CASE Environment
  <2>1. CASE Consume
    <3>1. out \in Seq(Update) /\ out # <<>> /\ out' = Tail(out)
      BY <2>1 DEF Consume, TypeInv, TypeOK
    <3>2. out' \in Seq(Update) /\ Len(out') <= Len(out) /\ Len(out) \in Nat /\ Len(out') \in Nat
      BY <3>1
    <3>. QED
      BY <2>1, <3>2 DEF Consume, TypeInv, TypeOK, HostsOK
  <2>2. ASSUME NEW h \in Host, Confirm(h) \/ SwitchOff(h)  PROVE TypeInv'
    BY <2>2 DEF Confirm, SwitchOff, TypeInv, TypeOK, HostsOK
  <2>3. CASE Tick
    BY <2>3 DEF Tick, TypeInv, TypeOK, HostsOK
  <2>4. CASE TriggerSweep
    BY <2>4 DEF TriggerSweep, TypeInv, TypeOK, HostsOK
  <2>5. CASE Cancel
    BY <2>5 DEF Cancel, TypeInv, TypeOK, HostsOK
  <2>. QED
    BY <1>5, <2>1, <2>2, <2>3, <2>4, <2>5 DEF Environment
<1>6. CASE Over \/ UNCHANGED vars
  BY <1>6 DEF Over, vars, TypeInv, TypeOK, HostsOK
<1>. QED
  BY <1>2, <1>3, <1>4, <1>5, <1>6 DEF Next

\* The initial states are typed.
LEMMA TypeInit == Init => TypeInv
<1>. SUFFICES ASSUME Init  PROVE TypeInv
  OBVIOUS
<1>1. pool \in [Goroutine -> Task] /\ HostsOK
  BY AtType DEF Init, HostsOK, Hosting, Stage
<1>2. answers \in [Host -> SUBSET Probe]
  BY DEF Init
<1>3. out \in Seq(Update) /\ Len(out) = 0
  BY DEF Init
<1>4. Len(out) <= OutCap
  BY <1>3
<1>5. /\ once \in BOOLEAN /\ ticking \in BOOLEAN /\ tick \in BOOLEAN
      /\ request \in BOOLEAN /\ asked \in BOOLEAN
      /\ closed \in BOOLEAN /\ cancelled \in BOOLEAN
  BY DEF Init
<1>6. arp \subseteq Host
  BY DEF Init
<1>. QED
  BY <1>1, <1>2, <1>3, <1>4, <1>5, <1>6 DEF Init, TypeInv, TypeOK, StillConfirmed

----------------------------------------------------------------------------
(* What is reported is alive and whole *)

HonestInv == TypeInv /\ HonestPool /\ ReportedAreAlive /\ NoPartialScan

\* The steps of a goroutine keep the pool honest, and what it sends.
LEMMA PoolStepHonest ==
    ASSUME HonestInv, NEW g \in Goroutine, PoolStep(g) \/ Send(g)
    PROVE  HonestPool' /\ ReportedAreAlive' /\ NoPartialScan'
<1>. USE DEF HonestInv
<1>1. ASSUME NEW h \in Host, Take(g, h)
      PROVE  HonestPool' /\ ReportedAreAlive' /\ NoPartialScan'
  <2>1. HonestPool'
    BY <1>1, TakeEffect DEF HonestPool, HonestTask, Take
  <2>. QED
    BY <1>1, <2>1 DEF Take, ReportedAreAlive, NoPartialScan
<1>2. ASSUME PoolStep(g), \A h \in Host : ~Take(g, h)
      PROVE  HonestPool' /\ ReportedAreAlive' /\ NoPartialScan'
  <2>1. PICK task \in Task, heard \in BOOLEAN :
              /\ Sound(g, task, heard)
              /\ pool'[g] = task
              /\ \A x \in Goroutine : x # g => pool'[x] = pool[x]
              /\ answered \subseteq answered'
              /\ heard => pool[g].host \in answered'
              /\ UNCHANGED probing
    BY <1>2, ProbeStepEffect
  <2>2. HonestTask(pool[g])
    BY DEF HonestPool
  <2>3. cancelled' = cancelled /\ out' = out /\ reported' = reported
    BY <2>1 DEF probing
  <2>4. HonestTask(task)'
    BY <2>1, <2>2, <2>3 DEF Sound, HonestTask
  <2>5. HonestPool'
    BY <2>1, <2>3, <2>4 DEF HonestPool, HonestTask
  <2>. QED
    BY <2>1, <2>3, <2>5 DEF ReportedAreAlive, NoPartialScan
<1>3. CASE Send(g)
  <2>1. /\ pool[g].host \in answered /\ ~pool[g].cut
        /\ answered' = answered /\ cancelled' = cancelled
        /\ reported' = reported \cup {pool[g].host}
    BY <1>3, SendEffect DEF HonestPool, HonestTask, Send
  <2>2. HonestPool'
    BY <1>3, <2>1, SendEffect DEF HonestPool, HonestTask
  <2>3. NoPartialScan'
    <3>1. out \in Seq(Update)
      BY DEF TypeInv, TypeOK
    <3>2. \A n \in DOMAIN out' : n \in DOMAIN out \/ n = Len(out')
      BY <1>3, <3>1, SendEffect
    <3>. QED
      BY <1>3, <2>1, <3>2, SendEffect DEF NoPartialScan
  <2>. QED
    BY <2>1, <2>2, <2>3 DEF ReportedAreAlive
<1>. QED
  BY <1>1, <1>2, <1>3

\* Every step keeps the worker honest.
LEMMA HonestStep == HonestInv /\ [Next]_vars => HonestInv'
<1>. SUFFICES ASSUME HonestInv, [Next]_vars  PROVE HonestInv'
  OBVIOUS
<1>. USE DEF HonestInv, runVars, jobVars, netVars, seenVars
<1>0. TypeInv'
  BY TypeStep
<1>1. ASSUME StartSweep  PROVE HonestPool' /\ ReportedAreAlive' /\ NoPartialScan'
  BY <1>1, AtType DEF StartSweep, HonestPool, HonestTask, Stage,
                      ReportedAreAlive, NoPartialScan
<1>2. ASSUME UNCHANGED <<pool, out, cancelled, answered, reported>>
      PROVE  HonestPool' /\ ReportedAreAlive' /\ NoPartialScan'
  BY <1>2 DEF HonestPool, HonestTask, ReportedAreAlive, NoPartialScan
<1>3. CASE RunStep \/ CancelledInDelay \/ ReturnIdle
  <2>1. CASE FirstSweep \/ TickSweep \/ RescanSweep
    BY <2>1, <1>0, <1>1 DEF FirstSweep, TickSweep, RescanSweep
  <2>2. CASE (\E h \in Host : Feed(h)) \/ CloseJobs \/ SweepEnds
    BY <2>2, <1>0, <1>2 DEF Feed, CloseJobs, SweepEnds
  <2>3. CASE ReturnOnce \/ CancelledInDelay \/ ReturnIdle
    BY <2>3, <1>0, <1>2 DEF ReturnOnce, CancelledInDelay, ReturnIdle, Return
  <2>. QED
    BY <1>3, <2>1, <2>2, <2>3 DEF RunStep
<1>4. ASSUME NEW g \in Goroutine, PoolStep(g) \/ Send(g)  PROVE HonestInv'
  BY <1>0, <1>4, PoolStepHonest
<1>5. CASE Environment
  <2>1. CASE Consume
    <3>1. out \in Seq(Update) /\ out # <<>> /\ out' = Tail(out)
      BY <2>1 DEF Consume, TypeInv, TypeOK
    <3>2. \A n \in DOMAIN out' : n + 1 \in DOMAIN out /\ out'[n] = out[n + 1]
      BY <3>1
    <3>3. NoPartialScan'
      BY <3>2 DEF NoPartialScan
    <3>. QED
      BY <2>1, <1>0, <3>3 DEF Consume, HonestPool, HonestTask, ReportedAreAlive
  <2>2. CASE \E h \in Host : Confirm(h) \/ SwitchOff(h)
    BY <2>2, <1>0, <1>2 DEF Confirm, SwitchOff
  <2>3. CASE Tick \/ TriggerSweep
    BY <2>3, <1>0, <1>2 DEF Tick, TriggerSweep
  <2>4. CASE Cancel
    BY <2>4, <1>0 DEF Cancel, HonestPool, HonestTask, ReportedAreAlive, NoPartialScan
  <2>. QED
    BY <1>5, <2>1, <2>2, <2>3, <2>4 DEF Environment
<1>6. CASE Over \/ UNCHANGED vars
  BY <1>6, <1>0, <1>2 DEF Over, vars
<1>. QED
  BY <1>3, <1>4, <1>5, <1>6 DEF Next

\* The initial states are honest: nothing was probed.
LEMMA HonestInit == Init => HonestInv
<1>. SUFFICES ASSUME Init  PROVE HonestInv
  OBVIOUS
<1>1. TypeInv
  BY TypeInit
<1>2. HonestPool
  BY AtType DEF Init, HonestPool, HonestTask, Stage
<1>. QED
  BY <1>1, <1>2 DEF Init, HonestInv, ReportedAreAlive, NoPartialScan

\* The invariant is kept by every behaviour.
LEMMA HonestInvariant == Spec => []HonestInv
BY HonestInit, HonestStep, PTL DEF Spec

\* Every reachable state of the active worker has its types, and the updates
\* channel its limit, for every subnet, pool and channel size.
THEOREM WorkerTypeCorrect == Spec => []TypeOK
BY HonestInvariant, PTL DEF HonestInv, TypeInv

\* Whatever ARP knows and whenever hosts go off, a sweep reports only hosts that
\* answered one of its own probes.
THEOREM OnlyTheLivingAreReported == Spec => []ReportedAreAlive
BY HonestInvariant, PTL DEF HonestInv

\* No cancellation, at any point of any probe, gets half a port scan published.
THEOREM NoScanIsHalf == Spec => []NoPartialScan
BY HonestInvariant, PTL DEF HonestInv

----------------------------------------------------------------------------
(* A finished sweep is complete *)

Sweeping == run \in {"feeding", "waiting", "swept", "idle"}

\* h waits, is being probed by a goroutine that will report it, or was reported.
Accounted(h) ==
    \/ h \in toFeed \cup jobs \cup reported
    \/ \E g \in Goroutine : pool[g].host = h /\ OnTrack(pool[g])

AllAccounted == Sweeping /\ ~cancelled => \A h \in Host : Due(h) => Accounted(h)

\* A goroutine ends only when the jobs channel is closed and drained, and Run goes
\* on only when all of them have ended.
PoolJoined ==
    /\ run \in {"waiting", "swept", "idle"} => closed /\ toFeed = {}
    /\ run \in {"swept", "idle", "returned"} => \A g \in Goroutine : pool[g].stage = "done"
    /\ \A g \in Goroutine : Sweeping /\ pool[g].stage = "done" => closed /\ jobs = {}
    /\ run = "feeding" => ~closed
    /\ run = "idle" => ~once
    /\ run = "delay" => \A g \in Goroutine : pool[g].stage = "done"

\* A one-shot run that returned nil had a complete sweep.
NilIsComplete ==
    once /\ result = "nil" => /\ run = "returned"
                             /\ \A h \in Host : Due(h) => h \in reported

CompleteInv == HonestInv /\ AllAccounted /\ PoolJoined /\ NilIsComplete

\* When all goroutines have ended, what was due has been reported.
LEMMA JoinedIsReported ==
    ASSUME CompleteInv, run \in {"swept", "idle"}, ~cancelled, NEW h \in Host, Due(h)
    PROVE  h \in reported
<1>1. \A g \in Goroutine : pool[g].stage = "done"
  BY DEF CompleteInv, PoolJoined
<1>2. toFeed = {} /\ jobs = {}
  BY <1>1 DEF CompleteInv, PoolJoined, Sweeping
<1>3. \A g \in Goroutine : ~OnTrack(pool[g])
  BY <1>1 DEF OnTrack, Hosting
<1>4. Accounted(h)
  BY DEF CompleteInv, AllAccounted, Sweeping
<1>. QED
  BY <1>2, <1>3, <1>4 DEF Accounted

\* The invariant implies both properties.
LEMMA CompleteImplies == CompleteInv => SweepIsComplete /\ StealthHostsFound
<1>. SUFFICES ASSUME CompleteInv, SweepFinished, NEW h \in Host, Due(h)
              PROVE  h \in reported
  BY DEF SweepIsComplete, StealthHostsFound, Due, CompleteInv, HonestInv, TypeInv, TypeOK
<1>1. CASE run = "idle" /\ ~cancelled
  BY <1>1, JoinedIsReported
<1>2. CASE once /\ result = "nil"
  BY <1>2 DEF CompleteInv, NilIsComplete
<1>. QED
  BY <1>1, <1>2 DEF SweepFinished

\* No step of a goroutine makes Run forget a host.
LEMMA PoolStepComplete ==
    ASSUME CompleteInv, NEW g \in Goroutine, PoolStep(g) \/ Send(g)
    PROVE  AllAccounted' /\ PoolJoined' /\ NilIsComplete'
<1>. USE DEF CompleteInv, HonestInv
<1>0. pool[g].stage # "done"
  BY TakeEffect, SendEffect, ProbeStepEffect DEF Sound
<1>j. Sweeping /\ run \notin {"swept", "idle"}
  BY <1>0 DEF PoolJoined, TypeInv, TypeOK, Sweeping
<1>1. ASSUME NEW i \in Host, Take(g, i)
      PROVE  AllAccounted' /\ PoolJoined' /\ NilIsComplete'
  <2>1. /\ UNCHANGED <<run, once, result, toFeed, closed, answers, cancelled, reported>>
        /\ jobs' = jobs \ {i} /\ i \in jobs
        /\ early \subseteq early' /\ early' \subseteq early \cup {i}
    BY <1>1 DEF Take, runVars, netVars
  <2>t. ASSUME NEW x \in Goroutine, OnTrack(pool[x]), pool'[x] = pool[x]
        PROVE  OnTrack(pool[x])'
    BY <2>1, <2>t DEF OnTrack, Stealthy
  <2>d. ASSUME NEW h \in Host, h # i, Due(h)'  PROVE Due(h)
    BY <2>1, <2>d DEF Due
  <2>2. ASSUME NEW h \in Host, ~cancelled, h = i \/ Accounted(h)  PROVE Accounted(h)'
    <3>1. CASE h = i
      <4>1. pool'[g].host = h /\ pool'[g].stage = "ping"
        BY <1>1, <2>2, <3>1, TakeEffect
      <4>2. OnTrack(pool[g])'
        BY <4>1 DEF OnTrack, Hosting
      <4>. QED
        BY <4>1, <4>2 DEF Accounted
    <3>2. CASE h # i /\ h \in toFeed \cup jobs \cup reported
      BY <2>1, <3>2 DEF Accounted
    <3>3. ASSUME NEW x \in Goroutine, pool[x].host = h, OnTrack(pool[x])
          PROVE  Accounted(h)'
      <4>1. x # g
        BY <1>1, <3>3, TakeEffect DEF OnTrack, Hosting
      <4>2. pool'[x] = pool[x]
        BY <1>1, <4>1, TakeEffect
      <4>. QED
        BY <2>t, <3>3, <4>2 DEF Accounted
    <3>. QED
      BY <2>2, <3>1, <3>2, <3>3 DEF Accounted
  <2>3. AllAccounted'
    BY <2>1, <2>2, <2>d, <1>j DEF AllAccounted, Sweeping
  <2>4. PoolJoined'
    BY <1>1, <1>j, <2>1, TakeEffect DEF PoolJoined, Sweeping
  <2>. QED
    BY <2>1, <2>3, <2>4, <1>j DEF NilIsComplete, Sweeping
<1>2. ASSUME PoolStep(g), \A h \in Host : ~Take(g, h)
      PROVE  AllAccounted' /\ PoolJoined' /\ NilIsComplete'
  <2>1. PICK task \in Task, heard \in BOOLEAN :
              /\ Sound(g, task, heard)
              /\ pool'[g] = task
              /\ \A x \in Goroutine : x # g => pool'[x] = pool[x]
              /\ UNCHANGED probing
    BY <1>2, ProbeStepEffect
  <2>2. UNCHANGED <<run, once, result, toFeed, jobs, closed, answers, cancelled, reported, early>>
    BY <2>1 DEF probing, runVars, jobVars, netVars
  <2>3. ASSUME NEW h \in Host, ~cancelled, Due(h), Accounted(h)  PROVE Accounted(h)'
    <3>1. CASE h \in toFeed \cup jobs \cup reported
      BY <2>2, <3>1 DEF Accounted
    <3>2. ASSUME NEW x \in Goroutine, pool[x].host = h, OnTrack(pool[x])
          PROVE  Accounted(h)'
      <4>1. CASE x # g
        BY <2>1, <2>2, <3>2, <4>1 DEF Accounted, OnTrack, Stealthy
      <4>2. CASE x = g
        <5>1. OnTrack(task) /\ task.host = h
          BY <2>1, <2>3, <3>2, <4>2 DEF Sound, OnTrack, Stealthy
        <5>. QED
          BY <2>1, <2>2, <5>1 DEF Accounted, OnTrack, Stealthy
      <4>. QED
        BY <4>1, <4>2
    <3>. QED
      BY <2>3, <3>1, <3>2 DEF Accounted
  <2>4. AllAccounted'
    BY <2>2, <2>3, <1>j DEF AllAccounted, Due, Sweeping
  <2>5. PoolJoined'
    BY <1>j, <2>1, <2>2 DEF PoolJoined, Sweeping, Sound
  <2>. QED
    BY <2>2, <2>4, <2>5 DEF NilIsComplete, Due
<1>3. CASE Send(g)
  <2>1. /\ UNCHANGED <<run, once, result, toFeed, jobs, closed, answers, cancelled, early>>
        /\ reported' = reported \cup {pool[g].host}
    BY <1>3 DEF Send, runVars, jobVars, netVars
  <2>2. ASSUME NEW h \in Host, Accounted(h)  PROVE Accounted(h)'
    <3>1. CASE h \in toFeed \cup jobs \cup reported
      BY <2>1, <3>1 DEF Accounted
    <3>2. ASSUME NEW x \in Goroutine, pool[x].host = h, OnTrack(pool[x])
          PROVE  Accounted(h)'
      <4>1. CASE x # g
        <5>1. pool'[x] = pool[x]
          BY <1>3, <4>1, SendEffect
        <5>. QED
          BY <2>1, <3>2, <5>1 DEF Accounted, OnTrack, Stealthy
      <4>2. CASE x = g
        BY <2>1, <3>2, <4>2 DEF Accounted
      <4>. QED
        BY <4>1, <4>2
    <3>. QED
      BY <2>2, <3>1, <3>2 DEF Accounted
  <2>3. AllAccounted'
    BY <2>1, <2>2, <1>j DEF AllAccounted, Due, Sweeping
  <2>4. PoolJoined'
    BY <1>3, <1>j, <2>1, SendEffect DEF PoolJoined, Sweeping
  <2>. QED
    BY <2>1, <2>3, <2>4 DEF NilIsComplete, Due
<1>. QED
  BY <1>1, <1>2, <1>3

\* Nor does any other step.
LEMMA CompleteStep == CompleteInv /\ [Next]_vars => CompleteInv'
<1>. SUFFICES ASSUME CompleteInv, [Next]_vars  PROVE CompleteInv'
  OBVIOUS
<1>. USE DEF CompleteInv, runVars, jobVars, netVars, seenVars
<1>0. HonestInv'
  BY HonestStep
<1>1. ASSUME StartSweep, run \in {"delay", "idle"}, run = "idle" => ~once
      PROVE  AllAccounted' /\ PoolJoined' /\ NilIsComplete'
  <2>1. \A g \in Goroutine : pool'[g].stage = "ready"
    BY <1>1, AtType DEF StartSweep, Stage
  <2>. QED
    BY <1>1, <2>1 DEF StartSweep, AllAccounted, Accounted, PoolJoined, NilIsComplete, Sweeping
<1>2. CASE FirstSweep \/ TickSweep \/ RescanSweep
  BY <1>0, <1>1, <1>2 DEF FirstSweep, TickSweep, RescanSweep, PoolJoined
<1>3. ASSUME NEW h \in Host, Feed(h)  PROVE CompleteInv'
  BY <1>0, <1>3 DEF Feed, AllAccounted, Accounted, OnTrack, Stealthy, Due, PoolJoined, NilIsComplete, Sweeping
<1>4. CASE CloseJobs
  <2>1. ~cancelled => toFeed = {}
    BY <1>4 DEF CloseJobs
  <2>2. AllAccounted'
    BY <1>4, <2>1 DEF CloseJobs, AllAccounted, Accounted, OnTrack, Stealthy, Due, Sweeping
  <2>3. PoolJoined' /\ NilIsComplete'
    BY <1>4 DEF CloseJobs, PoolJoined, NilIsComplete, Sweeping, Due
  <2>. QED
    BY <1>0, <2>2, <2>3
<1>5. CASE SweepEnds
  <2>1. AllAccounted'
    BY <1>5 DEF SweepEnds, AllAccounted, Accounted, OnTrack, Stealthy, Due, Sweeping
  <2>2. PoolJoined' /\ NilIsComplete'
    BY <1>5 DEF SweepEnds, PoolJoined, NilIsComplete, Sweeping, Due
  <2>. QED
    BY <1>0, <2>1, <2>2
<1>6. CASE ReturnOnce \/ CancelledInDelay \/ ReturnIdle
  <2>1. UNCHANGED <<once, jobVars, pool, answers, cancelled, reported, early>> /\ run' = "returned"
    BY <1>6 DEF ReturnOnce, CancelledInDelay, ReturnIdle, Return
  <2>2. AllAccounted'
    BY <2>1 DEF AllAccounted, Sweeping
  <2>3. PoolJoined'
    BY <1>6, <2>1 DEF PoolJoined, Sweeping, ReturnOnce, CancelledInDelay, ReturnIdle
  <2>4. ASSUME once, result' = "nil"  PROVE run = "swept" /\ ~cancelled
    BY <1>6, <2>4 DEF ReturnOnce, CancelledInDelay, ReturnIdle, Return, PoolJoined
  <2>5. NilIsComplete'
    BY <2>1, <2>4, JoinedIsReported DEF NilIsComplete, Due
  <2>. QED
    BY <1>0, <2>2, <2>3, <2>5
<1>7. ASSUME NEW g \in Goroutine, PoolStep(g) \/ Send(g)  PROVE CompleteInv'
  BY <1>0, <1>7, PoolStepComplete
<1>8. ASSUME UNCHANGED <<run, once, result, jobVars, pool, answers, reported, early>>,
             cancelled => cancelled'
      PROVE  AllAccounted' /\ PoolJoined' /\ NilIsComplete'
  BY <1>8 DEF AllAccounted, Accounted, OnTrack, Stealthy, Due, PoolJoined, NilIsComplete, Sweeping
<1>9. CASE Environment
  <2>1. ASSUME NEW h \in Host, SwitchOff(h)  PROVE CompleteInv'
    <3>1. /\ UNCHANGED <<run, once, result, jobVars, pool, cancelled, reported, early>>
          /\ answers' = [answers EXCEPT ![h] = {}]
          /\ answers \in [Host -> SUBSET Probe]
      BY <2>1 DEF SwitchOff, HonestInv, TypeInv, TypeOK
    <3>2. ASSUME NEW i \in Host, Due(i)', Accounted(i)  PROVE Due(i) /\ Accounted(i)'
      <4>1. i # h /\ answers'[i] = answers[i]
        BY <3>1, <3>2 DEF Due
      <4>. QED
        BY <3>1, <3>2, <4>1 DEF Due, Accounted, OnTrack, Stealthy
    <3>3. \A i \in Host : Due(i)' => Due(i)
      BY <3>1 DEF Due
    <3>. QED
      BY <1>0, <3>1, <3>2, <3>3 DEF AllAccounted, PoolJoined, NilIsComplete, Sweeping
  <2>2. CASE Consume \/ (\E h \in Host : Confirm(h)) \/ Tick \/ TriggerSweep
    BY <2>2, <1>0, <1>8 DEF Consume, Confirm, Tick, TriggerSweep
  <2>3. CASE Cancel
    BY <2>3, <1>0, <1>8 DEF Cancel
  <2>. QED
    BY <1>9, <2>1, <2>2, <2>3 DEF Environment
<1>10. CASE Over \/ UNCHANGED vars
  BY <1>10, <1>0, <1>8 DEF Over, vars
<1>. QED
  BY <1>2, <1>3, <1>4, <1>5, <1>6, <1>7, <1>9, <1>10 DEF Next, RunStep

\* Before the first sweep nothing is promised.
LEMMA CompleteInit == Init => CompleteInv
<1>. SUFFICES ASSUME Init  PROVE CompleteInv
  OBVIOUS
<1>1. \A g \in Goroutine : pool[g].stage = "done"
  BY AtType DEF Init, Stage
<1>. QED
  BY <1>1, HonestInit DEF Init, CompleteInv, AllAccounted, PoolJoined, NilIsComplete, Sweeping

\* However the pool interleaves and whatever its size, a sweep that was not cut
\* short reported every host that answers pings or TCP, and a one-shot run that
\* returns nil made such a sweep.
THEOREM FinishedSweepsAreComplete == Spec => []SweepIsComplete
BY CompleteInit, CompleteStep, CompleteImplies, PTL DEF Spec

\* Such a sweep also reported every host that drops pings and TCP but answers at all,
\* if ARP had confirmed it when its probe began: no verdict of the gate on silent hosts
\* loses it, whether the snapshot of the sweep knew the host or not.
THEOREM StealthHostsAreFound == Spec => []StealthHostsFound
BY CompleteInit, CompleteStep, CompleteImplies, PTL DEF Spec

----------------------------------------------------------------------------
(* The worker keeps its contract *)

\* A run has a result once it has returned; only a one-shot run ends after a sweep.
Ended ==
    /\ result = "none" <=> run # "returned"
    /\ run = "swept" => once

ContractInv == CompleteInv /\ Ended

\* Run returns from a state of its own and goes on from none; the pool never moves it.
LEMMA EndedStep == ContractInv /\ [Next]_vars => ContractInv'
<1>. SUFFICES ASSUME ContractInv, [Next]_vars  PROVE Ended'
  BY CompleteStep DEF ContractInv
<1>. USE DEF ContractInv, Ended
<1>1. CASE UNCHANGED <<run, once, result>>
  BY <1>1
<1>2. CASE FirstSweep \/ TickSweep \/ RescanSweep \/ CloseJobs \/ SweepEnds
  BY <1>2 DEF FirstSweep, TickSweep, RescanSweep, StartSweep, CloseJobs, SweepEnds,
              CompleteInv, HonestInv, TypeInv, TypeOK
<1>3. CASE ReturnOnce \/ CancelledInDelay \/ ReturnIdle
  BY <1>3 DEF ReturnOnce, CancelledInDelay, ReturnIdle, Return
<1>4. ASSUME NEW g \in Goroutine, PoolStep(g) \/ Send(g)  PROVE UNCHANGED <<run, once, result>>
  BY <1>4, ProbeStepEffect DEF Take, Send, probing, runVars, CompleteInv, HonestInv
<1>5. ASSUME NEW h \in Host, Feed(h)  PROVE UNCHANGED <<run, once, result>>
  BY <1>5 DEF Feed, runVars
<1>6. CASE Environment
  BY <1>1, <1>6 DEF Environment, Consume, Confirm, SwitchOff, Tick, TriggerSweep, Cancel, runVars
<1>7. CASE Over \/ UNCHANGED vars
  BY <1>1, <1>7 DEF Over, vars, runVars
<1>. QED
  BY <1>1, <1>2, <1>3, <1>4, <1>5, <1>6, <1>7 DEF Next, RunStep

\* After a sweep there is nothing left to do.
LEMMA SweptIsIdle == ContractInv /\ run = "swept" => ~Busy
<1>. SUFFICES ASSUME ContractInv, run = "swept"  PROVE ~Busy
  OBVIOUS
<1>1. toFeed = {} /\ \A g \in Goroutine : pool[g].stage = "done"
  BY DEF ContractInv, CompleteInv, PoolJoined
<1>2. jobs = {}
  BY <1>1, PoolAssumption DEF ContractInv, CompleteInv, PoolJoined, Sweeping
<1>. QED
  BY <1>1, <1>2 DEF Busy

\* Every step of the worker is one that the contract allows.
LEMMA ContractStep == ContractInv /\ [Next]_vars => [Contract!Next]_(Contract!vars)
<1>. SUFFICES ASSUME ContractInv, [Next]_vars  PROVE [Contract!Next]_(Contract!vars)
  OBVIOUS
<1>. USE DEF ContractInv, Contract!vars, Contract!Running
<1>0. /\ Busy' \in BOOLEAN /\ once \in BOOLEAN /\ out \in Seq(Update)
      /\ result = "none" <=> run # "returned"
  BY DEF Busy, CompleteInv, HonestInv, TypeInv, TypeOK, Ended
<1>1. ASSUME UNCHANGED <<once, out, cancelled, result>>, run # "returned"  PROVE Contract!Next
  <2>1. Len(out)' = Len(out)
    BY <1>1
  <2>2. Contract!Works
    BY <1>0, <1>1, <2>1, Zenon DEF Contract!Works
  <2>. QED
    BY <2>2 DEF Contract!Next
<1>2. ASSUME UNCHANGED <<run, jobVars, pool>>  PROVE Busy' = Busy
  BY <1>2 DEF Busy, jobVars
<1>3. ASSUME NEW value, Return(value), run # "returned",
             \/ once /\ ~Busy /\ ~cancelled /\ value = "nil"
             \/ cancelled /\ value = IF once THEN "canceled" ELSE "nil"
      PROVE  Contract!Next
  <2>1. /\ result = "none" /\ result' = value /\ UNCHANGED <<once, cancelled>>
        /\ Len(out)' = Len(out)
    BY <1>0, <1>3 DEF Return
  <2>2. Contract!Returns(value)
    BY <1>0, <2>1, Zenon DEF Contract!Returns
  <2>3. Contract!Completes \/ Contract!Obeys
    BY <1>3, <2>2 DEF Contract!Completes, Contract!Obeys
  <2>. QED
    BY <2>3 DEF Contract!Next
<1>4. CASE FirstSweep \/ TickSweep \/ RescanSweep \/ (\E h \in Host : Feed(h))
           \/ CloseJobs \/ SweepEnds
  BY <1>1, <1>4 DEF FirstSweep, TickSweep, RescanSweep, StartSweep, Feed, CloseJobs, SweepEnds,
                    runVars
<1>5. CASE ReturnOnce
  <2>1. once /\ run = "swept" /\ ~Busy
    BY <1>5, SweptIsIdle DEF ReturnOnce, Ended
  <2>. QED
    BY <1>3, <1>5, <2>1 DEF ReturnOnce
<1>6. CASE CancelledInDelay \/ ReturnIdle
  BY <1>3, <1>6 DEF CancelledInDelay, ReturnIdle, CompleteInv, PoolJoined
<1>7. ASSUME NEW g \in Goroutine, PoolStep(g)  PROVE Contract!Next
  <2>1. pool[g].stage # "done"
    BY <1>7, TakeEffect, ProbeStepEffect DEF Sound, CompleteInv, HonestInv
  <2>2. run # "returned"
    BY <2>1 DEF CompleteInv, PoolJoined
  <2>3. UNCHANGED <<once, out, cancelled, result>>
    BY <1>7, ProbeStepEffect DEF Take, probing, runVars, CompleteInv, HonestInv
  <2>. QED
    BY <1>1, <2>2, <2>3
<1>8. ASSUME NEW g \in Goroutine, Send(g)  PROVE Contract!Next
  <2>1. pool[g].stage = "send" /\ Len(out)' = Len(out) + 1 /\ Len(out) < OutCap
    BY <1>8, SendEffect DEF Send, Room, CompleteInv, HonestInv
  <2>2. result = "none" /\ UNCHANGED <<once, cancelled, result>>
    BY <1>0, <1>8, <2>1 DEF Send, runVars, CompleteInv, PoolJoined
  <2>3. Contract!Sends
    BY <1>0, <2>1, <2>2, Zenon DEF Contract!Sends
  <2>. QED
    BY <2>3 DEF Contract!Next
<1>9. CASE Environment
  <2>1. CASE Consume
    <3>1. Len(out) > 0 /\ Len(out)' = Len(out) - 1
      BY <1>0, <2>1 DEF Consume
    <3>2. Busy' = Busy /\ UNCHANGED <<once, cancelled, result>>
      BY <1>2, <2>1 DEF Consume, runVars
    <3>3. Contract!Receives
      BY <3>1, <3>2, Zenon DEF Contract!Receives
    <3>. QED
      BY <3>3 DEF Contract!Next
  <2>2. CASE (\E h \in Host : Confirm(h) \/ SwitchOff(h)) \/ Tick \/ TriggerSweep
    <3>1. UNCHANGED <<run, jobVars, pool, once, out, cancelled, result>>
      BY <2>2 DEF Confirm, SwitchOff, Tick, TriggerSweep, runVars
    <3>. QED
      BY <1>2, <3>1
  <2>3. CASE Cancel
    <3>1. /\ ~cancelled /\ cancelled' = TRUE /\ UNCHANGED <<run, jobVars, pool, once, out, result>>
      BY <2>3 DEF Cancel, runVars
    <3>2. Contract!Cancel
      BY <1>2, <3>1 DEF Contract!Cancel
    <3>. QED
      BY <3>2 DEF Contract!Next
  <2>. QED
    BY <1>9, <2>1, <2>2, <2>3 DEF Environment
<1>10. CASE Over \/ UNCHANGED vars
  <2>1. UNCHANGED <<run, jobVars, pool, once, out, cancelled, result>>
    BY <1>10 DEF Over, vars, runVars
  <2>. QED
    BY <1>2, <2>1
<1>. QED
  BY <1>4, <1>5, <1>6, <1>7, <1>8, <1>9, <1>10 DEF Next, RunStep

\* The safety part of WorkerSpec: however many goroutines probe, the worker sends only
\* while its Run is under way and only what the channel holds, a one-shot run returns nil
\* only with all hosts probed and ctx not done, a live one only after a cancellation.
THEOREM ActiveWorkerKeepsContract ==
    Spec => Contract!Init /\ [][Contract!Next]_(Contract!vars)
<1>1. Init => ContractInv
  BY CompleteInit DEF Init, ContractInv, Ended
<1>2. Init => Contract!Init
  <2>1. Busy \in BOOLEAN
    BY DEF Busy
  <2>. QED
    BY <2>1 DEF Init, Contract!Init
<1>. QED
  BY <1>1, <1>2, EndedStep, ContractStep, PTL DEF Spec
=============================================================================
