---------------------------- MODULE NodeSync ----------------------------
(***************************************************************************)
(* The panel and the agent of one node.  The agent's main goroutine boots, *)
(* then beats every 30 seconds and tries once a minute to recover from a    *)
(* fatal answer; a second goroutine tries once, five seconds after it.      *)
(* Both bootstrap the same way.  A heartbeat is three steps of the panel:   *)
(* the row, then configver and the user list, then usershash.               *)
(***************************************************************************)
EXTENDS NodePanel

Threads == {"loop", "rec"}

VARIABLES
    job,        \* job[t]: what t is doing
    pc,         \* pc[t]: its next step
    got,        \* got[t]: the list GetConfig gave it
    cfg,        \* a.xrayCfgJSON: the list of the last configuration, or None
    run,        \* the list the proxy runs with, None if it is not running
    fatal,      \* a.fatalShutdown
    recovering, \* a.recoverInProgress
    sleeping,   \* the goroutine of handleFatalShutdown sleeps its five seconds
    restarts,   \* restarts of a dead proxy within ten minutes
    beat        \* the heartbeat in the panel's hands: version and list it has read

agentVars == <<job, pc, got, cfg, run, fatal, recovering, sleeping, restarts, beat>>
vars == <<panelVars, agentVars>>

MaxRestarts == 3

NoBeat == [ver |-> 1, list |-> {}, changed |-> FALSE]

TypeOK ==
    /\ PanelTypeOK
    /\ job \in [Threads -> {"start", "beat", "reload", "restart", "recover"}]
    /\ pc \in [Threads -> {"idle", "register", "pull", "apply", "clear", "row", "version",
                           "hash", "stop"}]
    /\ got \in [Threads -> {None} \cup SUBSET Users]
    /\ cfg \in {None} \cup SUBSET Users /\ run \in {None} \cup SUBSET Users
    /\ fatal \in BOOLEAN /\ recovering \in BOOLEAN /\ sleeping \in BOOLEAN
    /\ restarts \in 0..MaxRestarts
    /\ beat \in [ver : Versions, list : SUBSET Users, changed : BOOLEAN]

NoLists == [t \in Threads |-> None]
FirstJob == [t \in Threads |-> IF t = "loop" THEN "start" ELSE "recover"]
FirstStep == [t \in Threads |-> IF t = "loop" THEN "register" ELSE "idle"]

AgentInit ==
    /\ job = FirstJob /\ pc = FirstStep /\ got = NoLists
    /\ cfg = None /\ run = None
    /\ fatal = FALSE /\ recovering = FALSE /\ sleeping = FALSE
    /\ restarts = 0
    /\ beat = NoBeat

\* The process starts over, with nothing but its environment variables.
Reboots ==
    /\ job' = FirstJob /\ pc' = FirstStep /\ got' = NoLists
    /\ cfg' = None /\ run' = None
    /\ fatal' = FALSE /\ recovering' = FALSE /\ sleeping' = FALSE
    /\ restarts' = 0
    /\ beat' = NoBeat

Init == PanelInit /\ AgentInit

Go(t, j, step) == job' = [job EXCEPT ![t] = j] /\ pc' = [pc EXCEPT ![t] = step]
Step(t, step) == pc' = [pc EXCEPT ![t] = step] /\ UNCHANGED job

-----------------------------------------------------------------------------
(* bootstrap, reloadConfig and applyConfig                                 *)

\* A bootstrap that fails leaves the agent waiting: main's tries again after five
\* minutes, a recovery ends.
GivesUpHeld(t) ==
    Step(t, IF job[t] = "recover" THEN "idle" ELSE "register") /\ UNCHANGED recovering
GivesUp(t) ==
    IF job[t] = "recover"
      THEN Step(t, "idle") /\ recovering' = FALSE
      ELSE Step(t, "register") /\ UNCHANGED recovering

Register(t) ==
    /\ pc[t] = "register"
    /\ \/ Admits
          /\ row' = [row EXCEPT !.online = TRUE]
          /\ Step(t, "pull") /\ UNCHANGED recovering
       \/ ~Admits
          /\ GivesUp(t) /\ UNCHANGED row
    /\ UNCHANGED <<ops, changes, oldToken, active, configver, usershash, pending, form, picked>>
    /\ UNCHANGED <<got, cfg, run, fatal, sleeping, restarts, beat>>

Pull(t) ==
    /\ pc[t] = "pull"
    /\ HandsOut
    /\ got' = [got EXCEPT ![t] = active]
    /\ Step(t, "apply")
    /\ UNCHANGED <<panelVars, cfg, run, fatal, recovering, sleeping, restarts, beat>>

\* GetConfig fails.  A reload is not tried again; a restart, and a bootstrap after thirty
\* attempts, go on with the configuration there is.
PullFails(t) ==
    /\ pc[t] = "pull"
    /\ \/ ~HandsOut /\ UNCHANGED <<ops, changes>>
       \/ Take("down")
    /\ \/ job[t] = "reload"
          /\ Go(t, "beat", "idle") /\ UNCHANGED <<got, recovering>>
       \/ job[t] # "reload" /\ cfg # None
          /\ got' = [got EXCEPT ![t] = cfg]
          /\ Step(t, "apply") /\ UNCHANGED recovering
       \/ job[t] # "reload" /\ cfg = None
          /\ GivesUp(t) /\ UNCHANGED got
    /\ UNCHANGED <<row, oldToken, active, configver, usershash, pending, form, picked>>
    /\ UNCHANGED <<cfg, run, fatal, sleeping, restarts, beat>>

\* applyConfig, under applyMu: the proxy is (re)started, or does not come up.
Apply(t) ==
    /\ pc[t] = "apply"
    /\ cfg' = got[t]
    /\ got' = [got EXCEPT ![t] = None]
    /\ \/ /\ run' = got[t]
          /\ CASE job[t] = "restart" -> Go(t, "beat", "row")
               [] job[t] = "recover" -> Step(t, "clear")
               [] OTHER -> Go(t, "beat", "idle")
          /\ UNCHANGED <<panelVars, recovering>>
       \/ /\ Take("xray")
          /\ run' = None
          /\ CASE job[t] = "restart" -> Go(t, "beat", "row") /\ UNCHANGED recovering
               [] job[t] = "reload" -> Go(t, "beat", "idle") /\ UNCHANGED recovering
               [] OTHER -> GivesUp(t)
          /\ UNCHANGED <<row, oldToken, active, configver, usershash, pending, form, picked>>
    /\ UNCHANGED <<fatal, sleeping, restarts, beat>>

-----------------------------------------------------------------------------
(* tryRecoverFromFatal and handleFatalShutdown                             *)

\* recoverInProgress is compared and set at once.
MayRecoverAgain == fatal
MayRecover == fatal /\ ~recovering

\* recoverTicker, once a minute: in the main goroutine, only while in shutdown.
TickerRecovers ==
    /\ pc["loop"] = "idle" /\ job["loop"] = "beat"
    /\ MayRecover
    /\ recovering' = TRUE
    /\ Go("loop", "recover", "register")
    /\ UNCHANGED <<panelVars, got, cfg, run, fatal, sleeping, restarts, beat>>

\* The goroutine wakes up; it does not ask whether the agent is still in shutdown.
SleeperRecovers ==
    /\ sleeping
    /\ sleeping' = FALSE
    /\ IF recovering
         THEN UNCHANGED <<recovering, job, pc>>
         ELSE recovering' = TRUE /\ Go("rec", "recover", "register")
    /\ UNCHANGED <<panelVars, got, cfg, run, fatal, restarts, beat>>

Recovered(t) ==
    /\ pc[t] = "clear"
    /\ fatal' = FALSE
    /\ recovering' = FALSE
    /\ Go(t, IF t = "loop" THEN "beat" ELSE "recover", "idle")
    /\ UNCHANGED <<panelVars, got, cfg, run, sleeping, restarts, beat>>

\* A failed recovery of the main goroutine returns to the loop.
LoopResumes ==
    /\ pc["loop"] = "idle" /\ job["loop"] = "recover"
    /\ Go("loop", "beat", "idle")
    /\ UNCHANGED <<panelVars, got, cfg, run, fatal, recovering, sleeping, restarts, beat>>

StopProxy ==
    /\ pc["loop"] = "stop"
    /\ run' = None
    /\ sleeping' = TRUE
    /\ Go("loop", "beat", "idle")
    /\ UNCHANGED <<panelVars, got, cfg, fatal, recovering, restarts, beat>>

-----------------------------------------------------------------------------
(* doHeartbeat                                                             *)

\* autoRestartXray first: at most three times in ten minutes.
Dead == run = None /\ restarts < MaxRestarts

BeatStarts ==
    /\ pc["loop"] = "idle" /\ job["loop"] = "beat"
    /\ ~fatal
    /\ IF Dead
         THEN restarts' = restarts + 1 /\ Go("loop", "restart", "pull")
         ELSE Go("loop", "beat", "row") /\ UNCHANGED restarts
    /\ UNCHANGED <<panelVars, got, cfg, run, fatal, recovering, sleeping, beat>>

RestartWindowPasses ==
    /\ restarts > 0
    /\ restarts' = restarts - 1
    /\ UNCHANGED <<panelVars, job, pc, got, cfg, run, fatal, recovering, sleeping, beat>>

\* Heartbeat, the row: online is written; an overloaded node has its keys deleted and its
\* row touched after it was read, one whose speed limit changes its configver alone.
Touched == [row EXCEPT !.online = TRUE]

BeatRow ==
    /\ pc["loop"] = "row"
    /\ Answers
    /\ beat' = [beat EXCEPT !.ver = row.ver]
    /\ \/ row' = Touched
          /\ UNCHANGED <<ops, changes, configver, usershash>>
       \/ Take("load")
          /\ configver' = None
          /\ \/ usershash' = None /\ row' = [Touched EXCEPT !.ver = Unseen({})]
             \/ row' = Touched /\ UNCHANGED usershash
    /\ Step("loop", "version")
    /\ UNCHANGED <<oldToken, active, pending, form, picked>>
    /\ UNCHANGED <<got, cfg, run, fatal, recovering, sleeping, restarts>>

\* NotFound, Unauthenticated, PermissionDenied.
BeatRefused ==
    /\ pc["loop"] = "row"
    /\ ~Answers
    /\ IF fatal THEN Step("loop", "idle") ELSE Step("loop", "stop")
    /\ fatal' = TRUE
    /\ UNCHANGED <<panelVars, got, cfg, run, recovering, sleeping, restarts, beat>>

\* The panel is not reached.
BeatFails ==
    /\ pc["loop"] = "row"
    /\ Take("down")
    /\ Step("loop", "idle")
    /\ UNCHANGED <<row, oldToken, active, configver, usershash, pending, form, picked>>
    /\ UNCHANGED <<got, cfg, run, fatal, recovering, sleeping, restarts, beat>>

\* configver is compared with the version read before, and the list is read; with Redis
\* failing the answer is "changed" and nothing is stored.
BeatVersion ==
    /\ pc["loop"] = "version"
    /\ \/ configver' = beat.ver
          /\ beat' = [beat EXCEPT !.list = active, !.changed = (configver # beat.ver)]
          /\ UNCHANGED <<ops, changes>>
       \/ Take("redis")
          /\ beat' = [beat EXCEPT !.list = active, !.changed = TRUE]
          /\ UNCHANGED configver
    /\ Step("loop", "hash")
    /\ UNCHANGED <<row, oldToken, active, usershash, pending, form, picked>>
    /\ UNCHANGED <<got, cfg, run, fatal, recovering, sleeping, restarts>>

OutOfDate == beat.changed \/ usershash # beat.list

Answered(outOfDate) ==
    IF outOfDate THEN Go("loop", "reload", "pull") ELSE Go("loop", "beat", "idle")

BeatHash ==
    /\ pc["loop"] = "hash"
    /\ beat' = NoBeat
    /\ \/ /\ usershash' = beat.list
          /\ Answered(OutOfDate)
          /\ UNCHANGED <<ops, changes>>
       \/ /\ Take("query")
          /\ Answered(beat.changed)
          /\ UNCHANGED usershash
       \/ /\ Take("redis")
          /\ Answered(TRUE)
          /\ UNCHANGED usershash
       \/ /\ Take("lost")
          /\ usershash' = beat.list
          /\ Go("loop", "beat", "idle")
    /\ UNCHANGED <<row, oldToken, active, configver, pending, form, picked>>
    /\ UNCHANGED <<got, cfg, run, fatal, recovering, sleeping, restarts>>

-----------------------------------------------------------------------------
(* Failures, and the administrator on the node                             *)

XrayDies ==
    /\ Take("xray")
    /\ run # None
    /\ run' = None
    /\ UNCHANGED <<row, oldToken, active, configver, usershash, pending, form, picked>>
    /\ UNCHANGED <<job, pc, got, cfg, fatal, recovering, sleeping, restarts, beat>>

AgentCrashes ==
    /\ Take("crash")
    /\ Reboots
    /\ UNCHANGED <<row, oldToken, active, configver, usershash, pending, form, picked>>

\* The agent is deployed again, with the token the row has now; an open edit form has the
\* same one if its row was read since the last rotation.
Redeploy ==
    /\ Take("redeploy")
    /\ ~row.gone
    /\ row' = [row EXCEPT !.mine = TRUE]
    /\ oldToken' = FALSE
    /\ \E same \in BOOLEAN :
         form' = {[n EXCEPT !.mine = IF row.mine THEN @ ELSE ~@ /\ same] : n \in form}
    /\ Reboots
    /\ UNCHANGED <<active, configver, usershash, pending, picked>>

-----------------------------------------------------------------------------
Bootstrap(t) == Register(t) \/ Pull(t) \/ PullFails(t) \/ Apply(t) \/ Recovered(t)

Beating == BeatStarts \/ BeatRow \/ BeatRefused \/ BeatVersion \/ BeatHash

\* Versions that must not be taken for new.
Held == {beat.ver}

Next ==
    \/ PanelNext(Held) /\ UNCHANGED agentVars
    \/ \E t \in Threads : Bootstrap(t)
    \/ TickerRecovers \/ SleeperRecovers \/ LoopResumes \/ StopProxy
    \/ Beating \/ BeatFails \/ RestartWindowPasses
    \/ XrayDies \/ AgentCrashes \/ Redeploy

Spec == Init /\ [][Next]_vars

\* Handlers finish, the agent's goroutines run, ten minutes pass.  Nothing obliges the
\* administrator, the customers or the faults.
Fairness ==
    /\ WF_vars(ClearKeys /\ UNCHANGED agentVars)
    /\ WF_vars(PanelFinishes(Held) /\ UNCHANGED agentVars)
    /\ \A t \in Threads : WF_vars(Bootstrap(t))
    /\ WF_vars(TickerRecovers) /\ WF_vars(SleeperRecovers) /\ WF_vars(LoopResumes)
    /\ WF_vars(StopProxy) /\ WF_vars(Beating) /\ WF_vars(RestartWindowPasses)

FairSpec == Spec /\ Fairness

-----------------------------------------------------------------------------
(* Correctness                                                             *)

Bootstrapping(t) == job[t] \in {"start", "recover"} /\ pc[t] # "idle"

\* A bootstrap writes the agent's shared state, so two must never run at once: the
\* ticker's and the sleeping goroutine's attempts exclude each other.
OneBootstrap == ~(Bootstrapping("loop") /\ Bootstrapping("rec"))

\* Nobody is served who was not on the panel's list when a configuration was fetched.
Access == INSTANCE NodeAccess WITH
    listed <- active, fetched <- got, last <- cfg, served <- run
ImplementsAccess == Access!AccessSpec

\* Once nothing changes any more, a node the panel would answer serves the present list.
\* Not so, because nothing repeats what the keys say was delivered: after an answer to a
\* heartbeat got lost or a reload failed; if the goroutine that sleeps after a fatal answer
\* bootstraps although the main one has recovered, as its older list may be applied last;
\* and if a list that was fetched between two heartbeats is undone before the next by a
\* change that clears no key (who pays after going, who lapses after coming), as the list is
\* then again what the hash says.  With nobody left on the list the panel hands out nothing
\* and the node keeps the last one.
Unreliable == {"lost", "down"}
LateRecovery == pc["rec"] # "idle" /\ ~fatal
Undone ==
    \/ "pay" \in ops /\ ops \cap {"lapse", "revoke"} # {}
    \/ "lapse" \in ops /\ "grant" \in ops

\* A node that has been disabled or deleted stops serving, unless it is enabled again.
WithdrawnStops == (~row.enabled \/ row.gone) ~> (run = None \/ (row.enabled /\ ~row.gone))

\* A fatal answer is not the end: an agent the panel would admit again leaves the shutdown.
ShutdownEnds == <>[](Admits /\ active # {} => ~fatal)

=============================================================================
