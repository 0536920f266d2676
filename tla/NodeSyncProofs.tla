--------------------------- MODULE NodeSyncProofs ---------------------------
(***************************************************************************)
(* Proofs about NodeSync for any customers, operations and faults.         *)
(***************************************************************************)
EXTENDS NodeSync, TLAPS

\* The goroutine that sleeps after a fatal answer does nothing but recover; whoever
\* recovers holds recoverInProgress; main's own bootstrap is over before the first
\* heartbeat, and only a heartbeat's answer makes the other goroutine sleep.
Alone ==
    /\ job["rec"] = "recover"
    /\ pc["rec"] \in {"idle", "register", "pull", "apply", "clear"}
    /\ pc["rec"] # "idle" => recovering
    /\ job["loop"] = "recover" /\ pc["loop"] # "idle" => recovering /\ pc["rec"] = "idle"
    /\ pc["loop"] = "clear" => job["loop"] = "recover"
    /\ job["loop"] = "start" =>
         pc["loop"] \in {"register", "pull", "apply"} /\ ~sleeping /\ pc["rec"] = "idle"

\* Who is about to apply a configuration has one.
Ready == \A t \in Threads : pc[t] = "apply" => got[t] # None

IInv == TypeOK /\ Alone /\ Ready

-----------------------------------------------------------------------------
(* Types                                                                   *)

\* One of the four versions is not in use.
LEMMA UnseenTyped ==
    ASSUME TypeOK PROVE Unseen(Held) \in Versions /\ Unseen({}) \in Versions
<1>1. PICK v \in Versions : v \notin {row.ver, configver, beat.ver}
  <2>1. row.ver \in 1..4 /\ beat.ver \in 1..4
    BY DEF TypeOK, PanelTypeOK, NodeRow, Versions
  <2>2. \E v \in 1..4 : v # row.ver /\ v # configver /\ v # beat.ver
    <3>1. CASE configver \in 1..4 BY <2>1, <3>1
    <3>2. CASE configver \notin 1..4 BY <2>1, <3>2
    <3> QED BY <3>1, <3>2
  <2> QED BY <2>2 DEF Versions
<1>2. v \notin {row.ver, configver} \cup Held /\ v \notin {row.ver, configver} \cup {}
  BY <1>1 DEF Held
<1> QED BY <1>2 DEF Unseen

LEMMA TakeTyped == ASSUME TypeOK, NEW op, Take(op) PROVE ops' = ops /\ changes' \in Nat
BY DEF TypeOK, PanelTypeOK, Take

\* What the panel's handlers, cron and administrator write.
LEMMA PanelTyped == ASSUME TypeOK, PanelNext(Held) PROVE PanelTypeOK'
<1> USE DEF TypeOK, PanelTypeOK
<1>1. ASSUME NEW u \in Users, GrantUser(u) \/ PayUser(u) \/ RevokeUser(u) \/ Lapse(u)
      PROVE  PanelTypeOK'
  <2>1. ops' = ops /\ changes' \in Nat
    BY <1>1, TakeTyped DEF GrantUser, PayUser, RevokeUser, Lapse
  <2>2. CASE GrantUser(u)
    BY <2>1, <2>2 DEF GrantUser, Duties
  <2>3. CASE RevokeUser(u)
    BY <2>1, <2>3 DEF RevokeUser, Duties
  <2>4. CASE Lapse(u)
    BY <2>1, <2>4 DEF Lapse
  <2>5. CASE PayUser(u)
    BY <2>1, <2>5 DEF PayUser
  <2> QED BY <1>1, <2>2, <2>3, <2>4, <2>5
<1>2. ASSUME NEW f \in {"enable", "disable", "other"}, EditRead(f) PROVE PanelTypeOK'
  <2>1. ops' = ops /\ changes' \in Nat
    BY <1>2, TakeTyped DEF EditRead
  <2>2. PICK r \in NodeRow : form' = {r}
    BY <1>2 DEF EditRead, NodeRow
  <2>3. form' \in Forms
    BY ONLY <2>2 DEF Forms
  <2> QED BY <1>2, <2>1, <2>3 DEF EditRead
<1>3. CASE EditSave(Held)
  <2>1. row' \in NodeRow
    <3>1. PICK n \in NodeRow : row' = [n EXCEPT !.ver = Unseen(Held)]
      <4>1. PICK n \in form : row' = [n EXCEPT !.ver = Unseen(Held)]
        BY ONLY <1>3 DEF EditSave
      <4>2. n \in NodeRow
        <5>1. form \in Forms
          OBVIOUS
        <5> QED BY ONLY <4>1, <5>1 DEF Forms
      <4> QED BY <4>1, <4>2
    <3> QED BY <3>1, UnseenTyped DEF NodeRow
  <2>2. form' \in Forms
    BY <1>3 DEF EditSave, Forms
  <2> QED BY <1>3, <2>1, <2>2 DEF EditSave, Duties
<1>4. CASE DeleteNode(Held) \/ RotateToken(Held) \/ StaleMark(Held)
  <2>1. row' \in NodeRow
    BY <1>4, UnseenTyped DEF DeleteNode, RotateToken, StaleMark, NodeRow
  <2>2. ops' = ops /\ changes' \in Nat
    BY <1>4, TakeTyped DEF DeleteNode, RotateToken, StaleMark
  <2>3. pending' \subseteq Duties
    BY <1>4 DEF DeleteNode, RotateToken, StaleMark, Duties
  <2> QED BY <1>4, <2>1, <2>2, <2>3 DEF DeleteNode, RotateToken, StaleMark
<1>5. CASE ClearKeys \/ ClearNodeKeys \/ ForgetKeys \/ RotateKeys
  <2>1. pending' \subseteq Duties
    BY <1>5 DEF ClearKeys, ClearNodeKeys, ForgetKeys, RotateKeys
  <2>3. configver' \in {None, configver} /\ usershash' \in {None, usershash}
    BY <1>5 DEF ClearKeys, ClearNodeKeys, ForgetKeys, RotateKeys
  <2>4. UNCHANGED <<ops, changes, row, active, form, picked>>
    BY <1>5 DEF ClearKeys, ClearNodeKeys, ForgetKeys, RotateKeys
  <2>5. oldToken' \in BOOLEAN
    <3>1. CASE RotateKeys
      BY <3>1 DEF RotateKeys
    <3>2. CASE ~RotateKeys
      BY <1>5, <3>2 DEF ClearKeys, ClearNodeKeys, ForgetKeys
    <3> QED BY <3>1, <3>2
  <2> QED BY <2>1, <2>3, <2>4, <2>5
<1>6. CASE PingNode \/ GraceEnds \/ StalePick
  <2>1. ops' = ops /\ changes' \in Nat
    BY <1>6, TakeTyped DEF PingNode, GraceEnds, StalePick
  <2>2. row' \in NodeRow
    <3>1. \A b \in BOOLEAN : [row EXCEPT !.online = b] \in NodeRow
      BY DEF NodeRow
    <3> QED BY <1>6, <3>1 DEF PingNode, GraceEnds, StalePick
  <2>3. pending' \subseteq Duties
    BY <1>6 DEF PingNode, GraceEnds, StalePick, Duties
  <2> QED BY <1>6, <2>1, <2>2, <2>3 DEF PingNode, GraceEnds, StalePick
<1> QED BY <1>1, <1>2, <1>3, <1>4, <1>5, <1>6 DEF PanelNext

LEMMA OnlineTyped ==
    ASSUME TypeOK, NEW b \in BOOLEAN PROVE [row EXCEPT !.online = b] \in NodeRow
BY DEF TypeOK, PanelTypeOK, NodeRow

\* Registering, fetching, applying and giving up.
LEMMA BootstrapTyped == ASSUME TypeOK, NEW t \in Threads, Bootstrap(t) PROVE TypeOK'
<1> USE DEF TypeOK, PanelTypeOK
<1>1. CASE Register(t)
  <2>1. row' \in NodeRow
    BY <1>1, OnlineTyped DEF Register
  <2>2. pc' \in [Threads -> {"idle", "register", "pull", "apply", "clear", "row", "version",
                             "hash", "stop"}]
    BY <1>1 DEF Register, Step, GivesUp
  <2>3. UNCHANGED job /\ recovering' \in BOOLEAN
    BY <1>1 DEF Register, Step, GivesUp
  <2> QED BY <1>1, <2>1, <2>2, <2>3 DEF Register
<1>2. CASE Pull(t)
  BY <1>2 DEF Pull, Step, panelVars
<1>3. CASE PullFails(t)
  <2>1. ops' = ops /\ changes' \in Nat
    BY <1>3, TakeTyped DEF PullFails
  <2>2. /\ job' \in [Threads -> {"start", "beat", "reload", "restart", "recover"}]
        /\ recovering' \in BOOLEAN
    BY <1>3 DEF PullFails, Step, Go, GivesUp
  <2>3. pc' \in [Threads -> {"idle", "register", "pull", "apply", "clear", "row", "version",
                             "hash", "stop"}]
    BY <1>3 DEF PullFails, Step, Go, GivesUp
  <2>4. got' \in [Threads -> {None} \cup SUBSET Users]
    BY <1>3 DEF PullFails
  <2> QED BY <1>3, <2>1, <2>2, <2>3, <2>4 DEF PullFails
<1>4. CASE Apply(t)
  <2>1. PanelTypeOK'
    <3>1. ops' = ops /\ changes' \in Nat
      BY <1>4, TakeTyped DEF Apply, panelVars
    <3> QED BY <1>4, <3>1 DEF Apply, panelVars
  <2>2. got' \in [Threads -> {None} \cup SUBSET Users]
    BY <1>4 DEF Apply
  <2>3. cfg' \in {None} \cup SUBSET Users /\ run' \in {None} \cup SUBSET Users
    BY <1>4 DEF Apply
  <2>4. /\ job' \in [Threads -> {"start", "beat", "reload", "restart", "recover"}]
        /\ recovering' \in BOOLEAN
    BY <1>4 DEF Apply, Step, Go, GivesUp
  <2>5. pc' \in [Threads -> {"idle", "register", "pull", "apply", "clear", "row", "version",
                             "hash", "stop"}]
    BY <1>4 DEF Apply, Step, Go, GivesUp
  <2> QED BY <1>4, <2>1, <2>2, <2>3, <2>4, <2>5 DEF Apply
<1>5. CASE Recovered(t)
  BY <1>5 DEF Recovered, Go, panelVars
<1> QED BY <1>1, <1>2, <1>3, <1>4, <1>5 DEF Bootstrap

\* The heartbeats.
LEMMA BeatingTyped == ASSUME TypeOK, Beating \/ BeatFails PROVE TypeOK'
<1> USE DEF TypeOK, PanelTypeOK
<1>1. CASE BeatStarts
  <2>1. restarts' \in 0..MaxRestarts
    BY <1>1 DEF BeatStarts, Dead, MaxRestarts
  <2> QED BY <1>1, <2>1 DEF BeatStarts, Go, panelVars
<1>2. CASE BeatRow
  <2>1. row' \in NodeRow
    <3>1. Touched \in NodeRow
      BY OnlineTyped DEF Touched
    <3>2. [Touched EXCEPT !.ver = Unseen({})] \in NodeRow
      BY <3>1, UnseenTyped DEF NodeRow
    <3> QED BY <1>2, <3>1, <3>2 DEF BeatRow
  <2>2. ops' = ops /\ changes' \in Nat
    BY <1>2, TakeTyped DEF BeatRow
  <2>3. beat' \in [ver : Versions, list : SUBSET Users, changed : BOOLEAN]
    BY <1>2 DEF BeatRow, NodeRow
  <2>4. configver' \in Versions \cup {None} /\ usershash' \in {None} \cup SUBSET Users
    BY <1>2 DEF BeatRow
  <2> QED BY <1>2, <2>1, <2>2, <2>3, <2>4 DEF BeatRow, Step
<1>3. CASE BeatRefused
  BY <1>3 DEF BeatRefused, Step, panelVars
<1>4. CASE BeatFails
  <2>1. ops' = ops /\ changes' \in Nat
    BY <1>4, TakeTyped DEF BeatFails
  <2> QED BY <1>4, <2>1 DEF BeatFails, Step
<1>5. CASE BeatVersion
  <2>1. ops' = ops /\ changes' \in Nat
    BY <1>5, TakeTyped DEF BeatVersion
  <2>2. beat' \in [ver : Versions, list : SUBSET Users, changed : BOOLEAN]
    <3>1. \A b \in BOOLEAN : [beat EXCEPT !.list = active, !.changed = b]
                               \in [ver : Versions, list : SUBSET Users, changed : BOOLEAN]
      OBVIOUS
    <3>2. (configver # beat.ver) \in BOOLEAN
      OBVIOUS
    <3> QED BY <1>5, <3>1, <3>2 DEF BeatVersion
  <2>3. configver' \in Versions \cup {None}
    BY <1>5 DEF BeatVersion
  <2> QED BY <1>5, <2>1, <2>2, <2>3 DEF BeatVersion, Step
<1>6. CASE BeatHash
  <2>1. ops' = ops /\ changes' \in Nat
    BY <1>6, TakeTyped DEF BeatHash
  <2>2. usershash' \in {None} \cup SUBSET Users
    BY <1>6 DEF BeatHash
  <2>3. beat' \in [ver : Versions, list : SUBSET Users, changed : BOOLEAN]
    BY <1>6 DEF BeatHash, NoBeat, Versions, Answered
  <2> QED BY <1>6, <2>1, <2>2, <2>3 DEF BeatHash, Answered, Go
<1> QED BY <1>1, <1>2, <1>3, <1>4, <1>5, <1>6 DEF Beating

\* Recovery, failures, and the administrator on the node.
LEMMA RestTyped ==
    ASSUME TypeOK,
           \/ TickerRecovers \/ SleeperRecovers \/ LoopResumes \/ StopProxy
           \/ RestartWindowPasses \/ XrayDies \/ AgentCrashes \/ Redeploy
    PROVE  TypeOK'
<1> USE DEF TypeOK, PanelTypeOK
<1>1. CASE TickerRecovers \/ SleeperRecovers \/ LoopResumes \/ StopProxy
  <2>1. CASE TickerRecovers
    BY <2>1 DEF TickerRecovers, Go, panelVars
  <2>2. CASE SleeperRecovers
    <3>1. CASE recovering
      <4>1. /\ sleeping' = FALSE
            /\ UNCHANGED <<panelVars, recovering, job, pc, got, cfg, run, fatal, restarts, beat>>
        BY <2>2, <3>1 DEF SleeperRecovers
      <4> QED BY <4>1 DEF panelVars
    <3>2. CASE ~recovering
      <4>1. /\ recovering' = TRUE /\ sleeping' = FALSE
            /\ UNCHANGED <<panelVars, got, cfg, run, fatal, restarts, beat>>
            /\ job' = [job EXCEPT !["rec"] = "recover"] /\ pc' = [pc EXCEPT !["rec"] = "register"]
        BY <2>2, <3>2 DEF SleeperRecovers, Go
      <4> QED BY <4>1 DEF panelVars
    <3> QED BY <3>1, <3>2
  <2>3. CASE LoopResumes
    BY <2>3 DEF LoopResumes, Go, panelVars
  <2>4. CASE StopProxy
    BY <2>4 DEF StopProxy, Go, panelVars
  <2> QED BY <1>1, <2>1, <2>2, <2>3, <2>4
<1>2. CASE RestartWindowPasses
  <2>1. restarts' \in 0..MaxRestarts
    BY <1>2 DEF RestartWindowPasses, MaxRestarts
  <2> QED BY <1>2, <2>1 DEF RestartWindowPasses, panelVars
<1>3. CASE XrayDies
  BY <1>3, TakeTyped DEF XrayDies
<1>4. ASSUME Reboots
      PROVE  /\ job' \in [Threads -> {"start", "beat", "reload", "restart", "recover"}]
             /\ pc' \in [Threads -> {"idle", "register", "pull", "apply", "clear", "row",
                                     "version", "hash", "stop"}]
             /\ got' \in [Threads -> {None} \cup SUBSET Users]
             /\ cfg' \in {None} \cup SUBSET Users /\ run' \in {None} \cup SUBSET Users
             /\ fatal' \in BOOLEAN /\ recovering' \in BOOLEAN /\ sleeping' \in BOOLEAN
             /\ restarts' \in 0..MaxRestarts
             /\ beat' \in [ver : Versions, list : SUBSET Users, changed : BOOLEAN]
  <2>1. FirstJob \in [Threads -> {"start", "beat", "reload", "restart", "recover"}]
    BY DEF FirstJob
  <2>2. FirstStep \in [Threads -> {"idle", "register", "pull", "apply", "clear", "row",
                                   "version", "hash", "stop"}]
    BY DEF FirstStep
  <2>3. NoLists \in [Threads -> {None} \cup SUBSET Users]
    BY DEF NoLists
  <2>4. NoBeat \in [ver : Versions, list : SUBSET Users, changed : BOOLEAN]
    BY DEF NoBeat, Versions
  <2>5. 0 \in 0..MaxRestarts
    BY DEF MaxRestarts
  <2> QED BY <1>4, <2>1, <2>2, <2>3, <2>4, <2>5 DEF Reboots
<1>5. CASE AgentCrashes
  <2>1. ops' = ops /\ changes' \in Nat
    BY <1>5, TakeTyped DEF AgentCrashes
  <2> QED BY <1>4, <1>5, <2>1 DEF AgentCrashes
<1>6. CASE Redeploy
  <2>1. ops' = ops /\ changes' \in Nat
    BY <1>6, TakeTyped DEF Redeploy
  <2>2. row' \in NodeRow
    BY <1>6 DEF Redeploy, NodeRow
  <2>3. form' \in Forms
    <3>1. ASSUME NEW same \in BOOLEAN,
                 form' = {[n EXCEPT !.mine = IF row.mine THEN @ ELSE ~@ /\ same] : n \in form}
          PROVE  form' \in Forms
      <4> DEFINE Carried(n) == [n EXCEPT !.mine = IF row.mine THEN @ ELSE ~@ /\ same]
      <4>1. \A n \in NodeRow : Carried(n) \in NodeRow
        BY DEF NodeRow
      <4>2. form' = {Carried(n) : n \in form}
        BY <3>1
      <4>3. form = {} \/ \E n \in NodeRow : form = {n}
        BY DEF Forms
      <4> HIDE DEF Carried
      <4>4. form' = {} \/ \E n \in NodeRow : form' = {Carried(n)}
        BY <4>2, <4>3
      <4> QED BY ONLY <4>1, <4>4 DEF Forms
    <3> QED BY <1>6, <3>1 DEF Redeploy
  <2> QED BY <1>4, <1>6, <2>1, <2>2, <2>3 DEF Redeploy
<1> QED BY <1>1, <1>2, <1>3, <1>5, <1>6

LEMMA TypeStep == TypeOK /\ [Next]_vars => TypeOK'
<1> SUFFICES ASSUME TypeOK, [Next]_vars PROVE TypeOK'
  OBVIOUS
<1>1. CASE PanelNext(Held) /\ UNCHANGED agentVars
  BY <1>1, PanelTyped DEF TypeOK, agentVars
<1>2. CASE UNCHANGED vars
  BY <1>2 DEF TypeOK, PanelTypeOK, vars, panelVars, agentVars
<1> QED BY <1>1, <1>2, BootstrapTyped, BeatingTyped, RestTyped DEF Next

-----------------------------------------------------------------------------
(* One bootstrap at a time                                                 *)

LEMMA AloneStep == IInv /\ [Next]_vars => Alone'
<1> SUFFICES ASSUME IInv, [Next]_vars PROVE Alone'
  OBVIOUS
<1>0. /\ job \in [Threads -> {"start", "beat", "reload", "restart", "recover"}]
      /\ pc \in [Threads -> {"idle", "register", "pull", "apply", "clear", "row", "version",
                             "hash", "stop"}]
      /\ Alone /\ Threads = {"loop", "rec"}
  BY DEF IInv, TypeOK, Threads
<1> USE <1>0 DEF Alone
<1>1. CASE UNCHANGED <<job, pc, recovering, sleeping>>
  BY <1>1
<1>2. CASE PanelNext(Held) /\ UNCHANGED agentVars
  BY <1>1, <1>2 DEF agentVars
<1>3. ASSUME NEW t \in Threads, Register(t) PROVE Alone'
  BY <1>3 DEF Register, Step, GivesUp
<1>4. ASSUME NEW t \in Threads, Pull(t) PROVE Alone'
  BY <1>4 DEF Pull, Step
<1>5. ASSUME NEW t \in Threads, PullFails(t) PROVE Alone'
  BY <1>5 DEF PullFails, Step, Go, GivesUp
<1>6. ASSUME NEW t \in Threads, Apply(t) PROVE Alone'
  BY <1>6 DEF Apply, Step, Go, GivesUp
<1>7. ASSUME NEW t \in Threads, Recovered(t) PROVE Alone'
  BY <1>7 DEF Recovered, Go
<1>8. CASE TickerRecovers
  BY <1>8 DEF TickerRecovers, Go, MayRecover
<1>9. CASE SleeperRecovers
  BY <1>9 DEF SleeperRecovers, Go
<1>10. CASE LoopResumes \/ StopProxy
  BY <1>10 DEF LoopResumes, StopProxy, Go
<1>11. CASE Beating \/ BeatFails
  BY <1>11 DEF Beating, BeatStarts, BeatRow, BeatRefused, BeatVersion, BeatHash, BeatFails,
               Answered, Step, Go
<1>12. CASE RestartWindowPasses \/ XrayDies
  BY <1>1, <1>12 DEF RestartWindowPasses, XrayDies
<1>13. CASE AgentCrashes \/ Redeploy
  BY <1>13 DEF AgentCrashes, Redeploy, Reboots, FirstJob, FirstStep
<1>14. CASE UNCHANGED vars
  BY <1>1, <1>14 DEF vars, agentVars
<1> QED BY <1>2, <1>3, <1>4, <1>5, <1>6, <1>7, <1>8, <1>9, <1>10, <1>11, <1>12, <1>13, <1>14
        DEF Next, Bootstrap

LEMMA ReadyStep == IInv /\ [Next]_vars => Ready'
<1> SUFFICES ASSUME IInv, [Next]_vars PROVE Ready'
  OBVIOUS
<1>0. /\ pc \in [Threads -> {"idle", "register", "pull", "apply", "clear", "row", "version",
                             "hash", "stop"}]
      /\ got \in [Threads -> {None} \cup SUBSET Users]
      /\ active \in SUBSET Users
      /\ Ready /\ Threads = {"loop", "rec"}
  BY DEF IInv, TypeOK, PanelTypeOK, Threads
<1> USE <1>0 DEF Ready
<1>1. CASE UNCHANGED <<pc, got>>
  BY <1>1
<1>2. CASE PanelNext(Held) /\ UNCHANGED agentVars
  BY <1>1, <1>2 DEF agentVars
<1>3. ASSUME NEW t \in Threads, Register(t) PROVE Ready'
  BY <1>3 DEF Register, Step, GivesUp
<1>4. ASSUME NEW t \in Threads, Pull(t) PROVE Ready'
  BY <1>4, PanelAssumption DEF Pull, Step
<1>5. ASSUME NEW t \in Threads, PullFails(t) PROVE Ready'
  BY <1>5 DEF PullFails, Step, Go, GivesUp
<1>6. ASSUME NEW t \in Threads, Apply(t) PROVE Ready'
  BY <1>6 DEF Apply, Step, Go, GivesUp
<1>7. ASSUME NEW t \in Threads, Recovered(t) PROVE Ready'
  BY <1>7 DEF Recovered, Go
<1>8. CASE TickerRecovers \/ SleeperRecovers \/ LoopResumes \/ StopProxy
  BY <1>8 DEF TickerRecovers, SleeperRecovers, LoopResumes, StopProxy, Go
<1>9. CASE Beating \/ BeatFails
  BY <1>9 DEF Beating, BeatStarts, BeatRow, BeatRefused, BeatVersion, BeatHash, BeatFails,
              Answered, Step, Go
<1>10. CASE RestartWindowPasses \/ XrayDies
  BY <1>1, <1>10 DEF RestartWindowPasses, XrayDies
<1>11. CASE AgentCrashes \/ Redeploy
  BY <1>11 DEF AgentCrashes, Redeploy, Reboots, FirstStep, NoLists
<1>12. CASE UNCHANGED vars
  BY <1>1, <1>12 DEF vars, agentVars
<1> QED BY <1>2, <1>3, <1>4, <1>5, <1>6, <1>7, <1>8, <1>9, <1>10, <1>11, <1>12
        DEF Next, Bootstrap

LEMMA IInvInit == Init => IInv
<1> SUFFICES ASSUME Init PROVE IInv
  OBVIOUS
<1>1. PanelTypeOK
  <2>1. ops \subseteq PanelOps /\ changes \in Nat
    BY PanelAssumption DEF Init, PanelInit
  <2>2. row \in NodeRow
    <3>1. 1 \in Versions
      BY DEF Versions
    <3> QED BY <3>1 DEF Init, PanelInit, NodeRow
  <2>3. form \in Forms
    BY DEF Init, PanelInit, Forms
  <2>4. oldToken \in BOOLEAN /\ picked \in BOOLEAN
    BY DEF Init, PanelInit
  <2> QED BY <2>1, <2>2, <2>3, <2>4 DEF PanelTypeOK, Init, PanelInit
<1>2. /\ job = FirstJob /\ pc = FirstStep /\ got = NoLists /\ cfg = None /\ run = None
      /\ ~fatal /\ ~recovering /\ ~sleeping /\ restarts = 0 /\ beat = NoBeat
      /\ fatal \in BOOLEAN /\ recovering \in BOOLEAN /\ sleeping \in BOOLEAN
  BY DEF Init, AgentInit
<1>3. TypeOK
  <2>1. 0 \in 0..MaxRestarts /\ NoBeat \in [ver : Versions, list : SUBSET Users,
                                            changed : BOOLEAN]
    BY DEF MaxRestarts, NoBeat, Versions
  <2> QED BY <1>1, <1>2, <2>1 DEF TypeOK, FirstJob, FirstStep, NoLists
<1>4. Alone /\ Ready
  BY <1>2 DEF Alone, Ready, FirstJob, FirstStep, Threads
<1> QED BY <1>3, <1>4 DEF IInv

LEMMA IInvHolds == Spec => []IInv
<1>1. IInv /\ [Next]_vars => IInv'
  BY TypeStep, AloneStep, ReadyStep DEF IInv
<1> QED BY <1>1, IInvInit, PTL DEF Spec

\* Every variable of the panel and the agent keeps its type, for any customers, operations
\* and faults, the administrator's stale save of the row included.
THEOREM NodeTypeCorrect == Spec => []TypeOK
<1>1. IInv => TypeOK
  BY DEF IInv
<1> QED BY <1>1, IInvHolds, PTL

\* The ticker's and the sleeping goroutine's attempts to recover exclude each other, and
\* neither begins during the first bootstrap.
THEOREM BootstrapsExclude == Spec => []OneBootstrap
<1>1. IInv => OneBootstrap
  BY DEF IInv, Alone, OneBootstrap, Bootstrapping
<1> QED BY <1>1, IInvHolds, PTL

-----------------------------------------------------------------------------
(* NodeSync implements NodeAccess                                          *)

LEMMA AccessStep == IInv /\ [Next]_vars => [Access!AccessNext]_(Access!accessVars)
<1> SUFFICES ASSUME IInv, [Next]_vars PROVE [Access!AccessNext]_(Access!accessVars)
  OBVIOUS
<1>0. got \in [Threads -> {None} \cup SUBSET Users] /\ TypeOK'
  BY TypeStep DEF IInv, TypeOK
<1>1. CASE UNCHANGED <<active, got, cfg, run>>
  BY <1>1 DEF Access!accessVars
<1>2. CASE PanelNext(Held) /\ UNCHANGED agentVars
  <2>1. Access!ListChanges
    BY <1>0, <1>2 DEF Access!ListChanges, Access!Lists, agentVars, TypeOK, PanelTypeOK
  <2> QED BY <2>1 DEF Access!AccessNext
<1>3. ASSUME NEW t \in Threads, Register(t) \/ Recovered(t)
      PROVE  UNCHANGED <<active, got, cfg, run>>
  BY <1>3 DEF Register, Recovered, panelVars
<1>4. ASSUME NEW t \in Threads, Pull(t) PROVE Access!Fetch(t)
  BY <1>4 DEF Pull, HandsOut, panelVars, Access!Fetch
<1>5. ASSUME NEW t \in Threads, PullFails(t)
      PROVE  Access!Reuse(t) \/ UNCHANGED <<active, got, cfg, run>>
  BY <1>5 DEF PullFails, Access!Reuse
<1>6. ASSUME NEW t \in Threads, Apply(t) PROVE Access!PutToUse(t)
  <2>1. got[t] # None
    BY <1>6 DEF IInv, Ready, Apply
  <2> QED BY <1>6, <2>1 DEF Apply, panelVars, Access!PutToUse
<1>7. CASE TickerRecovers \/ SleeperRecovers \/ LoopResumes \/ RestartWindowPasses
  BY <1>1, <1>7 DEF TickerRecovers, SleeperRecovers, LoopResumes, RestartWindowPasses, panelVars
<1>8. CASE StopProxy \/ XrayDies
  <2>1. Access!Stop
    BY <1>8 DEF StopProxy, XrayDies, panelVars, Access!Stop
  <2> QED BY <2>1 DEF Access!AccessNext
<1>9. CASE Beating \/ BeatFails
  BY <1>1, <1>9 DEF Beating, BeatStarts, BeatRow, BeatRefused, BeatVersion, BeatHash, BeatFails,
                    panelVars
<1>10. CASE AgentCrashes \/ Redeploy
  <2>1. Access!Forget
    BY <1>10 DEF AgentCrashes, Redeploy, Reboots, NoLists, Access!Forget
  <2> QED BY <2>1 DEF Access!AccessNext
<1>11. CASE UNCHANGED vars
  BY <1>1, <1>11 DEF vars, panelVars, agentVars
<1>12. ASSUME NEW t \in Threads, Bootstrap(t) PROVE [Access!AccessNext]_(Access!accessVars)
  <2>1. CASE Access!Fetch(t) \/ Access!Reuse(t) \/ Access!PutToUse(t)
    BY <2>1 DEF Access!AccessNext
  <2> QED BY <1>1, <1>3, <1>4, <1>5, <1>6, <1>12, <2>1 DEF Bootstrap
<1> QED BY <1>2, <1>7, <1>8, <1>9, <1>10, <1>11, <1>12 DEF Next

\* Tokens, heartbeats, caches, lost answers, restarts and the administrator's edits never
\* make a node serve anything but a list the panel had when it was fetched.
THEOREM NodeImplementsAccess == Spec => ImplementsAccess
<1>1. Init => Access!AccessInit
  BY DEF Init, PanelInit, AgentInit, NoLists, Access!AccessInit, Access!Lists
<1> QED BY <1>1, IInvHolds, AccessStep, PTL DEF Spec, ImplementsAccess, Access!AccessSpec
=============================================================================
