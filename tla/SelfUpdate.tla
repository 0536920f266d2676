---------------------------- MODULE SelfUpdate ----------------------------
(***************************************************************************)
(* The one-click update of the panel: GitPull stashes the edits made by    *)
(* hand, resets the working tree to the remote branch, builds the images   *)
(* and leaves it to a helper container to recreate the frontend and then   *)
(* the panel, which ends the process that runs the update.  GitPush and    *)
(* the version patrol of CronService use the same repository.  git, docker *)
(* and the helper are modelled from how GitPull uses them.                 *)
(***************************************************************************)
EXTENDS Integers, Sequences, SequencesExt

CONSTANTS
    Edits,           \* changes made by hand to tracked files
    MaxCommits,      \* bound: commits on both sides
    UpdateScenarios  \* bound: what may happen, updates and faults of a behaviour

Upsets == {"push", "rejected", "badStash", "badReset", "badFetch", "badPop", "badBuild",
           "badHelper", "badStatus", "panic", "die", "clear", "slow"}

ASSUME UpdateAssumption ==
    /\ MaxCommits \in Nat
    /\ UpdateScenarios \subseteq [ops : SUBSET Upsets, faults : Nat, updates : Nat]

VARIABLES
    tree,       \* edits in the working tree
    conflict,   \* the tree has unmerged files
    stashes,    \* git's stack of stashes, the last one first
    repo,       \* commits: remote, origin as it was fetched, head, the last number given
    pushed,     \* edits that are in the remote branch
    update,     \* the goroutine of GitPull (it holds gitPullMu) and its stashed flag
    told,       \* gitPullDone and gitPullOK in memory: what GitPullLog answers
    state,      \* git-pull.state and whether it is older than ten minutes
    image,      \* the commit of each built image
    running,    \* the commit of each running container
    published,  \* .last_build_version
    helper,     \* the container nexus-panel-restarter
    flag,       \* version-mismatch.flag
    history,    \* edits the updates have to keep, those a failing git status hid from one,
                \* and what went wrong: history only
    agenda      \* what may still happen

repoVars == <<tree, conflict, stashes, repo, pushed>>
reportVars == <<told, state, flag>>
serviceVars == <<image, running, published, helper>>
updateVars == <<repoVars, update, reportVars, serviceVars, history, agenda>>

Parts == {"panel", "frontend"}
Commits == 0..MaxCommits
Reports == {"undone", "ok", "failed"}
Histories == [entrusted : SUBSET Edits, unseen : SUBSET Edits, upset : BOOLEAN, died : BOOLEAN]
UpdateStages == {"none", "check", "fetch", "sync", "pop", "build", "publish", "launch"}

UpdateTypeOK ==
    /\ tree \subseteq Edits /\ pushed \subseteq Edits
    /\ conflict \in BOOLEAN /\ flag \in BOOLEAN
    /\ stashes \in Seq(SUBSET Edits)
    /\ repo \in [remote : Commits, origin : Commits, head : Commits, last : Commits]
    /\ update \in [at : UpdateStages, stashed : BOOLEAN]
    /\ told \in Reports
    /\ state \in [says : Reports \cup {"absent"}, old : BOOLEAN]
    /\ image \in [Parts -> Commits] /\ running \in [Parts -> Commits]
    /\ published \in Commits
    /\ helper \in {"none", "started", "half"}
    /\ history \in Histories
    /\ agenda \in [ops : SUBSET Upsets, faults : Nat, updates : Nat]

Both(c) == [p \in Parts |-> c]

\* A panel that was deployed by hand and has never updated itself.
UpdateInit ==
    /\ tree = {} /\ conflict = FALSE /\ stashes = <<>>
    /\ repo = [remote |-> 0, origin |-> 0, head |-> 0, last |-> 0]
    /\ pushed = {}
    /\ update = [at |-> "none", stashed |-> FALSE]
    /\ told = "undone" /\ state = [says |-> "absent", old |-> FALSE]
    /\ image = Both(0) /\ running = Both(0) /\ published = 0
    /\ helper = "none" /\ flag = FALSE
    /\ history = [entrusted |-> {}, unseen |-> {}, upset |-> FALSE, died |-> FALSE]
    /\ agenda \in UpdateScenarios

Upset(op) ==
    /\ op \in agenda.ops
    /\ agenda.faults > 0
    /\ agenda' = [agenda EXCEPT !.faults = @ - 1]

NoUpdate == [at |-> "none", stashed |-> FALSE]
UpdateAt(stage) == update.at = stage
UpdateGoto(stage) == update' = [update EXCEPT !.at = stage]

\* setPullDone: memory and file.
Report(r) == told' = r /\ state' = [says |-> r, old |-> FALSE]
SetPullDone(r) == Report(r) /\ flag' = flag

-----------------------------------------------------------------------------
(* The people around it                                                    *)

\* Nobody edits the tree while an update is at work.
EditByHand(e) ==
    /\ UpdateAt("none") /\ e \notin tree \cup pushed
    /\ tree' = tree \cup {e}
    /\ UNCHANGED <<conflict, stashes, repo, pushed, update, reportVars, serviceVars,
                   history, agenda>>

CommitUpstream ==
    /\ repo.last < MaxCommits
    /\ repo' = [repo EXCEPT !.remote = repo.last + 1, !.last = @ + 1]
    /\ UNCHANGED <<tree, conflict, stashes, pushed, update, reportVars, serviceVars,
                   history, agenda>>

\* GitPush: add, commit and push, without the mutex; it commits conflict markers as well.
\* A rejected push leaves the commit here, where the next update does away with it.
GitPush ==
    /\ tree # {} /\ repo.last < MaxCommits
    /\ tree' = {} /\ conflict' = FALSE
    /\ \/ /\ "push" \in agenda.ops
          /\ repo.head = repo.remote
          /\ repo' = [remote |-> repo.last + 1, origin |-> repo.last + 1,
                      head |-> repo.last + 1, last |-> repo.last + 1]
          /\ pushed' = pushed \cup tree
          /\ UNCHANGED <<history, agenda>>
       \/ /\ Upset("rejected")
          /\ repo' = [repo EXCEPT !.head = repo.last + 1, !.last = @ + 1]
          /\ history' = [history EXCEPT !.entrusted = @ \ tree]
          /\ UNCHANGED pushed
    /\ UNCHANGED <<stashes, update, reportVars, serviceVars>>

-----------------------------------------------------------------------------
(* GitPull                                                                 *)

\* The request takes the mutex and resets what was reported; the goroutine does the rest.
GitPull ==
    /\ UpdateAt("none") /\ agenda.updates > 0
    /\ agenda' = [agenda EXCEPT !.updates = @ - 1]
    /\ UpdateGoto("check")
    /\ Report("undone")
    /\ history' = [entrusted |-> IF conflict THEN history.entrusted
                                 ELSE history.entrusted \cup tree,
                   unseen |-> IF conflict THEN history.unseen ELSE history.unseen \ tree,
                   upset |-> helper # "none", died |-> FALSE]
    /\ UNCHANGED <<repoVars, flag, serviceVars>>

\* What earlier updates left is removed, version-mismatch.flag with it; then git status:
\* only changes of tracked files are stashed.
NeverStash == FALSE
MustStash == tree # {} /\ ~conflict

Precheck ==
    /\ UpdateAt("check")
    /\ IF MustStash
         THEN /\ stashes' = <<tree>> \o stashes
              /\ tree' = {}
              /\ update' = [at |-> "fetch", stashed |-> TRUE]
              /\ UNCHANGED conflict
         ELSE /\ tree' = IF conflict THEN {} ELSE tree   \* reset --hard HEAD
              /\ conflict' = FALSE
              /\ UpdateGoto("fetch")
              /\ UNCHANGED stashes
    /\ flag' = FALSE
    /\ UNCHANGED <<repo, pushed, told, state, serviceVars, history, agenda>>

\* Only the output of git status is looked at: one that was not started or not finished in
\* time and wrote nothing makes the tree look clean, with all that the reset then discards.
StatusFails ==
    /\ UpdateAt("check") /\ Upset("badStatus")
    /\ UpdateGoto("fetch")
    /\ flag' = FALSE
    /\ history' = [history EXCEPT !.unseen = IF conflict THEN @ ELSE @ \cup tree]
    /\ UNCHANGED <<repoVars, told, state, serviceVars>>

\* A failed stash or reset here sets the result in memory and forgets the file.
PrecheckFails ==
    /\ UpdateAt("check")
    /\ \/ MustStash /\ Upset("badStash")
       \/ conflict /\ Upset("badReset")
    /\ update' = NoUpdate
    /\ told' = "failed"
    /\ flag' = FALSE
    /\ UNCHANGED <<repoVars, state, serviceVars, history>>

Fetch ==
    /\ UpdateAt("fetch")
    /\ repo' = [repo EXCEPT !.origin = repo.remote]
    /\ UpdateGoto("sync")
    /\ UNCHANGED <<tree, conflict, stashes, pushed, reportVars, serviceVars, history, agenda>>

\* The fetch or the reset: what was stashed stays there.
FetchFails ==
    /\ UpdateAt("fetch") \/ UpdateAt("sync")
    /\ Upset("badFetch")
    /\ update' = NoUpdate
    /\ SetPullDone("failed")
    /\ UNCHANGED <<repoVars, serviceVars, history>>

ResetToOrigin ==
    /\ UpdateAt("sync")
    /\ repo' = [repo EXCEPT !.head = repo.origin]
    /\ tree' = {} /\ conflict' = FALSE
    /\ UpdateGoto(IF update.stashed THEN "pop" ELSE "build")
    /\ UNCHANGED <<stashes, pushed, reportVars, serviceVars, history, agenda>>

StashPop ==
    /\ UpdateAt("pop")
    /\ tree' = tree \cup Head(stashes)
    /\ stashes' = Tail(stashes)
    /\ UpdateGoto("build")
    /\ UNCHANGED <<conflict, repo, pushed, reportVars, serviceVars, history, agenda>>

\* The edits conflict with the new commit: the stash is kept and the update goes on.
StashPopFails ==
    /\ UpdateAt("pop") /\ Upset("badPop")
    /\ tree' = tree \cup Head(stashes)
    /\ conflict' = TRUE
    /\ UpdateGoto("build")
    /\ UNCHANGED <<stashes, repo, pushed, reportVars, serviceVars, history>>

BuiltPanel(c) == [image EXCEPT !["panel"] = c]
Built(c) == Both(c)

\* docker compose build, up to half an hour: the state file may grow old meanwhile.
ComposeBuild ==
    /\ UpdateAt("build")
    /\ image' = Built(repo.head)
    /\ UpdateGoto("publish")
    /\ UNCHANGED <<repoVars, reportVars, running, published, helper, history, agenda>>

BuildTakesLong ==
    /\ UpdateAt("build") /\ ~state.old /\ Upset("slow")
    /\ state' = [state EXCEPT !.old = TRUE]
    /\ UNCHANGED <<repoVars, update, told, flag, serviceVars, history>>

\* One of the two images may have been built.
ComposeBuildFails ==
    /\ UpdateAt("build") /\ Upset("badBuild")
    /\ \E p \in Parts : image' \in {image, [image EXCEPT ![p] = repo.head]}
    /\ update' = NoUpdate
    /\ SetPullDone("failed")
    /\ UNCHANGED <<repoVars, running, published, helper, history>>

\* Success is reported before the helper is there: it will end this process.
Publish ==
    /\ UpdateAt("publish")
    /\ published' = image["panel"]
    /\ SetPullDone("ok")
    /\ UpdateGoto("launch")
    /\ UNCHANGED <<repoVars, image, running, helper, history, agenda>>

\* A helper left from before is removed, at work or not.
LaunchHelper ==
    /\ UpdateAt("launch")
    /\ helper' = "started"
    /\ update' = NoUpdate
    /\ UNCHANGED <<repoVars, reportVars, image, running, published, history, agenda>>

LaunchHelperFails ==
    /\ UpdateAt("launch") /\ Upset("badHelper")
    /\ helper' = "none"
    /\ update' = NoUpdate
    /\ SetPullDone("failed")
    /\ UNCHANGED <<repoVars, image, running, published, history>>

\* The deferred function reports an end nobody reported.
Fallback == IF told = "undone" THEN Report("failed") ELSE told' = told /\ state' = state

UpdatePanics ==
    /\ ~UpdateAt("none") /\ Upset("panic")
    /\ update' = NoUpdate
    /\ Fallback
    /\ history' = [history EXCEPT !.upset = TRUE]
    /\ UNCHANGED <<repoVars, flag, serviceVars>>

\* GitPullClearLog, unless the mutex is held.
GitPullClearLog ==
    /\ "clear" \in agenda.ops /\ UpdateAt("none")
    /\ state' = [says |-> "absent", old |-> FALSE]
    /\ told' = "undone"
    /\ UNCHANGED <<repoVars, update, flag, serviceVars, history, agenda>>

\* CleanUpdateLogs of the cron removes a log that is a week old or big, at any time.
CleanUpdateLogs ==
    /\ "clear" \in agenda.ops
    /\ state' = [says |-> "absent", old |-> FALSE]
    /\ UNCHANGED <<repoVars, update, told, flag, serviceVars, history, agenda>>

-----------------------------------------------------------------------------
(* The helper, and the end of the process                                  *)

Died == IF UpdateAt("none") THEN history ELSE [history EXCEPT !.died = TRUE, !.upset = TRUE]

\* init reads the state file; the mutex is free and the goroutine gone.
PanelRestarts ==
    /\ update' = NoUpdate
    /\ told' = IF state.says = "absent" THEN "undone" ELSE state.says

HelperFrontend ==
    /\ helper = "started"
    /\ running' = [running EXCEPT !["frontend"] = image["frontend"]]
    /\ helper' = "half"
    /\ UNCHANGED <<repoVars, update, reportVars, image, published, history, agenda>>

\* compose up recreates the panel only when its image is another one.
HelperPanel ==
    /\ helper = "half"
    /\ running' = [running EXCEPT !["panel"] = image["panel"]]
    /\ helper' = "none"
    /\ IF running["panel"] = image["panel"]
         THEN UNCHANGED <<update, told, history>>
         ELSE /\ PanelRestarts
              /\ history' = Died
    /\ UNCHANGED <<repoVars, state, flag, image, published, agenda>>

\* The helper stops half way: nothing reports it.
HelperFails ==
    /\ helper # "none" /\ Upset("badHelper")
    /\ helper' = "none"
    /\ history' = [history EXCEPT !.upset = TRUE]
    /\ UNCHANGED <<repoVars, update, reportVars, image, running, published>>

PanelDies ==
    /\ Upset("die")
    /\ PanelRestarts
    /\ history' = Died
    /\ UNCHANGED <<repoVars, state, flag, serviceVars>>

\* CheckVersionConsistency: it only raises or lowers the flag.
InProgress == state.says = "undone" /\ ~state.old
CheckVersionConsistency ==
    /\ flag' = IF running["panel"] = repo.head THEN FALSE ELSE flag \/ ~InProgress
    /\ UNCHANGED <<repoVars, update, told, state, serviceVars, history, agenda>>

UpdateNext ==
    \/ \E e \in Edits : EditByHand(e)
    \/ CommitUpstream \/ GitPush
    \/ GitPull \/ Precheck \/ StatusFails \/ PrecheckFails \/ Fetch \/ FetchFails
    \/ ResetToOrigin \/ StashPop \/ StashPopFails \/ ComposeBuild \/ BuildTakesLong \/ ComposeBuildFails
    \/ Publish \/ LaunchHelper \/ LaunchHelperFails \/ UpdatePanics
    \/ GitPullClearLog \/ CleanUpdateLogs
    \/ HelperFrontend \/ HelperPanel \/ HelperFails \/ PanelDies
    \/ CheckVersionConsistency

UpdateSpec == UpdateInit /\ [][UpdateNext]_updateVars

-----------------------------------------------------------------------------
(* Correctness                                                             *)

\* An edit that was in a sound tree when an update began is in the tree, in a stash or in the
\* remote branch, whatever else failed, unless a failing git status hid it from an update:
\* its changes are not stashed and the reset discards them.
EditsKept == history.entrusted \ history.unseen \subseteq tree \cup pushed \cup UNION ToSet(stashes)

\* An update that says it succeeded, was not interrupted and did not meet the helper of
\* another one has put the version it built into both containers once its helper is done.
SuccessIsServed ==
    UpdateAt("none") /\ helper = "none" /\ state.says = "ok" /\ ~history.upset
        => running = Both(published)
=============================================================================
