------------------------------ MODULE Deploy ------------------------------
(***************************************************************************)
(* The one-click deployment of node agents: AutoDeployHandler cleans the   *)
(* node's directory and container over SSH, brings Docker up, uploads the  *)
(* files, compiles the agent on the panel's host or takes the cached       *)
(* binary, sends it, starts the container and waits for its registration.  *)
(* NodeCleanupHandler removes it all and deletes the node.  All nodes of   *)
(* this module share one server: that is where deployments can meet.       *)
(***************************************************************************)
EXTENDS Integers, FiniteSets

CONSTANTS
    Deployments,     \* requests to deploy
    Nodes,           \* nodes whose containers share a server
    NoOne,
    DeployScenarios  \* bound: what may go wrong and how often, versions of the source

Snags == {"break", "badBuild", "dockerDown", "badDocker", "newSource", "rotate", "cleanup",
          "sameNode", "badSend"}

ASSUME DeployAssumption ==
    /\ NoOne \notin Deployments \cup Nodes
    /\ DeployScenarios \subseteq [ops : SUBSET Snags, faults : Nat]

VARIABLES
    dep,         \* dep[d]: its stage, node, the token it read, the hash, the binary it read
    buildMutex,  \* holder of buildMutex
    source,      \* version of the agent's source on the panel's host
    binary,      \* node_agent/agent and agent.hash beside it
    dir,         \* dir[n]: what the deployment directory on the server holds
    container,   \* container[n]: the running agent, its binary and its token
    heard,       \* nodes whose container has logged that the panel registered it
    docker,      \* Docker on the server
    token,       \* token[n] in the database, 0 for a deleted node
    met,         \* nodes with two deployments at once; source changed under one, history
    stale,       \* nodes whose token was changed since their container registered, history
    outlook      \* what may still happen

deployVars == <<dep, buildMutex, source, binary, dir, container, heard, docker, token, met,
                stale, outlook>>

Versions == 1..2
NoFile == 0
Torn == -1
Binaries == Versions \cup {NoFile, Torn}
Tokens == 0..2

DepStages == {"idle", "clean", "check", "docker", "files", "hash", "cache", "lock", "compile",
              "write", "hashFile", "read", "send", "sent", "start", "verify", "done", "failed"}
Blank == [at |-> "idle", node |-> NoOne, token |-> 0, hash |-> 0, copy |-> NoFile, tries |-> 0]
Empty == [env |-> 0, agent |-> NoFile, writer |-> NoOne]
Stopped == [agent |-> NoFile, token |-> 0]

DeployTypeOK ==
    /\ dep \in [Deployments -> [at : DepStages, node : Nodes \cup {NoOne}, token : Tokens,
                                hash : Versions \cup {0}, copy : Binaries, tries : 0..1]]
    /\ buildMutex \in Deployments \cup {NoOne}
    /\ source \in Versions
    /\ binary \in [agent : Binaries, hash : Versions \cup {0}]
    /\ dir \in [Nodes -> [env : Tokens, agent : Binaries,
                          writer : Deployments \cup {NoOne}] \cup {NoOne}]
    /\ container \in [Nodes -> [agent : Binaries, token : Tokens]]
    /\ docker \in {"absent", "down", "up"}
    /\ token \in [Nodes -> Tokens]
    /\ met \in [nodes : SUBSET Nodes, source : BOOLEAN]
    /\ heard \subseteq Nodes /\ stale \subseteq Nodes
    /\ outlook \in [ops : SUBSET Snags, faults : Nat]

DeployInit ==
    /\ dep = [d \in Deployments |-> Blank]
    /\ buildMutex = NoOne /\ source = 1
    /\ binary = [agent |-> NoFile, hash |-> 0]
    /\ dir = [n \in Nodes |-> NoOne]
    /\ container = [n \in Nodes |-> Stopped]
    /\ docker = "absent"
    /\ token = [n \in Nodes |-> 1]
    /\ met = [nodes |-> {}, source |-> FALSE]
    /\ heard = {} /\ stale = {}
    /\ outlook \in DeployScenarios

Snag(op) ==
    /\ op \in outlook.ops
    /\ outlook.faults > 0
    /\ outlook' = [outlook EXCEPT !.faults = @ - 1]

DeployAt(d, stage) == dep[d].at = stage
DeployGoto(d, stage) == dep' = [dep EXCEPT ![d].at = stage]
DeployFails(d) == DeployGoto(d, "failed")
NodeOf(d) == dep[d].node
UnderWay(d) == dep[d].at \notin {"idle", "done", "failed"}
Panel == <<buildMutex, binary>>
Server == <<dir, container, heard, docker>>
Given == <<source, token, met, stale>>

-----------------------------------------------------------------------------
(* The phases of runDeployOnce                                             *)

\* The node and its token are read once, at the beginning.
StartDeploy(d, n) ==
    /\ DeployAt(d, "idle") /\ token[n] # 0
    /\ \/ \A e \in Deployments : UnderWay(e) => NodeOf(e) # n
       \/ "sameNode" \in outlook.ops
    /\ dep' = [dep EXCEPT ![d] = [Blank EXCEPT !.at = "clean", !.node = n, !.token = token[n]]]
    /\ met' = IF \E e \in Deployments : UnderWay(e) /\ NodeOf(e) = n
                THEN [met EXCEPT !.nodes = @ \cup {n}] ELSE met
    /\ UNCHANGED <<Panel, Server, source, token, stale, outlook>>

\* The connection is lost, the page is closed, the disk is full, the port taken: whatever
\* is left on the server stays there.
DeployBreaks(d) ==
    /\ Snag("break")
    /\ dep[d].at \in {"clean", "check", "docker", "files", "hash", "start", "verify"}
    /\ DeployFails(d)
    /\ UNCHANGED <<Panel, Server, Given>>

\* The old container of this node, its logs with it, and the directory go before anything is
\* checked.
CleanOldDeployment(d) ==
    /\ DeployAt(d, "clean")
    /\ container' = [container EXCEPT ![NodeOf(d)] = Stopped]
    /\ heard' = heard \ {NodeOf(d)}
    /\ dir' = [dir EXCEPT ![NodeOf(d)] = NoOne]
    /\ DeployGoto(d, "docker")
    /\ UNCHANGED <<Panel, docker, Given, outlook>>

DockerReady == docker = "up"

\* ensureDocker leaves a Docker that answers alone.
RepairNeeded == ~DockerReady

EnsureDocker(d) ==
    /\ DeployAt(d, "docker")
    /\ DeployGoto(d, "files")
    /\ docker' = "up"
    /\ \/ UNCHANGED <<container, heard, outlook>>   \* at work, started or installed
       \/ /\ RepairNeeded /\ Snag("badDocker")      \* it does not start: all is removed
          /\ container' = [n \in Nodes |-> Stopped]
          /\ heard' = {}
    /\ UNCHANGED <<Panel, dir, Given>>

\* The kernel cannot run it, or it can be installed from nowhere.
EnsureDockerFails(d) ==
    /\ DeployAt(d, "docker") /\ RepairNeeded
    /\ Snag("badDocker")
    /\ DeployFails(d)
    /\ \/ UNCHANGED <<container, heard, docker>>
       \/ /\ container' = [n \in Nodes |-> Stopped]
          /\ heard' = {}
          /\ docker' = "absent"
    /\ UNCHANGED <<Panel, dir, Given>>

\* Directory, sources, certificate and .env.node with the token read before.
PrepareFiles(d) ==
    /\ DeployAt(d, "files")
    /\ dir' = [dir EXCEPT ![NodeOf(d)] = [Empty EXCEPT !.env = dep[d].token,
                                                     !.agent = binary.agent]]
    /\ DeployGoto(d, "hash")
    /\ UNCHANGED <<Panel, container, heard, docker, Given, outlook>>

HashSource(d) ==
    /\ DeployAt(d, "hash")
    /\ dep' = [dep EXCEPT ![d].at = "cache", ![d].hash = source]
    /\ UNCHANGED <<Panel, Server, Given, outlook>>

Cached(d) == binary.agent # NoFile /\ binary.hash = dep[d].hash
CheckCache(d) ==
    /\ DeployAt(d, "cache")
    /\ DeployGoto(d, IF Cached(d) THEN "read" ELSE "lock")
    /\ UNCHANGED <<Panel, Server, Given, outlook>>

\* buildMutex.Lock and the second look: another deployment may have built it meanwhile.
NoSecondLook(d) == FALSE
SecondLook(d) == Cached(d)
LockBuild(d) ==
    /\ DeployAt(d, "lock") /\ buildMutex = NoOne
    /\ IF SecondLook(d) THEN DeployGoto(d, "read") /\ UNCHANGED buildMutex
       ELSE DeployGoto(d, "compile") /\ buildMutex' = d
    /\ UNCHANGED <<binary, Server, Given, outlook>>

\* go build replaces the binary at its end; agent.hash still holds the old hash.
Compile(d) ==
    /\ DeployAt(d, "compile")
    /\ binary' = [binary EXCEPT !.agent = Torn]
    /\ DeployGoto(d, "write")
    /\ UNCHANGED <<buildMutex, Server, Given, outlook>>

StillLocked(d) == buildMutex
Unlocked(d) == NoOne

\* Two attempts; the second failure gives the mutex back.
CompileFails(d) ==
    /\ DeployAt(d, "compile") /\ Snag("badBuild")
    /\ IF dep[d].tries = 0
         THEN dep' = [dep EXCEPT ![d].tries = 1] /\ UNCHANGED buildMutex
         ELSE DeployFails(d) /\ buildMutex' = Unlocked(d)
    /\ UNCHANGED <<binary, Server, Given>>

CompileEnds(d) ==
    /\ DeployAt(d, "write")
    /\ binary' = [binary EXCEPT !.agent = source]
    /\ DeployGoto(d, "hashFile")
    /\ UNCHANGED <<buildMutex, Server, Given, outlook>>

SaveHash(d) ==
    /\ DeployAt(d, "hashFile")
    /\ binary' = [binary EXCEPT !.hash = dep[d].hash]
    /\ buildMutex' = NoOne
    /\ DeployGoto(d, "read")
    /\ UNCHANGED <<Server, Given, outlook>>

\* scpViaSSH reads the binary, without the mutex, removes the remote file and appends.
ReadBinary(d) ==
    /\ DeployAt(d, "read")
    /\ dep' = [dep EXCEPT ![d].at = "send", ![d].copy = binary.agent]
    /\ UNCHANGED <<Panel, Server, Given, outlook>>

SendBegins(d) ==
    /\ DeployAt(d, "send")
    /\ IF dir[NodeOf(d)] = NoOne THEN DeployFails(d) /\ UNCHANGED dir
       ELSE /\ dir' = [dir EXCEPT ![NodeOf(d)].agent = Torn, ![NodeOf(d)].writer = d]
            /\ DeployGoto(d, "sent")
    /\ UNCHANGED <<Panel, container, heard, docker, Given, outlook>>

\* Two that append to one file leave a mixture.
SendEnds(d) ==
    /\ DeployAt(d, "sent")
    /\ IF dir[NodeOf(d)] = NoOne THEN DeployFails(d) /\ UNCHANGED dir
       ELSE /\ dir' = [dir EXCEPT ![NodeOf(d)].agent =
                          IF dir[NodeOf(d)].writer = d THEN dep[d].copy ELSE Torn]
            /\ DeployGoto(d, "start")
    /\ UNCHANGED <<Panel, container, heard, docker, Given, outlook>>

\* A second attempt reads the binary again.
SendFails(d) ==
    /\ DeployAt(d, "sent") /\ Snag("badSend")
    /\ IF dep[d].tries = 0
         THEN dep' = [dep EXCEPT ![d].at = "read", ![d].tries = 1]
         ELSE DeployFails(d)
    /\ UNCHANGED <<Panel, Server, Given>>

\* compose up, when Docker answers and the files are there: a container with empty logs.
StartContainer(d) ==
    /\ DeployAt(d, "start")
    /\ IF DockerReady /\ dir[NodeOf(d)] # NoOne /\ dir[NodeOf(d)].agent # NoFile
         THEN /\ container' = [container EXCEPT ![NodeOf(d)] =
                    [agent |-> dir[NodeOf(d)].agent, token |-> dir[NodeOf(d)].env]]
              /\ heard' = heard \ {NodeOf(d)} /\ stale' = stale \ {NodeOf(d)}
              /\ DeployGoto(d, "verify")
         ELSE DeployFails(d) /\ UNCHANGED <<container, heard, stale>>
    /\ UNCHANGED <<Panel, dir, docker, source, token, met, outlook>>

\* verifyDockerReady before the start: Docker may have died since.
DockerRevived(d) ==
    /\ DeployAt(d, "start") /\ ~DockerReady
    /\ docker' = "up"
    /\ UNCHANGED <<dep, Panel, dir, container, heard, Given, outlook>>

\* The agent that was started registers with the token it was given: the panel looks for a
\* node with that token, and without one leaves the agent trying.
Register(n) ==
    /\ container[n].agent \in Versions /\ n \notin heard
    /\ container[n].token = token[n] /\ token[n] # 0
    /\ heard' = heard \cup {n}
    /\ UNCHANGED <<dep, Panel, dir, container, docker, Given, outlook>>

\* For two minutes the logs of the container of this name are read for the line that tells of
\* its registration, however long ago that was: without it, or without Docker, it failed.
Started(n) == DockerReady /\ container[n].agent # NoFile
Registered(n) == DockerReady /\ n \in heard
VerifyRegistration(d) ==
    /\ DeployAt(d, "verify")
    /\ DeployGoto(d, IF Registered(NodeOf(d)) THEN "done" ELSE "failed")
    /\ UNCHANGED <<Panel, Server, Given, outlook>>

-----------------------------------------------------------------------------
(* Around the deployments                                                  *)

DockerDies ==
    /\ docker = "up" /\ Snag("dockerDown")
    /\ docker' = "down"
    /\ UNCHANGED <<dep, Panel, dir, container, heard, Given>>

\* The panel updates itself: new sources of the agent.
SourceChanges ==
    /\ source = 1 /\ Snag("newSource")
    /\ source' = 2
    /\ met' = [met EXCEPT !.source = \E d \in Deployments :
                                        UnderWay(d) /\ dep[d].hash # 0]
    /\ UNCHANGED <<dep, Panel, Server, token, stale>>

\* Nobody tells an agent that has registered, nor a deployment that waits for its logs.
RotateToken(n) ==
    /\ token[n] = 1 /\ Snag("rotate")
    /\ token' = [token EXCEPT ![n] = 2]
    /\ stale' = stale \cup ({n} \cap heard)
    /\ UNCHANGED <<dep, Panel, Server, source, met>>

\* CleanupWithProgress: the node is deleted whether or not its server could be cleaned.
CleanupWithProgress(n) ==
    /\ token[n] # 0 /\ Snag("cleanup")
    /\ \/ /\ container' = [container EXCEPT ![n] = Stopped]
          /\ heard' = heard \ {n}
          /\ dir' \in {dir, [dir EXCEPT ![n] = NoOne]}
       \/ UNCHANGED <<container, heard, dir>>
    /\ stale' = stale \cup ({n} \cap heard)
    /\ token' = [token EXCEPT ![n] = 0]
    /\ UNCHANGED <<dep, Panel, docker, source, met>>

DeployStep(d) ==
    \/ CleanOldDeployment(d) \/ EnsureDocker(d) \/ PrepareFiles(d) \/ HashSource(d)
    \/ CheckCache(d) \/ LockBuild(d) \/ Compile(d) \/ CompileEnds(d) \/ SaveHash(d)
    \/ ReadBinary(d) \/ SendBegins(d) \/ SendEnds(d) \/ StartContainer(d)
    \/ VerifyRegistration(d)

DeployNext ==
    \/ \E d \in Deployments :
         \/ \E n \in Nodes : StartDeploy(d, n)
         \/ DeployStep(d) \/ DeployBreaks(d) \/ EnsureDockerFails(d) \/ CompileFails(d)
         \/ SendFails(d) \/ DockerRevived(d)
    \/ DockerDies \/ SourceChanges
    \/ \E n \in Nodes : Register(n) \/ RotateToken(n) \/ CleanupWithProgress(n)

DeploySpec == DeployInit /\ [][DeployNext]_deployVars

\* Commands over SSH have a timeout; the compilation is assumed to end.
DeployFairness == \A d \in Deployments : WF_deployVars(DeployStep(d))
DeployFairSpec == DeploySpec /\ DeployFairness

-----------------------------------------------------------------------------
(* Correctness                                                             *)

\* The source is still, and a node is deployed once at a time: then no deployment starts a
\* binary that is half written, whoever compiles at the same moment.
AgentIsWhole ==
    met.source \/ \A n \in Nodes \ met.nodes : container[n].agent # Torn

\* A deployment reports success only if its node runs the agent of the source it hashed,
\* cached or not, unless the source changed meanwhile, and with a token the panel accepts,
\* unless that token was changed, or the node deleted, after the agent had registered.
DoneIsServing ==
    [][\A d \in Deployments : dep'[d].at = "done" /\ dep[d].at # "done"
          => LET n == NodeOf(d) IN
             /\ met.source \/ container[n].agent = dep[d].hash
             /\ n \in stale \/ (container[n].token = token[n] /\ token[n] # 0)]_deployVars

\* Whatever deployments are under way end, also when one that holds the build mutex fails.
DeploymentsEnd == []<>(\A d \in Deployments : ~UnderWay(d))
=============================================================================
