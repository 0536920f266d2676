----------------------------- MODULE Traffic -----------------------------
(***************************************************************************)
(* From the bytes a proxy carries to the bytes a customer is charged.      *)
(* Each node's agent asks its proxy for counters once a minute and reports *)
(* what they grew by; gRPC repeats a call that fails; the panel adds a      *)
(* report to traffic_logs, users and nodes in one transaction, user by     *)
(* user in the order of a Go map.  Whether a report exhausts a customer is *)
(* in module Subscription, what it says about the node in NodePanel.       *)
(***************************************************************************)
EXTENDS Integers, FiniteSets, Functions

CONSTANTS
    Customers, Reporters,
    Handlers,       \* reports the panel serves at a time
    NoHandler,
    TrafficScenarios  \* bound: operations and faults of a behaviour, how many, bytes

Incidents == {"unreached", "failed", "replyLost", "timeout", "restart", "crash",
              "reset", "delete", "grant", "save", "clean"}

ASSUME TrafficAssumption ==
    /\ IsFiniteSet(Customers) /\ IsFiniteSet(Reporters) /\ IsFiniteSet(Handlers)
    /\ NoHandler \notin Handlers \cup Reporters \cup {"reset"} /\ "reset" \notin Handlers
    /\ TrafficScenarios \subseteq [ops : SUBSET Incidents, changes : Nat, bytes : Nat]

VARIABLES
    carried,    \* carried[n][u]: bytes, history only
    counter,    \* counter[n][u]: the proxy's counter, 0 when it has none
    prev,       \* prev[n][u]: UserTraffic.prevUp and prevDown
    report,     \* report[n]: the call the agent of n waits for, its attempt, its handler
    tx,         \* tx[h]: the transaction of ReportRealtime
    userLock,       \* lock[u]: who has locked the users row: a handler or "reset"
    used,       \* users.traffic_used
    logged,     \* bytes in traffic_logs of a user
    apart,      \* apart[u]: by how much other writers moved used off logged, history only
    copies,     \* users rows read by those who will save them whole: customer, total
    nodeUsed,   \* nodes.traffic_used
    deleted,    \* deleted users
    repeated,   \* repeated[n]: bytes sent again although committed, history only
    dropped,    \* a report or a counter was given up, history only
    trafficScope    \* what may still happen

trafficVars == <<carried, counter, prev, report, tx, userLock, used, logged, apart, copies,
                 nodeUsed, deleted, repeated, dropped, trafficScope>>

MaxAttempts == 4

Records == [Customers -> Nat]
Nothing == [u \in Customers |-> 0]
Total(rec) == SumFunctionOnSet(rec, Customers)

Quiet == [rec |-> Nothing, attempt |-> 0, by |-> NoHandler]
NoTx == [node |-> NoHandler, rec |-> Nothing, todo |-> {}]

TrafficTypeOK ==
    /\ carried \in [Reporters -> Records] /\ counter \in [Reporters -> Records]
    /\ prev \in [Reporters -> Records]
    /\ report \in [Reporters -> [rec : Records, attempt : 0..MaxAttempts,
                                by : Handlers \cup {NoHandler}]]
    /\ tx \in [Handlers -> [node : Reporters \cup {NoHandler}, rec : Records,
                            todo : SUBSET Customers]]
    /\ userLock \in [Customers -> Handlers \cup {"reset", NoHandler}]
    /\ used \in [Customers -> Nat] /\ logged \in [Customers -> Nat]
    /\ apart \in [Customers -> Int] /\ copies \subseteq Customers \X Nat
    /\ nodeUsed \in [Reporters -> Nat]
    /\ deleted \subseteq Customers
    /\ repeated \in [Reporters -> Nat]
    /\ dropped \in BOOLEAN
    /\ trafficScope \in [ops : SUBSET Incidents, changes : Nat, bytes : Nat]

TrafficInit ==
    /\ carried = [n \in Reporters |-> Nothing] /\ counter = carried /\ prev = carried
    /\ report = [n \in Reporters |-> Quiet]
    /\ tx = [h \in Handlers |-> NoTx]
    /\ userLock = [u \in Customers |-> NoHandler]
    /\ used = Nothing /\ logged = Nothing /\ apart = Nothing
    /\ copies = {}
    /\ nodeUsed = [n \in Reporters |-> 0]
    /\ deleted = {}
    /\ repeated = [n \in Reporters |-> 0]
    /\ dropped = FALSE
    /\ trafficScope \in TrafficScenarios

Incident(op) ==
    /\ op \in trafficScope.ops
    /\ trafficScope.changes > 0
    /\ trafficScope' = [trafficScope EXCEPT !.changes = @ - 1]

meterVars == <<carried, counter, prev>>
totalVars == <<used, logged, apart, copies, nodeUsed, deleted>>
lossVars == <<repeated, dropped>>

-----------------------------------------------------------------------------
(* The node                                                                *)

Carry(n, u) ==
    /\ trafficScope.bytes > 0
    /\ trafficScope' = [trafficScope EXCEPT !.bytes = @ - 1]
    /\ carried' = [carried EXCEPT ![n][u] = @ + 1]
    /\ counter' = [counter EXCEPT ![n][u] = @ + 1]
    /\ UNCHANGED <<prev, report, tx, userLock, totalVars, lossVars>>

\* A configuration change restarts the proxy: its counters are gone.
XrayRestarts(n) ==
    /\ Incident("restart")
    /\ counter' = [counter EXCEPT ![n] = Nothing]
    /\ dropped' = TRUE
    /\ UNCHANGED <<carried, prev, report, tx, userLock, totalVars, repeated>>

\* The container restarts: agent and proxy forget, a call of theirs goes on in the panel.
AgentCrashes(n) ==
    /\ Incident("crash")
    /\ counter' = [counter EXCEPT ![n] = Nothing]
    /\ prev' = [prev EXCEPT ![n] = Nothing]
    /\ report' = [report EXCEPT ![n] = Quiet]
    /\ dropped' = TRUE
    /\ UNCHANGED <<carried, tx, userLock, totalVars, repeated>>

-----------------------------------------------------------------------------
(* doTrafficReport and the calls it makes                                  *)

\* calculateDeltas: a counter smaller than its baseline was reset and counts in full.
GrownAlways(cur, old) == cur
GrownUnchecked(cur, old) == cur - old
Grown(cur, old) == IF cur >= old THEN cur - old ELSE cur
Deltas(n) == [u \in Customers |-> Grown(counter[n][u], prev[n][u])]

\* doTrafficReport, once a minute: the baseline moves on before the call.
QueryDelta(n) ==
    /\ report[n] = Quiet
    /\ prev' = [prev EXCEPT ![n] = counter[n]]
    /\ Deltas(n) # Nothing
    /\ report' = [report EXCEPT ![n] = [rec |-> Deltas(n), attempt |-> 1, by |-> NoHandler]]
    /\ UNCHANGED <<carried, counter, tx, userLock, totalVars, lossVars, trafficScope>>

ReportWaiting(n) == report[n] # Quiet /\ report[n].by = NoHandler

\* The retry policy: UNAVAILABLE, DEADLINE_EXCEEDED, INTERNAL and UNKNOWN are tried four
\* times in all; then the report is forgotten.
RetriedNever(n) == Quiet
Retried(n) ==
    IF report[n].attempt < MaxAttempts
      THEN [report[n] EXCEPT !.attempt = @ + 1, !.by = NoHandler]
      ELSE Quiet
GivenUp(n) == dropped \/ report[n].attempt = MaxAttempts

Unreached(n) ==
    /\ Incident("unreached")
    /\ ReportWaiting(n)
    /\ report' = [report EXCEPT ![n] = Retried(n)]
    /\ dropped' = GivenUp(n)
    /\ UNCHANGED <<meterVars, tx, userLock, totalVars, repeated>>

\* The call's 15 seconds are over while the panel works on it.
TimesOut(n) ==
    /\ Incident("timeout")
    /\ report[n].by # NoHandler
    /\ report' = [report EXCEPT ![n] = Quiet]
    /\ dropped' = TRUE
    /\ UNCHANGED <<meterVars, tx, userLock, totalVars, repeated>>

-----------------------------------------------------------------------------
(* ReportRealtime                                                          *)

\* The logs are inserted, for nobody to see before the commit.
BeginReport(h, n) ==
    /\ tx[h] = NoTx
    /\ ReportWaiting(n)
    /\ tx' = [tx EXCEPT ![h] = [node |-> n, rec |-> report[n].rec,
                               todo |-> {u \in Customers : report[n].rec[u] > 0}]]
    /\ report' = [report EXCEPT ![n].by = h]
    /\ UNCHANGED <<meterVars, userLock, totalVars, lossVars, trafficScope>>

\* AddTrafficTx: the update of a users row locks it; a deleted user has none to update.
AddTrafficOutside(h, u) ==
    /\ u \in tx[h].todo
    /\ userLock[u] = NoHandler
    /\ used' = [used EXCEPT ![u] = @ + IF u \in deleted THEN 0 ELSE tx[h].rec[u]]
    /\ tx' = [tx EXCEPT ![h].todo = @ \ {u}]
    /\ UNCHANGED <<meterVars, report, userLock, logged, apart, copies, nodeUsed, deleted,
                   lossVars, trafficScope>>
AddTraffic(h, u) ==
    /\ u \in tx[h].todo
    /\ userLock[u] = NoHandler
    /\ userLock' = IF u \in deleted THEN userLock ELSE [userLock EXCEPT ![u] = h]
    /\ tx' = [tx EXCEPT ![h].todo = @ \ {u}]
    /\ UNCHANGED <<meterVars, report, totalVars, lossVars, trafficScope>>

RowsReleased(h) == [u \in Customers |-> IF userLock[u] = h THEN NoHandler ELSE userLock[u]]
Awaited(h) == {n \in Reporters : report[n].by = h}

\* The commit, the node's total with it; the agent may never hear of it and try again.
CommitReport(h) ==
    /\ tx[h] # NoTx /\ tx[h].todo = {}
    /\ used' = [u \in Customers |-> used[u] + IF userLock[u] = h THEN tx[h].rec[u] ELSE 0]
    /\ logged' = [u \in Customers |-> logged[u] + tx[h].rec[u]]
    /\ nodeUsed' = [nodeUsed EXCEPT ![tx[h].node] = @ + Total(tx[h].rec)]
    /\ userLock' = RowsReleased(h)
    /\ tx' = [tx EXCEPT ![h] = NoTx]
    /\ \/ report' = [n \in Reporters |-> IF n \in Awaited(h) THEN Quiet ELSE report[n]]
          /\ UNCHANGED <<trafficScope, lossVars>>
       \/ \E n \in Awaited(h) :
            /\ Incident("replyLost")
            /\ report' = [report EXCEPT ![n] = Retried(n)]
            /\ repeated' = [repeated EXCEPT ![n] = @ + Total(tx[h].rec)]
            /\ UNCHANGED dropped
    /\ UNCHANGED <<meterVars, apart, copies, deleted>>

\* A statement that fails is logged and skipped, but PostgreSQL has aborted the
\* transaction: nothing of it stays, COMMIT fails and the call ends in INTERNAL.
Aborts(h) ==
    /\ userLock' = RowsReleased(h)
    /\ tx' = [tx EXCEPT ![h] = NoTx]
    /\ report' = [n \in Reporters |-> IF n \in Awaited(h) THEN Retried(n) ELSE report[n]]
    /\ dropped' = (dropped \/ \E n \in Awaited(h) : GivenUp(n))
    /\ UNCHANGED <<meterVars, totalVars, repeated>>

ReportFails(h) ==
    /\ tx[h] # NoTx
    /\ Incident("failed")
    /\ Aborts(h)

\* Two reports have the same customers the other way round; PostgreSQL picks one.
Stuck(h) == tx[h].todo # {} /\ \A u \in tx[h].todo : userLock[u] \in Handlers
Deadlocked(h) ==
    /\ Stuck(h)
    /\ \E u \in tx[h].todo, v \in Customers :
         /\ Stuck(userLock[u])
         /\ v \in tx[userLock[u]].todo /\ userLock[v] = h
DeadlockBroken(h) ==
    /\ Deadlocked(h)
    /\ Aborts(h)
    /\ UNCHANGED trafficScope

-----------------------------------------------------------------------------
(* The administrator                                                       *)

\* ResetTraffic: first the users row ...
ResetUser(u) ==
    /\ Incident("reset")
    /\ userLock[u] = NoHandler /\ u \notin deleted
    /\ \A v \in Customers : userLock[v] # "reset"
    /\ userLock' = [userLock EXCEPT ![u] = "reset"]
    /\ UNCHANGED <<meterVars, report, tx, totalVars, lossVars>>

\* ... then, in the same transaction, the logs that are committed by now.
ResetLogs(u) ==
    /\ userLock[u] = "reset"
    /\ userLock' = [userLock EXCEPT ![u] = NoHandler]
    /\ used' = [used EXCEPT ![u] = 0]
    /\ logged' = [logged EXCEPT ![u] = 0]
    /\ apart' = [apart EXCEPT ![u] = 0]
    /\ UNCHANGED <<meterVars, report, tx, copies, nodeUsed, deleted, lossVars, trafficScope>>

DeleteUser(u) ==
    /\ Incident("delete")
    /\ userLock[u] = NoHandler
    /\ deleted' = deleted \cup {u}
    /\ UNCHANGED <<meterVars, report, tx, userLock, used, logged, apart, copies, nodeUsed,
                   lossVars>>

-----------------------------------------------------------------------------
(* Who else writes the total, or takes log lines away                      *)

\* A user's total becomes n, the logs stay as they are.
TotalBecomes(u, n) ==
    /\ userLock[u] = NoHandler /\ u \notin deleted
    /\ used' = [used EXCEPT ![u] = n]
    /\ apart' = [apart EXCEPT ![u] = @ + n - used[u]]
    /\ UNCHANGED <<meterVars, report, tx, userLock, logged, nodeUsed, deleted, lossVars>>

\* A first or another plan, an administrator's too, and a full refund begin at zero.
PlanReplaced(u) ==
    /\ Incident("grant")
    /\ TotalBecomes(u, 0)
    /\ UNCHANGED copies

\* UpdateUser, ChangePassword and ChangeEmail read the whole row ...
ReadCopy(u) ==
    /\ Incident("save")
    /\ u \notin deleted
    /\ copies' = copies \cup {<<u, used[u]>>}
    /\ UNCHANGED <<meterVars, report, tx, userLock, used, logged, apart, nodeUsed, deleted,
                   lossVars>>

\* ... and save it, the total as it was with it.
SaveCopy(c) ==
    /\ c \in copies
    /\ TotalBecomes(c[1], c[2])
    /\ copies' = copies \ {c}
    /\ UNCHANGED trafficScope

\* CleanOrphanData deletes what is older than 30 days and drops old partitions.
CleanOldLogs(u) ==
    /\ Incident("clean")
    /\ \E old \in 1..logged[u] :
         /\ logged' = [logged EXCEPT ![u] = @ - old]
         /\ apart' = [apart EXCEPT ![u] = @ + old]
    /\ UNCHANGED <<meterVars, report, tx, userLock, used, copies, nodeUsed, deleted, lossVars>>

-----------------------------------------------------------------------------
ServeReport(h) ==
    \/ \E n \in Reporters : BeginReport(h, n)
    \/ \E u \in Customers : AddTraffic(h, u)
    \/ CommitReport(h) \/ DeadlockBroken(h)

TrafficNext ==
    \/ \E n \in Reporters :
         \/ \E u \in Customers : Carry(n, u)
         \/ XrayRestarts(n) \/ AgentCrashes(n) \/ QueryDelta(n) \/ Unreached(n) \/ TimesOut(n)
    \/ \E h \in Handlers : ServeReport(h) \/ ReportFails(h)
    \/ \E u \in Customers :
         \/ ResetUser(u) \/ ResetLogs(u) \/ DeleteUser(u)
         \/ PlanReplaced(u) \/ ReadCopy(u) \/ CleanOldLogs(u)
    \/ \E c \in copies : SaveCopy(c)

TrafficSpec == TrafficInit /\ [][TrafficNext]_trafficVars

\* The agent's minute comes round, and the panel goes on with what it has begun.
TrafficFairness ==
    /\ \A n \in Reporters : WF_trafficVars(QueryDelta(n))
    /\ \A h \in Handlers : SF_trafficVars(ServeReport(h))
    /\ WF_trafficVars(\E u \in Customers : ResetLogs(u))

TrafficFairSpec == TrafficSpec /\ TrafficFairness

-----------------------------------------------------------------------------
(* Correctness                                                             *)

\* A node is never charged for more than it carried, except for what was sent again
\* because the answer to a committed report got lost: whatever restarts, times out, fails
\* or deadlocks, no byte is counted twice.
NeverOverbilled == \A n \in Reporters : nodeUsed[n] <= Total(carried[n]) + repeated[n]

\* A report adds the same to a customer's total and to the log, and a reset, which writes
\* the total first where a report writes the log first, leaves neither anything: whatever
\* runs at the same time, total and log differ by what a plan that begins at zero, a row
\* saved whole or the cleaning of old logs has put between them since, and by no report.
BooksAgree == \A u \in Customers \ deleted : used[u] = logged[u] + apart[u]

\* While no counter was lost and no report given up, what was carried is charged in the
\* end: three failures in a row are made up for by the retries.
CarriedIsBilled ==
    <>[](dropped \/ \A n \in Reporters : nodeUsed[n] >= Total(carried[n]))
=============================================================================
