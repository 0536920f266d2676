---------------------------- MODULE NodePanel ----------------------------
(***************************************************************************)
(* The panel's side of one node: its row in PostgreSQL, the two Redis keys *)
(* by which a heartbeat finds out that the node's configuration is out of  *)
(* date, and whoever writes them: handlers, orders, cron and the           *)
(* administrator.  What commits to the database and what then clears the    *)
(* keys are separate steps.                                                *)
(***************************************************************************)
EXTENDS Naturals

CONSTANTS
    Users,      \* customers whose plan is bound to the node
    None,       \* a missing key or list
    Scenarios   \* bound: the operations a behaviour may use, and how many of them

PanelOps == {"grant", "pay", "revoke", "lapse", "edit", "delete", "rotate", "graceEnds",
             "redeploy", "stale", "ping", "load", "redis", "query", "down", "lost", "crash",
             "xray"}

ASSUME PanelAssumption ==
    /\ Scenarios \subseteq [ops : SUBSET PanelOps, changes : Nat]
    /\ \A l \in SUBSET Users : l # None

VARIABLES
    ops,        \* the operations of this behaviour
    changes,    \* how many are left
    row,        \* the nodes row; mine: its token is the one the agent has
    oldToken,   \* node:old_token is the agent's
    active,     \* what listActiveUsersForNode returns
    configver,  \* node:configver, or None
    usershash,  \* node:usershash (the list it is the hash of), or None
    pending,    \* what committed operations have still to do in Redis
    form,       \* the row an administrator's edit has read; {} if none
    picked      \* MarkStaleNodesOffline has selected the node

panelVars == <<ops, changes, row, oldToken, active, configver, usershash, pending, form, picked>>

\* updated_at only ever serves to be compared: the row's, the key's and the one a
\* heartbeat has read are at most three, and a new one differs from all.
Versions == 1..4
NodeRow == [enabled : BOOLEAN, gone : BOOLEAN, mine : BOOLEAN, online : BOOLEAN, ver : Versions]
Forms == {{}} \cup {{n} : n \in NodeRow}
Duties == {"clear", "clearNode", "grace", "noGrace", "forget"}

PanelTypeOK ==
    /\ ops \subseteq PanelOps
    /\ changes \in Nat
    /\ row \in NodeRow
    /\ oldToken \in BOOLEAN
    /\ active \subseteq Users
    /\ configver \in Versions \cup {None}
    /\ usershash \in {None} \cup SUBSET Users
    /\ pending \subseteq Duties
    /\ form \in Forms
    /\ picked \in BOOLEAN

PanelInit ==
    /\ \E s \in Scenarios : ops = s.ops /\ changes = s.changes
    /\ row = [enabled |-> TRUE, gone |-> FALSE, mine |-> TRUE, online |-> FALSE, ver |-> 1]
    /\ oldToken = FALSE
    /\ active \in SUBSET Users
    /\ configver = None
    /\ usershash = None
    /\ pending = {}
    /\ form = {}
    /\ picked = FALSE

\* acceptOldNodeToken: 24 hours of grace after a rotation.
Accepted == row.mine \/ oldToken

\* Register looks the node up by its present token; the other handlers by id.
AnswersDisabled == Accepted /\ ~row.gone
Admits == row.mine /\ row.enabled /\ ~row.gone
Answers == Accepted /\ row.enabled /\ ~row.gone

\* buildXrayConfig refuses an empty list.
HandsOutEmpty == Answers
HandsOut == Answers /\ active # {}

Unseen(seen) == CHOOSE v \in Versions : v \notin {row.ver, configver} \cup seen

Take(op) ==
    /\ op \in ops
    /\ changes > 0
    /\ changes' = changes - 1
    /\ UNCHANGED ops

-----------------------------------------------------------------------------
(* Customers                                                               *)

\* A free order, an enabled account, a reset of the traffic: someone comes onto the list,
\* and the keys are cleared.
GrantUser(u) ==
    /\ Take("grant")
    /\ u \notin active /\ ~row.gone
    /\ active' = active \cup {u}
    /\ pending' = pending \cup {"clear"}
    /\ UNCHANGED <<row, oldToken, configver, usershash, form, picked>>

\* A payment, an order marked as paid, a plan set by the administrator, a new account: they
\* end with their transaction (what follows the return in PaySuccess is never reached), so
\* only the next heartbeat's look at the list can notice.
PayUser(u) ==
    /\ Take("pay")
    /\ u \notin active /\ ~row.gone
    /\ active' = active \cup {u}
    /\ UNCHANGED <<row, oldToken, configver, usershash, pending, form, picked>>

\* Disabled, deleted, expired or used up: off the list, and the keys are cleared.
RevokeUser(u) ==
    /\ Take("revoke")
    /\ u \in active
    /\ active' = active \ {u}
    /\ pending' = pending \cup {"clear"}
    /\ UNCHANGED <<row, oldToken, configver, usershash, form, picked>>

\* A refund, or a date that passes: nobody clears anything (after a date cron does, minutes
\* later, unless the customer has paid).
Lapse(u) ==
    /\ Take("lapse")
    /\ u \in active
    /\ active' = active \ {u}
    /\ UNCHANGED <<row, oldToken, configver, usershash, pending, form, picked>>

\* ClearAllNodeUsersHashCache finds the nodes by their usershash keys.
ClearKeys ==
    /\ "clear" \in pending
    /\ pending' = pending \ {"clear"}
    /\ usershash' = None
    /\ configver' = IF usershash = None THEN configver ELSE None
    /\ UNCHANGED <<ops, changes, row, oldToken, active, form, picked>>

\* ... and those of one node, whichever it has.
ClearNodeKeys ==
    /\ "clearNode" \in pending
    /\ pending' = pending \ {"clearNode"}
    /\ usershash' = None /\ configver' = None
    /\ UNCHANGED <<ops, changes, row, oldToken, active, form, picked>>

-----------------------------------------------------------------------------
(* The administrator                                                       *)

\* UpdateNode reads the row and changes a field ...
EditRead(f) ==
    /\ Take("edit")
    /\ form = {}
    /\ ~row.gone
    /\ form' = {CASE f = "enable" -> [row EXCEPT !.enabled = TRUE]
                  [] f = "disable" -> [row EXCEPT !.enabled = FALSE, !.online = FALSE]
                  [] OTHER -> row}
    /\ UNCHANGED <<row, oldToken, active, configver, usershash, pending, picked>>

\* ... and saves every column of it, the token, "deleted" and "online" as they were read.
EditSave(seen) ==
    /\ \E n \in form : row' = [n EXCEPT !.ver = Unseen(seen)]
    /\ form' = {}
    /\ pending' = pending \cup {"clearNode"}
    /\ UNCHANGED <<ops, changes, oldToken, active, configver, usershash, picked>>

\* DeleteNode: one transaction, which takes the plan bindings away too ...
DeleteNode(seen) ==
    /\ Take("delete")
    /\ ~row.gone
    /\ row' = [row EXCEPT !.gone = TRUE, !.online = FALSE, !.ver = Unseen(seen)]
    /\ active' = {}
    /\ pending' = pending \cup {"forget"}
    /\ UNCHANGED <<oldToken, configver, usershash, form, picked>>

\* ... then the keys.
ForgetKeys ==
    /\ "forget" \in pending
    /\ pending' = pending \ {"forget"}
    /\ configver' = None /\ usershash' = None /\ oldToken' = FALSE
    /\ UNCHANGED <<ops, changes, row, active, form, picked>>

\* RotateToken: the new token is committed ...
RotateToken(seen) ==
    /\ Take("rotate")
    /\ ~row.gone
    /\ pending \cap {"grace", "noGrace"} = {}
    /\ row' = [row EXCEPT !.mine = FALSE, !.ver = Unseen(seen)]
    /\ pending' = pending \cup {IF row.mine THEN "grace" ELSE "noGrace"}
    /\ UNCHANGED <<oldToken, active, configver, usershash, form, picked>>

\* ... before the old one is put into Redis.
RotateKeys ==
    /\ pending \cap {"grace", "noGrace"} # {}
    /\ oldToken' = ("grace" \in pending)
    /\ pending' = pending \ {"grace", "noGrace"}
    /\ configver' = None /\ usershash' = None
    /\ UNCHANGED <<ops, changes, row, active, form, picked>>

\* PingNode: the proxy port answers or does not, whatever the agent reports.
PingNode ==
    /\ Take("ping")
    /\ ~row.gone
    /\ \/ row' = [row EXCEPT !.online = FALSE] /\ UNCHANGED pending
       \/ row' = [row EXCEPT !.online = TRUE] /\ pending' = pending \cup {"clearNode"}
    /\ UNCHANGED <<oldToken, active, configver, usershash, form, picked>>

\* The grace period is over, or Redis has lost the key.
GraceEnds ==
    /\ Take("graceEnds")
    /\ oldToken
    /\ oldToken' = FALSE
    /\ UNCHANGED <<row, active, configver, usershash, pending, form, picked>>

-----------------------------------------------------------------------------
(* Cron                                                                    *)

\* MarkStaleNodesOffline selects the nodes not heard of for eight minutes ...
StalePick ==
    /\ Take("stale")
    /\ ~picked
    /\ row.online /\ ~row.gone
    /\ picked' = TRUE
    /\ UNCHANGED <<row, oldToken, active, configver, usershash, pending, form>>

\* ... updates them by id, and clears their keys.
StaleMark(seen) ==
    /\ picked
    /\ picked' = FALSE
    /\ row' = [row EXCEPT !.online = FALSE, !.ver = Unseen(seen)]
    /\ pending' = pending \cup {"clearNode"}
    /\ UNCHANGED <<ops, changes, oldToken, active, configver, usershash, form>>

-----------------------------------------------------------------------------
PanelNext(seen) ==
    \/ \E u \in Users : GrantUser(u) \/ PayUser(u) \/ RevokeUser(u) \/ Lapse(u)
    \/ \E f \in {"enable", "disable", "other"} : EditRead(f)
    \/ EditSave(seen) \/ DeleteNode(seen) \/ RotateToken(seen) \/ StaleMark(seen)
    \/ ClearKeys \/ ClearNodeKeys \/ ForgetKeys \/ RotateKeys
    \/ PingNode \/ GraceEnds \/ StalePick

\* What a handler that has committed does next on its own.
PanelFinishes(seen) ==
    \/ ClearKeys \/ ClearNodeKeys \/ ForgetKeys \/ RotateKeys
    \/ EditSave(seen) \/ StaleMark(seen)
=============================================================================
