---------------------------- MODULE Subscription ----------------------------
(***************************************************************************)
(* The life of one user row: purchases, refunds, traffic, the cron jobs    *)
(* and the administrator, each as its statements can interleave with the   *)
(* others.  Purchases and refunds read the row with FOR UPDATE and are one  *)
(* step (module Orders shows the orders' side of them); a read whose value *)
(* is used by a later statement, goroutine or save is a step of its own.   *)
(***************************************************************************)
EXTENDS Entitlement, FiniteSets

CONSTANTS
    Orders,     \* orders of this user
    MaxNow,     \* bound: last day
    MaxUsed,    \* bound: traffic_used
    MaxGift,    \* bound: no activation by hand on top of this limit or of this many days
    Ops,        \* the operations of a run
    Keep,       \* a field an edit form leaves out
    Forms       \* what an administrator's edit form fills in

SubOps == {"pay", "free", "refund", "activate", "use", "cycle", "disable", "enable",
           "reset", "login", "edit", "fault"}

FormFields == [limit : Nat \cup {Keep}, days : Nat \cup {Keep}, plan : Plans \cup {Keep}]

ASSUME SubscriptionAssumption ==
    /\ Ops \subseteq SubOps
    /\ Forms \subseteq FormFields
    /\ Keep \notin Nat /\ Keep \notin Plans
    /\ MaxNow \in Nat /\ MaxUsed \in Nat /\ MaxGift \in Nat
    /\ IsFiniteSet(Orders)

VARIABLES
    now,        \* the day
    user,       \* the users row
    order,      \* order[o]: status and plan
    login,      \* a goroutine of handler Login is about to mark the user expired
    edit,       \* the row an edit form has read, with its changes; {} if none
    picked      \* ResetTrafficForCycleBatch has selected this user

subVars == <<now, user, order, login, edit, picked>>

NoOrder == [st |-> "none", plan |-> None]

\* Type correctness of the user row, its orders and what is under way on it; at most
\* one edit form is open.
SubTypeOK ==
    /\ now \in 0..MaxNow
    /\ user \in UserRow
    /\ order \in [Orders -> [st : {"none", "paid", "refunded"}, plan : Plans \cup {None}]]
    /\ login \in BOOLEAN
    /\ edit \subseteq UserRow /\ Cardinality(edit) <= 1
    /\ picked \in BOOLEAN

SubInit ==
    /\ now = 0
    /\ user = NewUser
    /\ order = [o \in Orders |-> NoOrder]
    /\ login = FALSE
    /\ edit = {}
    /\ picked = FALSE

Paid == {o \in Orders : order[o].st = "paid"}

-----------------------------------------------------------------------------
(* Orders                                                                  *)

\* PaySuccess: setUserPlan.
Buy(o, p) ==
    /\ "pay" \in Ops
    /\ order[o].st = "none"
    /\ order' = [order EXCEPT ![o] = [st |-> "paid", plan |-> p]]
    /\ user' = SetUserPlan(user, p, now, TRUE)
    /\ UNCHANGED <<now, login, edit, picked>>

\* A free order: setUserPlanWithMode(allowRenew = false).
BuyFree(o, p) ==
    /\ "free" \in Ops
    /\ order[o].st = "none"
    /\ order' = [order EXCEPT ![o] = [st |-> "paid", plan |-> p]]
    /\ user' = SetUserPlan(user, p, now, FALSE)
    /\ UNCHANGED <<now, login, edit, picked>>

\* AdminRefund; if the other paid orders cannot be counted the row is left alone.
Refund(o) ==
    /\ "refund" \in Ops
    /\ order[o].st = "paid"
    /\ order' = [order EXCEPT ![o].st = "refunded"]
    /\ \/ user' = RefundRow(user, order[o].plan, now, Paid \ {o} # {})
       \/ "fault" \in Ops /\ user' = user
    /\ UNCHANGED <<now, login, edit, picked>>

\* UserActivatePlan: a plan by hand, without an order.
Activate(p) ==
    /\ "activate" \in Ops
    /\ user.limit <= MaxGift /\ (user.exp # Never => user.exp <= now + MaxGift)
    /\ user' = SetUserPlan(user, p, now, TRUE)
    /\ UNCHANGED <<now, order, login, edit, picked>>

-----------------------------------------------------------------------------
(* Traffic and time                                                        *)

\* A node reports a unit of traffic: AddTrafficTx and markUserExhaustedTx in one
\* transaction.  A node may still use credentials that were withdrawn since.
Use ==
    /\ "use" \in Ops
    /\ user.used < MaxUsed
    /\ user # NewUser
    /\ user' = MarkExhausted([user EXCEPT !.used = @ + 1])
    /\ UNCHANGED <<now, order, login, edit, picked>>

Tick ==
    /\ now < MaxNow
    /\ now' = now + 1
    /\ UNCHANGED <<user, order, login, edit, picked>>

\* RunAll, every 5 minutes.
OverdueByStatus(u) == u.status = "active" /\ u.exp # Never
Overdue(u) == u.status = "active" /\ u.exp # Never /\ u.exp < now
ExpireOverdueUsers ==
    /\ Overdue(user)
    /\ user' = [user EXCEPT !.status = "expired"]
    /\ UNCHANGED <<now, order, login, edit, picked>>

MarkAllTrafficExhausted ==
    /\ Exhausted(user)
    /\ user' = MarkExhausted(user)
    /\ UNCHANGED <<now, order, login, edit, picked>>

\* ResetTrafficMonthly: exhausted users become active ...
CycleRestore ==
    /\ "cycle" \in Ops
    /\ user.status = "traffic_exhausted"
    /\ user' = [user EXCEPT !.status = "active"]
    /\ UNCHANGED <<now, order, login, edit, picked>>

\* ... then the active users with traffic are selected ...
CyclePick ==
    /\ "cycle" \in Ops
    /\ ~picked
    /\ user.status = "active" /\ user.used > 0
    /\ picked' = TRUE
    /\ UNCHANGED <<now, user, order, login, edit>>

\* ... and updated by id.
CycleReset ==
    /\ picked
    /\ user' = [user EXCEPT !.used = 0, !.status = "active"]
    /\ picked' = FALSE
    /\ UNCHANGED <<now, order, login, edit>>

-----------------------------------------------------------------------------
(* The administrator and the login handler                                 *)

\* UserToggleStatus.
Disable ==
    /\ "disable" \in Ops
    /\ user' = [user EXCEPT !.status = "disabled"]
    /\ UNCHANGED <<now, order, login, edit, picked>>

Enable ==
    /\ "enable" \in Ops
    /\ user' = [user EXCEPT !.status = "active"]
    /\ UNCHANGED <<now, order, login, edit, picked>>

\* UserResetTraffic.
ResetTraffic ==
    /\ "reset" \in Ops
    /\ user' = [user EXCEPT !.used = 0, !.status = "active"]
    /\ UNCHANGED <<now, order, login, edit, picked>>

\* Login finds the account expired and not disabled ...
LoginRead ==
    /\ "login" \in Ops
    /\ ~login
    /\ user.status # "disabled" /\ user.exp # Never /\ user.exp < now
    /\ login' = TRUE
    /\ UNCHANGED <<now, user, order, edit, picked>>

\* ... and a goroutine writes that down, whatever the row has become.
LoginMark ==
    /\ login
    /\ user' = [user EXCEPT !.status = "expired"]
    /\ login' = FALSE
    /\ UNCHANGED <<now, order, edit, picked>>

\* What UpdateUser changes in the row it has read; "0 days" removes the date.
Edited(u, f) ==
    [u EXCEPT !.limit = IF f.limit = Keep THEN @ ELSE f.limit,
              !.exp = IF f.days = Keep THEN @ ELSE IF f.days = 0 THEN Never ELSE now + f.days,
              !.plan = IF f.plan = Keep THEN @ ELSE f.plan]

\* UpdateUser reads the row and fills in the form ...
EditRead(f) ==
    /\ "edit" \in Ops
    /\ edit = {}
    /\ edit' = {Edited(user, f)}
    /\ UNCHANGED <<now, user, order, login, picked>>

\* ... and saves every column of it.
EditSave ==
    /\ user' \in edit
    /\ edit' = {}
    /\ UNCHANGED <<now, order, login, picked>>

-----------------------------------------------------------------------------
SubNext ==
    \/ \E o \in Orders, p \in Plans : Buy(o, p) \/ BuyFree(o, p)
    \/ \E o \in Orders : Refund(o)
    \/ Use \/ Tick \/ ExpireOverdueUsers \/ MarkAllTrafficExhausted
    \/ CycleRestore \/ CyclePick \/ CycleReset
    \/ \E p \in Plans : Activate(p)
    \/ Disable \/ Enable \/ ResetTraffic \/ LoginRead \/ LoginMark
    \/ \E f \in Forms : EditRead(f)
    \/ EditSave

SubSpec == SubInit /\ [][SubNext]_subVars

-----------------------------------------------------------------------------
(* Correctness                                                             *)

DaysPaid(p) == Days[p] * Cardinality({o \in Paid : order[o].plan = p})

\* Whatever the customer buys, renews, switches and has refunded in whatever order,
\* what is left of the running plan was paid for by orders of that plan that still
\* stand: a refund takes back the days its order had added (P0-4), and time does not
\* carry over to another plan.
NeverMoreTimeThanPaid ==
    user.plan # None => user.exp # Never /\ user.exp <= now + DaysPaid(user.plan)

\* Nobody whose time is running is marked expired: the cron job and the purchase
\* that brings a user back do not cross.
ExpiredHasExpired ==
    user.status = "expired" => user.plan = None \/ ~Unexpired(user, now)

\* Nobody is kept off the nodes as exhausted with traffic left: whatever renews,
\* resets or rolls back the row changes the mark and the counters together, and a
\* stale row an administrator saves carries both.
ExhaustedIsUsedUp ==
    user.status = "traffic_exhausted" => user.limit > 0 /\ user.used >= user.limit

\* What writes a status whatever it was: on purpose, by a reset, a full refund, a row
\* or a selection that has become stale.
StatusWritten ==
    Enable \/ ResetTraffic \/ CycleReset \/ EditSave \/ LoginMark \/ \E o \in Orders : Refund(o)

\* Nothing else undoes an administrator's "disabled": not a payment, a renewal, a gift,
\* a report or the five-minute cron, whatever the row went through.
DisabledStays ==
    [][user.status = "disabled" /\ ~StatusWritten => user'.status = "disabled"]_subVars

-----------------------------------------------------------------------------
(* What comments in the code say and the code does not do                  *)

\* Comment at AdminRefund: a refund takes back what the order had added; it never
\* gives the customer more traffic than before.
RefundNeverWidens ==
    [][user.limit > 0 /\ Served(user', now) /\ (\E o \in Orders : Refund(o))
       => user'.limit > 0]_subVars
=============================================================================
