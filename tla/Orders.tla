------------------------------- MODULE Orders -------------------------------
(***************************************************************************)
(* The order service (backend/internal/service/order_service.go) over its  *)
(* tables orders, coupons and users, at the grain at which concurrent      *)
(* requests can interleave on PostgreSQL in READ COMMITTED:                *)
(*                                                                         *)
(*   - the read a handler does before its transaction is a step (its value *)
(*     is kept in call[p].seen and used later);                            *)
(*   - a read inside the transaction that takes no row lock is a step      *)
(*     (call[p].row): tx.Set("gorm:query_option", "FOR UPDATE"), which     *)
(*     AdminMarkPaid, AdminRefund and AdminCancelOrder use, is an option   *)
(*     of gorm v1 that gorm v2 does not read, so it locks nothing;         *)
(*   - the first write of the order row takes its row lock until commit    *)
(*     (lock[o]); readers still see the committed value;                   *)
(*   - everything from the user row's FOR UPDATE to the commit is one step *)
(*     (the coupon and user rows are locked by then, in the same order     *)
(*     order < coupon < user by every transaction).                        *)
(*                                                                         *)
(* The user row is reduced to its plan; its quota and expiry are modelled  *)
(* in module Subscription.                                                 *)
(***************************************************************************)
EXTENDS Integers, FiniteSets

CONSTANTS
    Orders, Users, Plans, Coupons,
    Procs,          \* concurrent requests in flight
    None,           \* no plan, no coupon, no lock holder
    FullCoupons,    \* coupons that bring the price to 0 (free orders)
    MaxUses,        \* MaxUses[c]: coupons.max_uses, 0 for unlimited
    MaxFreeTries,   \* bound on the free-order counter of a user
    Ops             \* the operations the environment of a run performs

AllOps == {"create", "free", "pay", "cancel", "expire", "refund", "markPaid",
           "adminCancel", "toggle", "editCoupon", "fault"}

ASSUME OrdersAssumption ==
    /\ None \notin Orders \cup Users \cup Plans \cup Coupons \cup Procs
    /\ FullCoupons \subseteq Coupons
    /\ MaxUses \in [Coupons -> Nat]
    /\ MaxFreeTries \in Nat
    /\ Ops \subseteq AllOps
    /\ IsFiniteSet(Orders)

VARIABLES
    status,     \* status[o]: committed status of order o
    terms,      \* terms[o]: user, plan and coupon of o (never updated)
    overdue,    \* orders whose expired_at has passed
    used,       \* used[c]: coupons.used_count
    enabled,    \* enabled[c]: coupon not disabled, deleted or past expire_at
    plan,       \* plan[u]: users.plan_id
    lock,       \* lock[o]: the request holding the row lock of o
    call,       \* call[p]: the request p is executing
    toExpire,   \* what the expiry job has listed and not processed yet
    edit,       \* edit[c]: used_count in the row a coupon edit has read
    freeCount,  \* freeCount[u]: Redis counter freeorder:uid:<u>:<day>
    fulfilled   \* ghost: times the plan of o was granted

vars == <<status, terms, overdue, used, enabled, plan, lock, call, toExpire,
          edit, freeCount, fulfilled>>

\* The promise this module is shown to keep.
Ledger == INSTANCE OrderLedger

Status == Ledger!Status
Payable == Ledger!Payable

Terms == [user : Users, plan : Plans, coupon : Coupons \cup {None}]
NoTerms == [user |-> None, plan |-> None, coupon |-> None]

CallOps == {"idle", "pay", "cancel", "markPaid", "refund", "adminCancel", "free"}

Call == [op : CallOps, at : {"none", "tx", "save", "locked"},
         order : Orders \cup {None}, seen : Status, row : Status,
         want : Terms \cup {NoTerms}]

Idle == [op |-> "idle", at |-> "none", order |-> None, seen |-> "absent",
         row |-> "absent", want |-> NoTerms]

NoEdit == -1

\* Type correctness of the three tables and of every request under way.
TypeOK ==
    /\ status \in [Orders -> Status]
    /\ terms \in [Orders -> Terms \cup {NoTerms}]
    /\ overdue \subseteq Orders
    /\ used \in [Coupons -> Nat]
    /\ enabled \in [Coupons -> BOOLEAN]
    /\ plan \in [Users -> Plans \cup {None}]
    /\ lock \in [Orders -> Procs \cup {None}]
    /\ call \in [Procs -> Call]
    /\ toExpire \subseteq Orders
    /\ edit \in [Coupons -> Nat \cup {NoEdit}]
    /\ freeCount \in [Users -> Int]
    /\ fulfilled \in [Orders -> Nat]

Init ==
    /\ status = [o \in Orders |-> "absent"]
    /\ terms = [o \in Orders |-> NoTerms]
    /\ overdue = {}
    /\ used = [c \in Coupons |-> 0]
    /\ enabled = [c \in Coupons |-> TRUE]
    /\ plan = [u \in Users |-> None]
    /\ lock = [o \in Orders |-> None]
    /\ call = [p \in Procs |-> Idle]
    /\ toExpire = {}
    /\ edit = [c \in Coupons |-> NoEdit]
    /\ freeCount = [u \in Users |-> 0]
    /\ fulfilled = [o \in Orders |-> 0]

-----------------------------------------------------------------------------
(* Helpers                                                                 *)

\* The WHERE clause of IncrUsedSafeTx.
Redeemable(c) == enabled[c] /\ (MaxUses[c] = 0 \/ used[c] < MaxUses[c])

\* IncrUsedSafeTx on a redeemable coupon, DecrUsedSafeTx (0 stays 0), and what
\* an order without a coupon leaves alone.
Consumed(c) == IF c = None THEN used ELSE [used EXCEPT ![c] = @ + 1]
ReleasedUnguarded(c) == IF c = None THEN used ELSE [used EXCEPT ![c] = @ - 1]
Released(c) ==
    IF c = None THEN used ELSE [used EXCEPT ![c] = IF @ > 0 THEN @ - 1 ELSE @]

\* CountPaidByUserExcluding(user, o) = 0, on committed rows.
NoOtherPaidAssumed(u, o) == TRUE
NoOtherPaid(u, o) ==
    \A x \in Orders \ {o} : ~(status[x] = "paid" /\ terms[x].user = u)

Begin(p, op, o) ==
    call' = [call EXCEPT ![p] = [Idle EXCEPT !.op = op, !.at = "tx",
                                             !.order = o, !.seen = status[o]]]
Finish(p) == call' = [call EXCEPT ![p] = Idle]

At(p, op, where) == call[p].op = op /\ call[p].at = where
Target(p) == call[p].order
CouponOf(o) == terms[o].coupon

LockRow(p) ==
    /\ lock[Target(p)] = None
    /\ lock' = [lock EXCEPT ![Target(p)] = p]
    /\ call' = [call EXCEPT ![p].at = "locked"]

\* WHERE status = 'pending', of CancelOrder and ExpireOrders.
StillPendingAssumed(o) == TRUE
StillPending(o) == status[o] = "pending"

\* WHERE status IN ('pending', 'expired'), of PaySuccess.
StillPayableAssumed(o) == TRUE
StillPayable(o) == status[o] \in Payable

\* wasExpired && CouponID != nil: PaySuccess consumes the coupon again.
ConsumesAgainAlways(p) == CouponOf(Target(p)) # None
ConsumesAgain(p) == call[p].seen = "expired" /\ CouponOf(Target(p)) # None

\* The counter as INCR returns it lets the free order through.
FreeAllowedTwice(u) == freeCount[u] + 1 <= 2
FreeAllowed(u) == freeCount[u] + 1 <= 1

\* The row locks once the transaction of p is rolled back.
LocksKept(p) == lock
LocksWithout(p) == [o \in Orders |-> IF lock[o] = p THEN None ELSE lock[o]]

Unlock(o) == lock' = [lock EXCEPT ![o] = None]

-----------------------------------------------------------------------------
(* CreateOrder                                                             *)

\* A priced order.  The coupon read before the transaction only fixes the
\* discount: IncrUsedSafeTx checks it again, so the two are one step.
CreateOrder(o, t) ==
    /\ "create" \in Ops
    /\ status[o] = "absent"
    /\ t.coupon # None => t.coupon \notin FullCoupons /\ Redeemable(t.coupon)
    /\ status' = [status EXCEPT ![o] = "pending"]
    /\ terms' = [terms EXCEPT ![o] = t]
    /\ used' = Consumed(t.coupon)
    /\ UNCHANGED <<overdue, enabled, plan, lock, call, toExpire, edit, freeCount, fulfilled>>

\* A free order: INCR of the per-user per-day counter.  Only the first INCR of
\* the day goes on; a later one is rejected and leaves the counter as it is.
FreeIncr(p, t) ==
    /\ "free" \in Ops
    /\ call[p] = Idle
    /\ t.coupon \in FullCoupons /\ Redeemable(t.coupon)
    /\ freeCount[t.user] < MaxFreeTries
    /\ freeCount' = [freeCount EXCEPT ![t.user] = @ + 1]
    /\ call' = IF FreeAllowed(t.user)
               THEN [call EXCEPT ![p] = [Idle EXCEPT !.op = "free", !.at = "tx",
                                                     !.want = t]]
               ELSE call
    /\ UNCHANGED <<status, terms, overdue, used, enabled, plan, lock, toExpire, edit, fulfilled>>

\* The transaction of a free order.  setUserPlanWithMode(allowRenew = false)
\* leaves a user alone who holds another plan that has not expired.
FreeCommit(p, o) ==
    LET t == call[p].want IN
    /\ At(p, "free", "tx")
    /\ status[o] = "absent"
    /\ Redeemable(t.coupon)
    /\ status' = [status EXCEPT ![o] = "paid"]
    /\ terms' = [terms EXCEPT ![o] = t]
    /\ used' = Consumed(t.coupon)
    /\ fulfilled' = [fulfilled EXCEPT ![o] = @ + 1]
    /\ \/ plan' = [plan EXCEPT ![t.user] = t.plan]
       \/ plan[t.user] \notin {None, t.plan} /\ plan' = plan
    /\ Finish(p)
    /\ UNCHANGED <<overdue, enabled, lock, toExpire, edit, freeCount>>

\* The transaction of a free order fails (the coupon is gone, or a database
\* error when faults are on): the counter is decremented.
FreeFail(p) ==
    LET t == call[p].want IN
    /\ At(p, "free", "tx")
    /\ "fault" \in Ops \/ ~Redeemable(t.coupon)
    /\ freeCount' = [freeCount EXCEPT ![t.user] = @ - 1]
    /\ Finish(p)
    /\ UNCHANGED <<status, terms, overdue, used, enabled, plan, lock, toExpire, edit, fulfilled>>

-----------------------------------------------------------------------------
(* PaySuccess                                                              *)

\* GetByOrderNo outside the transaction; wasExpired is (seen = "expired").
PayRead(p, o) ==
    /\ "pay" \in Ops
    /\ call[p] = Idle
    /\ status[o] \in Payable
    /\ Begin(p, "pay", o)
    /\ UNCHANGED <<status, terms, overdue, used, enabled, plan, lock, toExpire, edit, freeCount, fulfilled>>

\* UPDATE ... WHERE status IN ('pending','expired') waits for the row lock and
\* takes it.
PayUpdate(p) ==
    /\ At(p, "pay", "tx")
    /\ StillPayable(Target(p))
    /\ LockRow(p)
    /\ UNCHANGED <<status, terms, overdue, used, enabled, plan, toExpire, edit, freeCount, fulfilled>>

\* RowsAffected = 0: somebody else moved the order; return nil.
PayLost(p) ==
    /\ At(p, "pay", "tx")
    /\ lock[Target(p)] = None
    /\ ~StillPayable(Target(p))
    /\ Finish(p)
    /\ UNCHANGED <<status, terms, overdue, used, enabled, plan, lock, toExpire, edit, freeCount, fulfilled>>

\* The coupon of an order seen expired is consumed again if it still can be;
\* setUserPlan grants the plan; commit.
PayCommit(p) ==
    LET o == Target(p)
        c == CouponOf(o)
        again == ConsumesAgain(p)
    IN
    /\ At(p, "pay", "locked")
    /\ status' = [status EXCEPT ![o] = "paid"]
    /\ used' = IF again /\ Redeemable(c) THEN Consumed(c) ELSE used
    /\ plan' = [plan EXCEPT ![terms[o].user] = terms[o].plan]
    /\ fulfilled' = [fulfilled EXCEPT ![o] = @ + 1]
    /\ Unlock(o)
    /\ Finish(p)
    /\ UNCHANGED <<terms, overdue, enabled, toExpire, edit, freeCount>>

-----------------------------------------------------------------------------
(* CancelOrder, by the user                                                *)

CancelRead(p, o) ==
    /\ "cancel" \in Ops
    /\ call[p] = Idle
    /\ status[o] = "pending"
    /\ Begin(p, "cancel", o)
    /\ UNCHANGED <<status, terms, overdue, used, enabled, plan, lock, toExpire, edit, freeCount, fulfilled>>

\* UPDATE ... WHERE status = 'pending'; DecrUsedSafeTx; or "status changed".
CancelCommit(p) ==
    LET o == Target(p) IN
    /\ At(p, "cancel", "tx")
    /\ lock[o] = None
    /\ IF StillPending(o)
       THEN /\ status' = [status EXCEPT ![o] = "cancelled"]
            /\ used' = Released(CouponOf(o))
       ELSE UNCHANGED <<status, used>>
    /\ Finish(p)
    /\ UNCHANGED <<terms, overdue, enabled, plan, lock, toExpire, edit, freeCount, fulfilled>>

-----------------------------------------------------------------------------
(* ExpireOrders, by cron                                                   *)

\* The 15 minutes of a pending order pass.
Overdue(o) ==
    /\ "expire" \in Ops
    /\ status[o] = "pending" /\ o \notin overdue
    /\ overdue' = overdue \cup {o}
    /\ UNCHANGED <<status, terms, used, enabled, plan, lock, call, toExpire, edit, freeCount, fulfilled>>

ExpireList ==
    /\ toExpire = {}
    /\ \E o \in overdue : status[o] = "pending"
    /\ toExpire' = {o \in overdue : status[o] = "pending"}
    /\ UNCHANGED <<status, terms, overdue, used, enabled, plan, lock, call, edit, freeCount, fulfilled>>

\* One transaction per listed order, conditional on status = 'pending'.
ExpireOne(o) ==
    /\ o \in toExpire
    /\ lock[o] = None
    /\ toExpire' = toExpire \ {o}
    /\ IF StillPending(o)
       THEN /\ status' = [status EXCEPT ![o] = "expired"]
            /\ used' = Released(CouponOf(o))
       ELSE UNCHANGED <<status, used>>
    /\ UNCHANGED <<terms, overdue, enabled, plan, lock, call, edit, freeCount, fulfilled>>

-----------------------------------------------------------------------------
(* The three administrator operations: a read, a second read inside the    *)
(* transaction that locks nothing, then tx.Save of the whole row by id.    *)

AdminMay == [markPaid |-> {"pending"}, refund |-> {"paid"},
             adminCancel |-> {"pending", "expired"}]
AdminOps == {"markPaid", "refund", "adminCancel"}

AdminRead(p, op, o) ==
    /\ op \in Ops
    /\ call[p] = Idle
    /\ status[o] \in AdminMay[op]
    /\ Begin(p, op, o)
    /\ UNCHANGED <<status, terms, overdue, used, enabled, plan, lock, toExpire, edit, freeCount, fulfilled>>

\* tx.Set("gorm:query_option", "FOR UPDATE").First(&locked): no row lock.
AdminReread(p) ==
    LET op == call[p].op
        now == status[Target(p)]
    IN
    /\ op \in AdminOps /\ call[p].at = "tx"
    /\ call' = IF now \in AdminMay[op]
               THEN [call EXCEPT ![p].at = "save", ![p].row = now]
               ELSE [call EXCEPT ![p] = Idle]
    /\ UNCHANGED <<status, terms, overdue, used, enabled, plan, lock, toExpire, edit, freeCount, fulfilled>>

\* tx.Save(&locked) of AdminMarkPaid and AdminRefund: waits for the row lock,
\* then overwrites whatever is there when the transaction commits.
AdminSave(p) ==
    /\ call[p].op \in {"markPaid", "refund"} /\ call[p].at = "save"
    /\ LockRow(p)
    /\ UNCHANGED <<status, terms, overdue, used, enabled, plan, toExpire, edit, freeCount, fulfilled>>

\* AdminMarkPaid: setUserPlan and commit.
MarkPaidCommit(p) ==
    LET o == Target(p) IN
    /\ At(p, "markPaid", "locked")
    /\ status' = [status EXCEPT ![o] = "paid"]
    /\ plan' = [plan EXCEPT ![terms[o].user] = terms[o].plan]
    /\ fulfilled' = [fulfilled EXCEPT ![o] = @ + 1]
    /\ Unlock(o)
    /\ Finish(p)
    /\ UNCHANGED <<terms, overdue, used, enabled, toExpire, edit, freeCount>>

\* The user loses the plan if it is the refunded one and no other paid order of the
\* user is left; if those cannot be counted it is kept.
PlanAfterRefund(o) ==
    LET u == terms[o].user IN
    {IF plan[u] = terms[o].plan /\ NoOtherPaid(u, o)
     THEN [plan EXCEPT ![u] = None] ELSE plan}
    \cup {q \in {plan} : "fault" \in Ops}

\* AdminRefund: DecrUsedSafeTx, lock the user, roll the plan back; commit.
RefundCommit(p) ==
    LET o == Target(p) IN
    /\ At(p, "refund", "locked")
    /\ status' = [status EXCEPT ![o] = "refunded"]
    /\ used' = Released(CouponOf(o))
    /\ plan' \in PlanAfterRefund(o)
    /\ Unlock(o)
    /\ Finish(p)
    /\ UNCHANGED <<terms, overdue, enabled, toExpire, edit, freeCount, fulfilled>>

\* AdminCancelOrder: Save(cancelled), DecrUsedSafeTx only if the order was
\* pending in both reads; commit.
AdminCancelCommit(p) ==
    LET o == Target(p) IN
    /\ At(p, "adminCancel", "save")
    /\ lock[o] = None
    /\ status' = [status EXCEPT ![o] = "cancelled"]
    /\ used' = IF call[p].seen = "pending" /\ call[p].row = "pending"
               THEN Released(CouponOf(o)) ELSE used
    /\ Finish(p)
    /\ UNCHANGED <<terms, overdue, enabled, plan, lock, toExpire, edit, freeCount, fulfilled>>

-----------------------------------------------------------------------------
(* Coupon administration and faults                                        *)

\* AdminCouponToggleStatus (and the passing of expire_at, or a deletion, which
\* make the coupon unusable in the same way).
ToggleCoupon(c) ==
    /\ "toggle" \in Ops
    /\ enabled' = [enabled EXCEPT ![c] = ~@]
    /\ UNCHANGED <<status, terms, overdue, used, plan, lock, call, toExpire, edit, freeCount, fulfilled>>

\* AdminCouponUpdate reads the whole row ...
EditRead(c) ==
    /\ "editCoupon" \in Ops
    /\ edit[c] = NoEdit
    /\ edit' = [edit EXCEPT ![c] = used[c]]
    /\ UNCHANGED <<status, terms, overdue, used, enabled, plan, lock, call, toExpire, freeCount, fulfilled>>

\* ... and saves the whole row: used_count as it was read, is_enabled as it was
\* read or as the form sets it.
EditSave(c) ==
    /\ edit[c] # NoEdit
    /\ used' = [used EXCEPT ![c] = edit[c]]
    /\ \E on \in BOOLEAN : enabled' = [enabled EXCEPT ![c] = on]
    /\ edit' = [edit EXCEPT ![c] = NoEdit]
    /\ UNCHANGED <<status, terms, overdue, plan, lock, call, toExpire, freeCount, fulfilled>>

\* A request dies (crash, database error): its transaction is rolled back and
\* its lock released.  A free order's INCR is not undone.
Abort(p) ==
    /\ "fault" \in Ops
    /\ call[p] # Idle
    /\ lock' = LocksWithout(p)
    /\ Finish(p)
    /\ UNCHANGED <<status, terms, overdue, used, enabled, plan, toExpire, edit, freeCount, fulfilled>>

-----------------------------------------------------------------------------
CreateSteps ==
    \/ \E o \in Orders, t \in Terms : CreateOrder(o, t)
    \/ \E p \in Procs, t \in Terms : FreeIncr(p, t)
    \/ \E p \in Procs, o \in Orders : FreeCommit(p, o)
    \/ \E p \in Procs : FreeFail(p)

PaySteps ==
    \/ \E p \in Procs, o \in Orders : PayRead(p, o)
    \/ \E p \in Procs : PayUpdate(p) \/ PayLost(p) \/ PayCommit(p)

CancelSteps ==
    \/ \E p \in Procs, o \in Orders : CancelRead(p, o)
    \/ \E p \in Procs : CancelCommit(p)

ExpireSteps ==
    \/ \E o \in Orders : Overdue(o) \/ ExpireOne(o)
    \/ ExpireList

AdminSteps ==
    \/ \E p \in Procs, o \in Orders, op \in AdminOps : AdminRead(p, op, o)
    \/ \E p \in Procs : \/ AdminReread(p) \/ AdminSave(p) \/ MarkPaidCommit(p)
                        \/ RefundCommit(p) \/ AdminCancelCommit(p)

CouponSteps ==
    \E c \in Coupons : ToggleCoupon(c) \/ EditRead(c) \/ EditSave(c)

Next ==
    \/ CreateSteps \/ PaySteps \/ CancelSteps \/ ExpireSteps \/ AdminSteps
    \/ CouponSteps
    \/ \E p \in Procs : Abort(p)

Spec == Init /\ [][Next]_vars

\* What the database and the scheduler owe: a request in flight goes on, cron
\* keeps running, and the queue of waiters on a row lock is first come first
\* served, so whoever waits for it again and again gets it (SF).
Fairness ==
    /\ WF_vars(ExpireList)
    /\ \A o \in Orders : SF_vars(ExpireOne(o))
    /\ \A p \in Procs :
           /\ SF_vars(PayUpdate(p)) /\ WF_vars(PayLost(p)) /\ WF_vars(PayCommit(p))
           /\ SF_vars(CancelCommit(p))

FairSpec == Spec /\ Fairness

-----------------------------------------------------------------------------
(* Correctness                                                             *)

\* Orders that hold one use of coupon c.
LiveWith(c) == {o \in Orders : CouponOf(o) = c /\ status[o] \in {"pending", "paid"}}

\* An order's plan is granted once if the order is or was paid and never
\* otherwise, however notify, reconciliation, cancellation and expiry interleave
\* (order_service.go: the conditional updates of F-12 and P0-F1).  It needs
\* AdminMarkPaid and AdminCancelOrder to stay away.
GrantedOnce == Ledger!GrantedExactlyWhenPaid

\* The order service implements the ledger: no status is ever moved along an
\* edge the ledger does not have, e.g. from paid to cancelled or expired.
ImplementsLedger == Ledger!LedgerSpec

\* used_count never exceeds the orders that hold a use of the coupon: a
\* customer is never told that a coupon is used up while uses are left.
CouponNotOvercounted == \A c \in Coupons : used[c] <= Cardinality(LiveWith(c))

\* AdminRefund's check "same plan and no other paid order" is sound against
\* payments and refunds committing around it: a user with a paid order has a plan.
PlanHeldWhilePaid ==
    \A o \in Orders : status[o] = "paid" => plan[terms[o].user] # None

\* CreateOrder gives a user at most one free order a day (P0-3), whatever
\* attempts run at the same time and whichever of them fail.
FreeOncePerDay ==
    \A x, y \in Orders :
        /\ status[x] # "absent" /\ CouponOf(x) \in FullCoupons
        /\ status[y] # "absent" /\ CouponOf(y) \in FullCoupons
        /\ terms[x].user = terms[y].user
        => x = y

\* An unpaid order does not stay pending past its deadline: ExpireOrders gets to
\* it although payments hold its row lock and die holding it.
OverdueIsSettled ==
    \A o \in Orders : (o \in overdue /\ status[o] = "pending") ~> status[o] # "pending"

-----------------------------------------------------------------------------
(* What comments in the code say and the code does not do                  *)

\* Comment at AdminCancelOrder: the second check keeps a paid order from being
\* turned into a cancelled one.
PaidNeverCancelled ==
    [][\A o \in Orders : status[o] = "paid" => status'[o] # "cancelled"]_vars
=============================================================================
