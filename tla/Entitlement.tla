---------------------------- MODULE Entitlement ----------------------------
(***************************************************************************)
(* The arithmetic on a user row: what a paid order adds to it              *)
(* (order_service.go setUserPlanWithMode), what a refund takes back        *)
(* (AdminRefund), and who is handed to the nodes (repo/user.go             *)
(* ListActiveForPlans).  Time is counted in days, traffic in units.        *)
(***************************************************************************)
EXTENDS Integers

CONSTANTS
    Plans,
    None,       \* plan_id NULL
    Never,      \* expired_at NULL: does not expire
    Quota,      \* Quota[p]: plans.traffic_limit, 0 for unlimited
    Days        \* Days[p]: plans.duration_days, 0 for unlimited

ASSUME EntitlementAssumption ==
    /\ None \notin Plans
    /\ Never \notin Int
    /\ Quota \in [Plans -> Nat]
    /\ Days \in [Plans -> Nat]

UserStatus == {"active", "expired", "traffic_exhausted", "disabled"}

Dates == Nat \cup {Never}

\* limit = 0 means unlimited.
UserRow == [plan : Plans \cup {None}, limit : Nat, used : Nat, exp : Dates,
            status : UserStatus]

NewUser == [plan |-> None, limit |-> 0, used |-> 0, exp |-> Never, status |-> "active"]

\* u.ExpiredAt != nil && u.ExpiredAt.After(now)
Unexpired(u, now) == u.exp # Never /\ u.exp > now

\* ListActiveForPlans: the users a node gets credentials for.
Served(u, now) ==
    /\ u.status = "active" /\ u.plan # None
    /\ u.exp = Never \/ u.exp > now
    /\ u.limit = 0 \/ u.used < u.limit

\* Is the purchase of p a renewal, which adds up, or does it start afresh?
RenewsAnyStatus(u, p, now) == u.plan = p /\ Unexpired(u, now)
Renews(u, p, now) == u.plan = p /\ Unexpired(u, now) /\ u.status = "active"

\* The status a purchase leaves: it brings everyone back but the disabled.
ReactivatedAlways(u) == "active"
Reactivated(u) == IF u.status = "disabled" THEN u.status ELSE "active"

\* What a purchase of plan p makes of the row, for paid orders (renewing) and
\* for free ones (not renewing: never added up, and another running plan is left
\* alone).
SetUserPlan(u, p, now, allowRenew) ==
    LET renew == allowRenew /\ Renews(u, p, now)
        base == IF renew THEN u.exp ELSE now
    IN
    IF ~allowRenew /\ u.plan \notin {None, p} /\ Unexpired(u, now)
    THEN u
    ELSE [plan |-> p,
          limit |-> IF renew /\ u.limit > u.used
                    THEN u.limit - u.used + Quota[p] ELSE Quota[p],
          used |-> IF renew THEN u.used ELSE 0,
          exp |-> IF Days[p] = 0 THEN Never ELSE base + Days[p],
          status |-> Reactivated(u)]

\* No plan is left: the row a full refund leaves.
Emptied(u) == [NewUser EXCEPT !.status = "expired"]

AtLeast(x, y) == IF x < y THEN y ELSE x

\* Other orders are paid: take back what this one had added.
RolledBackNothing(u, p, now) == u
RolledBackUnbounded(u, p, now) ==
    [u EXCEPT !.exp = IF Days[p] = 0 \/ @ = Never THEN @ ELSE @ - Days[p],
              !.limit = @ - Quota[p]]
RolledBack(u, p, now) ==
    [u EXCEPT !.exp = IF Days[p] = 0 \/ @ = Never THEN @ ELSE AtLeast(@ - Days[p], now),
              !.limit = IF Quota[p] = 0 THEN @ ELSE AtLeast(@ - Quota[p], u.used)]

\* AdminRefund of an order for plan p.
RefundRow(u, p, now, othersPaid) ==
    IF u.plan # p THEN u
    ELSE IF othersPaid THEN RolledBack(u, p, now) ELSE Emptied(u)

\* markUserExhaustedTx and MarkAllTrafficExhausted.
ExhaustedOrUnlimited(u) == u.status = "active" /\ u.used >= u.limit
Exhausted(u) == u.status = "active" /\ u.limit > 0 /\ u.used >= u.limit
MarkExhausted(u) == IF Exhausted(u) THEN [u EXCEPT !.status = "traffic_exhausted"] ELSE u
=============================================================================
