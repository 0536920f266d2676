SPECIFICATION Spec
CONSTANTS
    Orders = {o1, o2}
    Users = {u1}
    Plans = {p1, p2}
    Coupons = {c1, c2}
    Procs = {w1, w2}
    None = none
    FullCoupons = {c1}
    MaxUses <- OneUse
    MaxFreeTries = 2
    Ops = {"create", "free", "pay", "refund", "markPaid", "adminCancel", "toggle", "fault"}
SYMMETRY Symmetry
INVARIANTS TypeOK PlanHeldWhilePaid FreeOncePerDay
CHECK_DEADLOCK FALSE
