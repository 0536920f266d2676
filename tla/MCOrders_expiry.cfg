SPECIFICATION FairSpec
CONSTANTS
    Orders = {o1, o2}
    Users = {u1}
    Plans = {p1}
    Coupons = {c1}
    Procs = {w1, w2}
    None = none
    FullCoupons = {}
    MaxUses <- OneUse
    MaxFreeTries = 3
    Ops = {"create", "pay", "cancel", "expire", "editCoupon", "fault"}
PROPERTY OverdueIsSettled
CHECK_DEADLOCK FALSE
