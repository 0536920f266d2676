SPECIFICATION Spec
CONSTANTS
    Orders = {o1, o2, o3}
    Users = {u1}
    Plans = {p1}
    Coupons = {c1}
    Procs = {w1, w2}
    None = none
    FullCoupons = {}
    MaxUses <- TwoUses
    MaxFreeTries = 3
    Ops = {"create", "pay", "cancel", "expire", "refund", "toggle", "fault"}
SYMMETRY Symmetry
INVARIANTS GrantedOnce CouponNotOvercounted
PROPERTY ImplementsLedger
CHECK_DEADLOCK FALSE
