SPECIFICATION Spec
CONSTANTS
    Orders = {o1, o2}
    Users = {u1}
    Plans = {p1}
    Coupons = {c1}
    Procs = {w1, w2}
    None = none
    FullCoupons = {}
    MaxUses <- TwoUses
    MaxFreeTries = 3
    Ops = {"create", "pay", "adminCancel"}
PROPERTY PaidNeverCancelled
CHECK_DEADLOCK FALSE
