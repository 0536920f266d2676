SPECIFICATION SubSpec
CONSTANTS
    p1 = p1
    p2 = p2
    p3 = p3
    Plans = {p1, p2}
    None = none
    Never = never
    Keep = keep
    Quota <- QuotaOf
    Days <- DaysOf
    Forms <- RemarkOnly
    Orders = {o1, o2, o3, o4}
    MaxNow = 6
    MaxUsed = 4
    MaxGift = 2
    Ops = {"pay", "free", "refund", "use", "reset", "cycle", "disable", "enable"}
SYMMETRY SymmetricOrders
INVARIANTS NeverMoreTimeThanPaid ExpiredHasExpired
CHECK_DEADLOCK FALSE
