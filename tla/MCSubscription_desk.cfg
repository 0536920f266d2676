SPECIFICATION SubSpec
CONSTANTS
    p1 = p1
    p2 = p2
    p3 = p3
    Plans = {p1, p3}
    None = none
    Never = never
    Keep = keep
    Quota <- QuotaOf
    Days <- DaysOf
    Forms <- Dates01
    Orders = {o1, o2}
    MaxNow = 2
    MaxUsed = 2
    MaxGift = 1
    Ops = {"pay", "free", "refund", "use", "cycle", "disable", "enable", "login", "edit", "activate", "fault"}
SYMMETRY SymmetricOrders
INVARIANTS SubTypeOK ExhaustedIsUsedUp
PROPERTY DisabledStays
CHECK_DEADLOCK FALSE
