SPECIFICATION PaySpec
CONSTANTS
    Orders = {o1, o2}
    Handlers = {h1, h2}
    None = none
    Deadline = 1
    PendingWindow = 2
    ExpiredWindow = 2
    LastPayment = 1
    MaxNotify = 2
    MaxFaults = 2
    Faults = {"db", "redis", "reply", "query"}
SYMMETRY Interchangeable
INVARIANTS GrantedOnceForMoney ClaimNeverStrands
CHECK_DEADLOCK FALSE
