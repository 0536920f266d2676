SPECIFICATION PayFairSpec
CONSTANTS
    Orders = {o1}
    Handlers = {h1, h2}
    None = none
    Deadline = 3
    PendingWindow = 6
    ExpiredWindow = 9
    LastPayment = 6
    MaxNotify = 2
    MaxFaults = 2
    Faults = {"db", "redis", "del", "reply", "query", "crash"}
PROPERTY CollectedIsGranted
CHECK_DEADLOCK FALSE
