SPECIFICATION OfficeSpec
CONSTANTS
    Customers = {u1, u2}
    Reporters = {n1, n2}
    Handlers = {h1, h2}
    NoHandler = none
    TrafficScenarios <- TrafficCases
    Instances = {p1, p2}
    NoOwner = none
    BackupScenarios <- BackupCases
    Replicas = {p1, p2}
    NoKey = none
    MonthLengths <- Calendar
    HoursPerDay = 2
    MonthScenarios <- MonthCases
    Edits = {e1, e2}
    MaxCommits = 2
    UpdateScenarios <- UpdateCases
    Deployments = {d1, d2}
    Nodes = {n1, n2}
    NoOne = none
    DeployScenarios <- DeployCases
    Requests = {r1, r2}
    MaxFail = 2
    MaxSecond = 1
    AccountScenarios <- AccountCases
    Bills = {b1, b2}
    Clients = {c1, c2}
    NoBill = none
    ReferralScenarios <- ReferralCases
    Agents = {a1, a2}
    MaxReplies = 5
    TicketFaults = 1
    Members = {m1, m2}
    Names = {k1, k2}
    Addresses = {i1, i2}
    Clerks = {q1, q2}
    DeviceLimit = 1
    LinkHour = 2
    MaxTick = 3
    MembershipScenarios <- MembershipCases
INVARIANT LogsAreWritten
CHECK_DEADLOCK FALSE
