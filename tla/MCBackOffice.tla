--------------------------- MODULE MCBackOffice ---------------------------
(***************************************************************************)
(* The parts of the panel that share no variable with one another, in one  *)
(* instance for TLC.  A behaviour is one of one part: since no step of a   *)
(* part reads what another one writes, interleaving them would reach no    *)
(* state of a part that it does not reach alone.                           *)
(***************************************************************************)
EXTENDS Traffic, Backups, MonthlyJobs, SelfUpdate, Deploy, Accounts, Referral, Tickets,
        Membership, TLC

VARIABLE part   \* the part this behaviour is about

Calendar == <<31, 28, 31>>

WithBytes(n, operations, carry) == [ops |-> operations, changes |-> n, bytes |-> carry]
WithDumps(n, operations, backups) == [ops |-> operations, faults |-> n, dumps |-> backups]
OnDay(n, operations, day) == [ops |-> operations, faults |-> n, resetDay |-> day]
WithUpdates(n, operations, times) == [ops |-> operations, faults |-> n, updates |-> times]
WithFaults(n, operations) == [ops |-> operations, faults |-> n]
WithCalls(n, operations, many) == [ops |-> operations, calls |-> many, faults |-> n]

\* Four bytes: both nodes report both customers.  Three failures: one less than attempts.
TrafficCases == {WithBytes(0, {}, 4),
                 WithBytes(3, {"unreached", "failed"}, 2),
                 WithBytes(4, {"unreached", "replyLost"}, 1),
                 WithBytes(2, {"timeout", "replyLost"}, 2),
                 WithBytes(2, {"restart", "crash", "replyLost"}, 2),
                 WithBytes(2, {"reset", "delete"}, 2),
                 WithBytes(3, {"reset", "grant", "save", "clean"}, 2)}

\* Three backups: the lock of the first lapses under it, the third meets the second.
BackupCases == {WithDumps(4, {"dumpFails", "cleanup"}, 3),
                WithDumps(3, {"lapse", "crash"}, 3),
                WithDumps(2, {"gzipFails", "crash", "cleanup"}, 2)}

\* The 1st by default, the 31st and the 29th, which February does not have.
MonthCases == {OnDay(0, {}, 0),
               OnDay(1, {"unread", "redisError"}, 31),
               OnDay(1, {"dbError", "crash"}, 29)}

UpdateCases == {WithUpdates(n, {"push", "rejected", "badStash", "badReset", "badFetch",
                                "badPop", "badStatus"}, 3 - n) : n \in 1..2}
               \cup {WithUpdates(1, {"badBuild", "badHelper", "panic", "die", "slow"}, 2),
                     WithUpdates(1, {"die", "clear", "panic"}, 2)}

\* Two failures of the compiler are the failure of a deployment.
DeployCases == {WithFaults(2, {"badBuild"}),
                WithFaults(1, {"break", "sameNode", "rotate", "cleanup"}),
                WithFaults(2, {"badDocker", "dockerDown"}),
                WithFaults(1, {"badDocker", "dockerDown", "badSend", "newSource"})}

AccountCases == {WithCalls(1, {"login", "refresh", "logout", "logoutAll"}, 5),
                 WithCalls(2, {"login", "mistype"}, 6),
                 WithCalls(1, {"login", "password", "email", "refresh"}, 4)}

ReferralCases == {WithCalls(1, {"code", "bind", "refund", "cheap"}, 5),
                  WithCalls(1, {"code", "bind", "free", "refund", "switch"}, 5)}

MembershipCases == {WithCalls(1, {"register", "create", "visit", "delete", "edit"}, 4),
                    WithCalls(1, {"register", "visit", "hardDelete", "edit"}, 4),
                    WithCalls(0, {"register", "visit", "fetch"}, 5),
                    WithCalls(1, {"register", "visit", "fetch"}, 4)}

\* A part that is not about to act waits in one of its initial states.
Waits(name, scope, cases) == part # name => scope = CHOOSE s \in cases : TRUE

OfficeInit ==
    /\ part \in {"traffic", "backups", "months", "update", "deploy", "accounts", "referral",
                 "tickets", "membership"}
    /\ TrafficInit /\ Waits("traffic", trafficScope, TrafficCases)
    /\ BackupInit /\ Waits("backups", backupScope, BackupCases)
    /\ MonthInit /\ Waits("months", prospect, MonthCases)
    /\ UpdateInit /\ Waits("update", agenda, UpdateCases)
    /\ DeployInit /\ Waits("deploy", outlook, DeployCases)
    /\ AccountInit /\ Waits("accounts", program, AccountCases)
    /\ ReferralInit /\ Waits("referral", billSheet, ReferralCases)
    /\ TicketInit /\ (part # "tickets" => thread = <<>>)
    /\ MembershipInit /\ Waits("membership", roster, MembershipCases)

officeVars == <<part, trafficVars, backupVars, monthVars, updateVars,
                deployVars, accountVars, referralVars, ticketVars, memberVars>>

OfficeNext ==
    /\ part' = part
    /\ \/ part = "traffic" /\ TrafficNext
          /\ UNCHANGED <<backupVars, monthVars, updateVars, deployVars,
                         accountVars, referralVars, ticketVars, memberVars>>
       \/ part = "backups" /\ BackupNext
          /\ UNCHANGED <<trafficVars, monthVars, updateVars, deployVars,
                         accountVars, referralVars, ticketVars, memberVars>>
       \/ part = "months" /\ MonthNext
          /\ UNCHANGED <<trafficVars, backupVars, updateVars, deployVars,
                         accountVars, referralVars, ticketVars, memberVars>>
       \/ part = "update" /\ UpdateNext
          /\ UNCHANGED <<trafficVars, backupVars, monthVars, deployVars,
                         accountVars, referralVars, ticketVars, memberVars>>
       \/ part = "deploy" /\ DeployNext
          /\ UNCHANGED <<trafficVars, backupVars, monthVars, updateVars,
                         accountVars, referralVars, ticketVars, memberVars>>
       \/ part = "accounts" /\ AccountNext
          /\ UNCHANGED <<trafficVars, backupVars, monthVars, updateVars,
                         deployVars, referralVars, ticketVars, memberVars>>
       \/ part = "referral" /\ ReferralNext
          /\ UNCHANGED <<trafficVars, backupVars, monthVars, updateVars,
                         deployVars, accountVars, ticketVars, memberVars>>
       \/ part = "tickets" /\ TicketNext
          /\ UNCHANGED <<trafficVars, backupVars, monthVars, updateVars,
                         deployVars, accountVars, referralVars, memberVars>>
       \/ part = "membership" /\ MembershipNext
          /\ UNCHANGED <<trafficVars, backupVars, monthVars, updateVars, deployVars,
                         accountVars, referralVars, ticketVars>>

\* The fairness of Traffic and Deploy; the guard saves TLC the search in the other parts.
OfficeFairness ==
    /\ \A n \in Reporters : WF_trafficVars(part = "traffic" /\ QueryDelta(n))
    /\ \A h \in Handlers : SF_trafficVars(part = "traffic" /\ ServeReport(h))
    /\ WF_trafficVars(part = "traffic" /\ \E u \in Customers : ResetLogs(u))
    /\ \A d \in Deployments : WF_deployVars(part = "deploy" /\ DeployStep(d))

OfficeSpec == OfficeInit /\ [][OfficeNext]_officeVars /\ OfficeFairness

\* Every part keeps the types of its variables, whatever fails in it.
OfficeTypeOK ==
    /\ TrafficTypeOK /\ BackupTypeOK /\ MonthTypeOK /\ UpdateTypeOK
    /\ DeployTypeOK /\ AccountTypeOK /\ ReferralTypeOK /\ TicketTypeOK
    /\ MembershipTypeOK
=============================================================================
