----------------------------- MODULE Membership -----------------------------
(***************************************************************************)
(* Who is a customer and by which link: registration, accounts made by the *)
(* administrator, the two kinds of deletion, edits that save the whole row, *)
(* the subscription link that UserInfo looks up or makes, and the limit of *)
(* addresses that may fetch by it within an hour.  A name stands for the   *)
(* user name and the e-mail address, which the table keeps unique alike;   *)
(* a clock tick is half an hour, longer than any request takes.            *)
(***************************************************************************)
EXTENDS Integers, FiniteSets

CONSTANTS
    Members,            \* users rows that may come to be
    Names,
    Addresses,          \* devices
    Clerks,             \* requests that run at a time
    DeviceLimit,        \* of the customers' plan
    LinkHour,           \* ticks of the hour a device counts
    MaxTick,            \* bound: ticks
    MembershipScenarios \* bound: operations of a behaviour, how many, faults

MemberOps == {"register", "create", "visit", "fetch", "delete", "hardDelete", "edit"}

ASSUME MembershipAssumption ==
    /\ Names # {}
    /\ DeviceLimit \in Nat \ {0} /\ LinkHour \in Nat \ {0} /\ MaxTick \in Nat
    /\ MembershipScenarios \subseteq [ops : SUBSET MemberOps, calls : Nat, faults : Nat]

VARIABLES
    member,     \* the users rows: state, name, who made it
    links,      \* links[m]: sub_token of the live subscriptions rows of m
    lastLink,   \* the last token made
    handed,     \* handed[m]: tokens in links that were answered, history only
    misread,    \* customers whose link a failing query hid from who looked, history only
    revived,    \* rows that a save brought back, history only
    clerk,      \* clerk[c]: a request, what it has read
    tick,
    devices,    \* devices[m]: sub:ips:<m>, addresses with their score
    served,     \* served[m]: addresses that got the list, and when, history only
    unchecked,  \* the device limit could not be enforced once, history only
    roster      \* what may still happen

memberVars == <<member, links, lastLink, handed, misread, revived, clerk, tick, devices,
                served, unchecked, roster>>

MemberRows == [state : {"none", "live", "deleted", "gone"}, name : Names,
               by : {"register", "admin"}]
Free == [at |-> "free"]
Stamped == [ip : Addresses, at : Nat]

LiveMembers == {m \in Members : member[m].state = "live"}
NameTaken(name, but) == \E m \in LiveMembers \ {but} : member[m].name = name

MembershipTypeOK ==
    /\ member \in [Members -> MemberRows]
    /\ \A m, n \in LiveMembers : member[m].name = member[n].name => m = n
    /\ links \in [Members -> SUBSET (1..lastLink)] /\ lastLink \in Nat
    /\ handed \in [Members -> SUBSET (1..lastLink)]
    /\ misread \subseteq Members /\ revived \subseteq Members
    /\ tick \in 0..MaxTick
    /\ devices \in [Members -> SUBSET Stamped] /\ served \in [Members -> SUBSET Stamped]
    /\ unchecked \in BOOLEAN
    /\ roster \in [ops : SUBSET MemberOps, calls : Nat, faults : Nat]

MembershipInit ==
    /\ member = [m \in Members |->
                   [state |-> "none", name |-> CHOOSE name \in Names : TRUE, by |-> "register"]]
    /\ links = [m \in Members |-> {}] /\ lastLink = 0 /\ handed = links
    /\ misread = {} /\ revived = {}
    /\ clerk = [c \in Clerks |-> Free]
    /\ tick = 0
    /\ devices = [m \in Members |-> {}] /\ served = devices
    /\ unchecked = FALSE
    /\ roster \in MembershipScenarios

Enters(c, op, r) ==
    /\ clerk[c] = Free
    /\ op \in roster.ops /\ roster.calls > 0
    /\ roster' = [roster EXCEPT !.calls = @ - 1]
    /\ clerk' = [clerk EXCEPT ![c] = r]
Proceeds(c, r) == clerk' = [clerk EXCEPT ![c] = r]
MemberFault == roster.faults > 0 /\ roster' = [roster EXCEPT !.faults = @ - 1]

linkVars == <<links, lastLink, handed, misread>>
deviceVars == <<tick, devices, served, unchecked>>

-----------------------------------------------------------------------------
(* Accounts come to be                                                     *)

\* Register hashes the password first and then looks for the name, CreateUser the other way
\* round; both insert later, and only the unique index decides.
LooksForName(c) ==
    /\ \E name \in Names, by \in {"register", "admin"} :
         /\ Enters(c, IF by = "admin" THEN "create" ELSE "register",
                   [at |-> "insert", name |-> name, by |-> by])
         /\ \A m \in LiveMembers : member[m].name # name
    /\ UNCHANGED <<member, linkVars, revived, deviceVars>>

\* The subscription is inserted in the transaction of a registration; the administrator's
\* account gets none.
FirstLinksLater(by) == {}
FirstLinks(by) == IF by = "register" THEN {lastLink + 1} ELSE {}

InsertsUser(c) ==
    /\ clerk[c].at = "insert"
    /\ Proceeds(c, Free)
    /\ IF \E m \in LiveMembers : member[m].name = clerk[c].name
         THEN UNCHANGED <<member, links, lastLink>>
         ELSE \E m \in {n \in Members : member[n].state = "none"} :
                /\ member' = [member EXCEPT ![m] =
                     [state |-> "live", name |-> clerk[c].name, by |-> clerk[c].by]]
                /\ links' = [links EXCEPT ![m] = FirstLinks(clerk[c].by)]
                /\ lastLink' = lastLink + Cardinality(links'[m])
    /\ UNCHANGED <<handed, misread, revived, deviceVars, roster>>

\* A statement of either transaction fails, or a request dies anywhere.
RequestEnds(c) ==
    /\ clerk[c] # Free /\ MemberFault
    /\ Proceeds(c, Free)
    /\ UNCHANGED <<member, linkVars, revived, deviceVars>>

-----------------------------------------------------------------------------
(* Accounts change and end                                                 *)

\* UserUpdate reads the row, may hash a password, and saves every column.
EditsMember(c) ==
    /\ \E m \in LiveMembers : Enters(c, "edit", [at |-> "save", who |-> m, row |-> member[m]])
    /\ UNCHANGED <<member, linkVars, revived, deviceVars>>

\* Save updates by id, deleted or not, and inserts a row that is gone.
SavesMember(c) ==
    /\ clerk[c].at = "save"
    /\ Proceeds(c, Free)
    /\ LET m == clerk[c].who
       IN  IF NameTaken(clerk[c].row.name, m) THEN UNCHANGED <<member, revived>>
           ELSE /\ member' = [member EXCEPT ![m] = clerk[c].row]
                /\ revived' = IF m \in LiveMembers THEN revived ELSE revived \cup {m}
    /\ UNCHANGED <<linkVars, deviceVars, roster>>

\* UserDelete, after a look for open orders: SoftDelete ...
DeletesUser(c) ==
    /\ \E m \in LiveMembers :
         /\ Enters(c, "delete", [at |-> "disable", who |-> m])
         /\ member' = [member EXCEPT ![m].state = "deleted"]
    /\ UNCHANGED <<linkVars, revived, deviceVars>>

\* ... and then the subscriptions that are there by now.
DisablesLinks(c) ==
    /\ clerk[c].at = "disable"
    /\ links' = [links EXCEPT ![clerk[c].who] = {}]
    /\ Proceeds(c, Free)
    /\ UNCHANGED <<member, lastLink, handed, misread, revived, deviceVars, roster>>

\* UserHardDelete: one transaction removes the row and everything that refers to it.
HardDeletesUser(c) ==
    /\ \E m \in LiveMembers :
         /\ Enters(c, "hardDelete", Free)
         /\ member' = [member EXCEPT ![m].state = "gone"]
         /\ links' = [links EXCEPT ![m] = {}]
    /\ UNCHANGED <<lastLink, handed, misread, revived, deviceVars>>

-----------------------------------------------------------------------------
(* The link                                                                *)

\* UserInfo reads the row and lets EnsureSubscription look for the subscription; the
\* administrator's list of users only shows the link that is there.
VisitsPanel(c) ==
    /\ \E m \in LiveMembers, at \in {"ensure", "sign"} : Enters(c, "visit", [at |-> at, who |-> m])
    /\ UNCHANGED <<member, linkVars, revived, deviceVars>>

EnsureFinds(c) ==
    /\ clerk[c].at = "ensure"
    /\ Proceeds(c, [clerk[c] EXCEPT !.at = IF links[clerk[c].who] = {} THEN "make" ELSE "sign"])
    /\ UNCHANGED <<member, linkVars, revived, deviceVars, roster>>

\* Any error of the lookup reads as no subscription.
EnsureMisses(c) ==
    /\ clerk[c].at = "ensure" /\ MemberFault
    /\ Proceeds(c, [clerk[c] EXCEPT !.at = "make"])
    /\ misread' = misread \cup {clerk[c].who}
    /\ UNCHANGED <<member, links, lastLink, handed, revived, deviceVars>>

\* No index keeps a second subscription of the same customer out; the foreign key keeps out
\* one of a row that is gone.
EnsureMakes(c) ==
    /\ clerk[c].at = "make"
    /\ IF member[clerk[c].who].state = "gone"
         THEN Proceeds(c, Free) /\ UNCHANGED <<links, lastLink>>
         ELSE /\ lastLink' = lastLink + 1
              /\ links' = [links EXCEPT ![clerk[c].who] = @ \cup {lastLink'}]
              /\ Proceeds(c, [clerk[c] EXCEPT !.at = "sign"])
    /\ UNCHANGED <<member, handed, misread, revived, deviceVars, roster>>

\* GenerateSignedURL reads the subscription again, with LIMIT 1 and in no order.
SignsLink(c) ==
    /\ clerk[c].at = "sign"
    /\ Proceeds(c, Free)
    /\ LET m == clerk[c].who
       IN  IF links[m] = {} THEN UNCHANGED handed
           ELSE \E t \in links[m] : handed' = [handed EXCEPT ![m] = @ \cup {t}]
    /\ UNCHANGED <<member, links, lastLink, misread, revived, deviceVars, roster>>

-----------------------------------------------------------------------------
(* PublicFetch and Fetch                                                   *)

\* The token leads to the customer and the customer to a subscription, again any of them;
\* the signature is checked against that one.  Whether the account is blocked comes next.
FetchesList(c) ==
    /\ \E m \in LiveMembers, ip \in Addresses :
         /\ Enters(c, "fetch", [at |-> "clean", who |-> m, ip |-> ip])
         /\ \E t \in handed[m] : t \in links[m]
    /\ UNCHANGED <<member, linkVars, revived, deviceVars>>

\* enforceDeviceLimit: ZREMRANGEBYSCORE, ZADD and ZCARD are three commands.
LapsedEarly(at) == at < tick
Lapsed(at) == at <= tick - LinkHour

CleansDevices(c) ==
    /\ clerk[c].at = "clean"
    /\ LET m == clerk[c].who
       IN  devices' = [devices EXCEPT ![m] = {d \in @ : ~Lapsed(d.at)}]
    /\ Proceeds(c, [clerk[c] EXCEPT !.at = "add"])
    /\ UNCHANGED <<member, linkVars, revived, tick, served, unchecked, roster>>

AddsDevice(c) ==
    /\ clerk[c].at = "add"
    /\ LET m == clerk[c].who
           ip == clerk[c].ip
       IN  devices' = [devices EXCEPT ![m] = {d \in @ : d.ip # ip} \cup {[ip |-> ip, at |-> tick]}]
    /\ Proceeds(c, [clerk[c] EXCEPT !.at = "count"])
    /\ UNCHANGED <<member, linkVars, revived, tick, served, unchecked, roster>>

Gets(c) == served' = [served EXCEPT ![clerk[c].who] = @ \cup {[ip |-> clerk[c].ip, at |-> tick]}]

\* The address stays in the set although it is refused.
CountsDevices(c) ==
    /\ clerk[c].at = "count"
    /\ IF Cardinality(devices[clerk[c].who]) > DeviceLimit THEN UNCHANGED served ELSE Gets(c)
    /\ Proceeds(c, Free)
    /\ UNCHANGED <<member, linkVars, revived, tick, devices, unchecked, roster>>

\* The errors of the first two commands are ignored; when ZCARD fails, or before them all the
\* query for the customer or the plan, nobody is refused.
DeviceCommandFails(c) ==
    /\ MemberFault
    /\ \/ /\ clerk[c].at = "clean"
          /\ Proceeds(c, [clerk[c] EXCEPT !.at = "add"])
          /\ UNCHANGED <<served, unchecked>>
       \/ /\ clerk[c].at = "add"
          /\ Proceeds(c, [clerk[c] EXCEPT !.at = "count"])
          /\ unchecked' = TRUE /\ UNCHANGED served
       \/ /\ clerk[c].at \in {"clean", "count"}
          /\ Gets(c) /\ Proceeds(c, Free)
          /\ unchecked' = TRUE
    /\ UNCHANGED <<member, linkVars, revived, tick, devices>>

TickPasses ==
    /\ tick < MaxTick /\ "fetch" \in roster.ops
    /\ \A c \in Clerks : clerk[c].at \notin {"clean", "add", "count"}
    /\ tick' = tick + 1
    /\ UNCHANGED <<member, linkVars, revived, clerk, devices, served, unchecked, roster>>

MembershipNext ==
    \/ \E c \in Clerks :
         \/ LooksForName(c) \/ InsertsUser(c) \/ RequestEnds(c)
         \/ EditsMember(c) \/ SavesMember(c)
         \/ DeletesUser(c) \/ DisablesLinks(c) \/ HardDeletesUser(c)
         \/ VisitsPanel(c) \/ EnsureFinds(c) \/ EnsureMisses(c) \/ EnsureMakes(c)
         \/ SignsLink(c)
         \/ FetchesList(c) \/ CleansDevices(c) \/ AddsDevice(c) \/ CountsDevices(c)
         \/ DeviceCommandFails(c)
    \/ TickPasses

MembershipSpec == MembershipInit /\ [][MembershipNext]_memberVars

-----------------------------------------------------------------------------
(* Correctness                                                             *)

\* Every link a registered customer was shown leads to the account until that is deleted, and
\* is the only one, so that signatures are checked against it, whoever visits, edits or fails
\* meanwhile, unless a failing query hid the link from a visit, which then made another one.
LinksStayValid ==
    \A m \in LiveMembers \ revived : member[m].by = "register" =>
        /\ handed[m] \subseteq links[m]
        /\ m \notin misread => Cardinality(links[m]) <= 1

\* As long as no query or command of the limit failed (a failing clean-up of old addresses
\* does no harm), no more addresses than the plan allows get the list within an hour, however
\* their requests overlap.
DevicesAreLimited ==
    ~unchecked => \A m \in Members :
        Cardinality({d.ip : d \in {s \in served[m] : s.at > tick - LinkHour}}) <= DeviceLimit
=============================================================================
