---------------------------- MODULE Accounts ----------------------------
(***************************************************************************)
(* One customer's account: logging in with its counter of wrong passwords, *)
(* token pairs that are exchanged and revoked by a version number in       *)
(* Redis, and the changes of password and e-mail address, which read the   *)
(* users row, work for a while and save all of it.  A pair has no identity *)
(* of its own: it is a signature over the version and the second it was    *)
(* issued in, so two pairs of one second are the same pair.  Redis may     *)
(* fail in any call, and most of the code then goes on without its answer. *)
(* The second counter, of the caller's IP address, is left out.            *)
(***************************************************************************)
EXTENDS Integers, FiniteSets

CONSTANTS
    Requests,         \* handlers that run at a time
    MaxFail,          \* LoginMaxFail
    MaxSecond,        \* bound: seconds
    AccountScenarios  \* bound: operations of a behaviour, how many, faults

AccountOps == {"login", "mistype", "refresh", "logout", "logoutAll", "password", "email"}

ASSUME AccountAssumption ==
    /\ IsFiniteSet(Requests)
    /\ MaxFail \in Nat \ {0} /\ MaxSecond \in Nat
    /\ AccountScenarios \subseteq [ops : SUBSET AccountOps, calls : Nat, faults : Nat]

VARIABLES
    account,    \* the users row: numbers of the password and of the address it has
    version,    \* tokver:user:<id>, 0 while the key does not exist
    second,
    issued,     \* pairs handed out, each with the version at its login, history
    black,      \* jwtblack: pairs whose access or refresh token is revoked
    request,    \* request[p]: what it is at and what it has read
    mailCode,   \* the address a code is waiting for, 0 for none
    failures,   \* loginfail:acc
    lasting,    \* that key has got no lifetime
    locked,     \* loginlock:acc
    mistyped,   \* wrong passwords since the counter was last at 0, history
    slipped,    \* logins since then that a failing Redis let past lock or counter, history
    program     \* what may still happen

accountVars == <<account, version, second, issued, black, request, mailCode,
                 failures, lasting, locked, mistyped, slipped, program>>

Pairs == [ver : Nat, at : 0..MaxSecond]
NoPair == [ver |-> 0, at |-> 0]
NoRequest == [at |-> "idle", right |-> FALSE, pair |-> NoPair, root |-> 0, ver |-> 0,
            row |-> [pwd |-> 0, mail |-> 0]]

AccountTypeOK ==
    /\ account \in [pwd : Nat, mail : Nat]
    /\ version \in Nat /\ second \in 0..MaxSecond
    /\ issued \subseteq [pair : Pairs, root : Nat]
    /\ black \subseteq [kind : {"access", "refresh"}, pair : Pairs]
    /\ \A p \in Requests :
         /\ request[p].at \in {"idle", "compare", "count", "issue", "claim", "save", "bump"}
         /\ request[p].pair \in Pairs /\ request[p].row \in [pwd : Nat, mail : Nat]
    /\ mailCode \in Nat /\ failures \in Nat /\ lasting \in BOOLEAN /\ locked \in BOOLEAN
    /\ mistyped \in Nat /\ slipped \in Nat
    /\ program \in [ops : SUBSET AccountOps, calls : Nat, faults : Nat]

AccountInit ==
    /\ account = [pwd |-> 1, mail |-> 1]
    /\ version = 0 /\ second = 0
    /\ issued = {} /\ black = {}
    /\ request = [p \in Requests |-> NoRequest]
    /\ mailCode = 0 /\ failures = 0 /\ lasting = FALSE /\ locked = FALSE
    /\ mistyped = 0 /\ slipped = 0
    /\ program \in AccountScenarios

\* A request comes in; its first answers from Redis fail (n = 1) or not (n = 0).
AccountCall(p, op, n) ==
    /\ request[p] = NoRequest
    /\ op \in program.ops /\ program.calls > 0 /\ program.faults >= n
    /\ program' = [program EXCEPT !.calls = @ - 1, !.faults = @ - n]

RedisFault ==
    /\ program.faults > 0
    /\ program' = [program EXCEPT !.faults = @ - 1]

Becomes(p, r) == request' = [request EXCEPT ![p] = r]
RequestAt(p, stage) == request[p].at = stage

sessionVars == <<version, issued, black>>
counterVars == <<failures, lasting, locked, mistyped, slipped>>

\* generate: the pair of this second; who logged in before with the same result has it too.
HandOut(ver, root) ==
    issued' = issued \cup {[pair |-> [ver |-> ver, at |-> second], root |-> root]}

-----------------------------------------------------------------------------
(* Login                                                                   *)

\* CheckLoginLocked, then the row; comparing the password takes a quarter of a second.  An
\* account counts as free while Redis does not say that it is locked.
Login(p) ==
    LET unseen == IF locked THEN 1 ELSE 0
    IN  /\ \E right \in BOOLEAN :
             /\ AccountCall(p, IF right THEN "login" ELSE "mistype", unseen)
             /\ Becomes(p, [NoRequest EXCEPT !.at = "compare", !.right = right])
        /\ slipped' = slipped + unseen
        /\ UNCHANGED <<account, second, sessionVars, mailCode, failures, lasting, locked,
                       mistyped>>

WrongPassword(p) ==
    /\ RequestAt(p, "compare") /\ ~request[p].right
    /\ mistyped' = mistyped + 1
    /\ Becomes(p, [request[p] EXCEPT !.at = "count"])
    /\ UNCHANGED <<account, second, sessionVars, mailCode, failures, lasting, locked, slipped,
                   program>>

\* RecordLoginFail: INCR, a lifetime with the first, the lock once the count is reached.
ReachedLate(n) == n > MaxFail
Reached(n) == n >= MaxFail

RecordLoginFail(p) ==
    /\ RequestAt(p, "count")
    /\ failures' = failures + 1
    /\ locked' = (locked \/ Reached(failures'))
    /\ \/ lasting' = (lasting /\ failures # 0) /\ UNCHANGED program
       \/ failures = 0 /\ lasting' = TRUE /\ RedisFault
    /\ Becomes(p, NoRequest)
    /\ UNCHANGED <<account, second, sessionVars, mailCode, mistyped, slipped>>

\* Its other errors are ignored too: of INCR, of the lock's SET; a crash ends as the first.
FailUnrecorded(p) ==
    /\ RequestAt(p, "count")
    /\ RedisFault
    /\ \/ UNCHANGED <<failures, lasting>>
       \/ failures' = failures + 1 /\ lasting' = (lasting /\ failures # 0)
    /\ slipped' = slipped + 1
    /\ Becomes(p, NoRequest)
    /\ UNCHANGED <<account, second, sessionVars, mailCode, locked, mistyped>>

\* RecordLoginSuccess deletes counter and lock, if Redis does as it is told.
RecordLoginSuccess(p) ==
    /\ RequestAt(p, "compare") /\ request[p].right
    /\ \/ failures' = 0 /\ locked' = FALSE /\ UNCHANGED program
       \/ failures' \in {0, failures} /\ locked' \in {FALSE, locked} /\ RedisFault
    /\ lasting' = (lasting /\ failures' # 0)
    /\ mistyped' = 0 /\ slipped' = 0
    /\ Becomes(p, [request[p] EXCEPT !.at = "issue"])
    /\ UNCHANGED <<account, second, sessionVars, mailCode>>

\* getCurrentTokenVersion takes a failing Redis for a version 0.
VersionRead(ver) == (ver = version /\ UNCHANGED program) \/ (ver = 0 /\ RedisFault)

\* The version is read after all that.
IssueLogin(p) ==
    /\ RequestAt(p, "issue")
    /\ \E ver \in {0, version} : VersionRead(ver) /\ HandOut(ver, ver)
    /\ Becomes(p, NoRequest)
    /\ UNCHANGED <<account, second, version, black, mailCode, counterVars>>

\* The counter has its lifetime from its first failure on, so it ends before the lock.
CounterExpires ==
    /\ failures > 0 /\ ~lasting
    /\ failures' = 0 /\ mistyped' = 0 /\ slipped' = 0
    /\ UNCHANGED <<account, second, sessionVars, request, mailCode, lasting, locked, program>>

\* Over a counter without a lifetime locks end one after the other; history starts anew.
LockExpires ==
    /\ locked /\ (failures < MaxFail \/ lasting)
    /\ locked' = FALSE
    /\ \/ failures < MaxFail /\ UNCHANGED <<mistyped, slipped>>
       \/ failures >= MaxFail /\ mistyped' = 0 /\ slipped' = 0
    /\ UNCHANGED <<account, second, sessionVars, request, mailCode, failures, lasting,
                   program>>

-----------------------------------------------------------------------------
(* Tokens                                                                  *)

\* Refresh compares the token's version with the present one, which it keeps ...
OfAnyVersion(pair, ver) == pair.ver <= ver
OfVersion(pair, ver) == pair.ver = ver

Refresh(p) ==
    /\ RequestAt(p, "idle") /\ "refresh" \in program.ops /\ program.calls > 0
    /\ \E i \in issued, ver \in {0, version} :
         /\ program' = [program EXCEPT !.calls = @ - 1,
                                       !.faults = IF ver = version THEN @ ELSE @ - 1]
         /\ program'.faults >= 0
         /\ OfVersion(i.pair, ver)
         /\ Becomes(p, [NoRequest EXCEPT !.at = "claim", !.pair = i.pair, !.root = i.root,
                                       !.ver = ver])
    /\ UNCHANGED <<account, second, sessionVars, mailCode, counterVars>>

\* ... and takes the token with SETNX; the new pair carries the version read before.
Claimable(pair) == [kind |-> "refresh", pair |-> pair] \notin black

RefreshClaim(p) ==
    /\ RequestAt(p, "claim")
    /\ Becomes(p, NoRequest)
    /\ LET old == request[p].pair
       IN  IF Claimable(old)
             THEN /\ black' = black \cup {[kind |-> "refresh", pair |-> old]}
                  /\ HandOut(request[p].ver, request[p].root)
             ELSE UNCHANGED <<issued, black>>
    /\ UNCHANGED <<account, second, version, mailCode, counterVars, program>>

\* JWTAuth: neither revoked nor, if it has a version at all, of an older one.
Accepted(pair) ==
    /\ [kind |-> "access", pair |-> pair] \notin black
    /\ pair.ver = 0 \/ version <= pair.ver

\* Without Redis a pair of version 0 passes, any other is refused; if only the version cannot
\* be read, an older one passes.
LetThrough(pair) == pair.ver = 0 \/ [kind |-> "access", pair |-> pair] \notin black

AuthorizedCall(p, op, pair, n) ==
    /\ AccountCall(p, op, n)
    /\ IF n = 0 THEN Accepted(pair) ELSE LetThrough(pair)

\* The access token always, the refresh token if the page sends it; errors are logged only.
Logout(p) ==
    /\ \E i \in issued, n \in {0, 1}, kinds \in SUBSET {"access", "refresh"} :
         /\ AuthorizedCall(p, "logout", i.pair, n)
         /\ n = 0 => "access" \in kinds
         /\ black' = black \cup [kind : kinds, pair : {i.pair}]
    /\ UNCHANGED <<account, second, version, issued, request, mailCode, counterVars>>

\* bumpTokenVersion; a failure is reported to the customer.
LogoutAll(p) ==
    /\ \E i \in issued, n \in {0, 1} : AuthorizedCall(p, "logoutAll", i.pair, n)
    /\ version' = version + 1
    /\ UNCHANGED <<account, second, issued, black, request, mailCode, counterVars>>

-----------------------------------------------------------------------------
(* Password and address                                                    *)

ChangePassword(p) ==
    /\ \E i \in issued, n \in {0, 1} : AuthorizedCall(p, "password", i.pair, n)
    /\ Becomes(p, [NoRequest EXCEPT !.at = "save", !.row = [account EXCEPT !.pwd = @ + 1]])
    /\ UNCHANGED <<account, second, sessionVars, mailCode, counterVars>>

SendEmailCode ==
    /\ "email" \in program.ops /\ mailCode = 0
    /\ mailCode' = account.mail + 1
    /\ UNCHANGED <<account, second, sessionVars, request, counterVars, program>>

\* ChangeEmail: the row is read before the code is taken, by a script that also deletes it.
ChangeEmail(p) ==
    /\ \E i \in issued, n \in {0, 1} : AuthorizedCall(p, "email", i.pair, n)
    /\ mailCode # 0
    /\ Becomes(p, [NoRequest EXCEPT !.at = "save", !.row = [account EXCEPT !.mail = mailCode]])
    /\ mailCode' = 0
    /\ UNCHANGED <<account, second, sessionVars, counterVars>>

\* userRepo.Update: the whole row as it was read, with the change.
SaveRow(p) ==
    /\ RequestAt(p, "save")
    /\ account' = request[p].row
    /\ Becomes(p, [request[p] EXCEPT !.at = "bump"])
    /\ UNCHANGED <<second, sessionVars, mailCode, counterVars, program>>

\* A failure of bumpTokenVersion is dropped here.
BumpVersion(p) ==
    /\ RequestAt(p, "bump")
    /\ Becomes(p, NoRequest)
    /\ \/ version' = version + 1 /\ UNCHANGED program
       \/ RedisFault /\ UNCHANGED version
    /\ UNCHANGED <<account, second, issued, black, mailCode, counterVars>>

\* The connection of Redis or the database breaks: the handler answers with an error.
RequestFails(p) ==
    /\ request[p] # NoRequest /\ ~RequestAt(p, "count")
    /\ RedisFault
    /\ Becomes(p, NoRequest)
    /\ UNCHANGED <<account, second, sessionVars, mailCode, counterVars>>

SecondPasses ==
    /\ second < MaxSecond
    /\ second' = second + 1
    /\ UNCHANGED <<account, sessionVars, request, mailCode, counterVars, program>>

AccountNext ==
    \/ \E p \in Requests :
         \/ Login(p) \/ WrongPassword(p) \/ RecordLoginFail(p) \/ FailUnrecorded(p)
         \/ RecordLoginSuccess(p) \/ IssueLogin(p) \/ Refresh(p) \/ RefreshClaim(p)
         \/ Logout(p) \/ LogoutAll(p)
         \/ ChangePassword(p) \/ ChangeEmail(p) \/ SaveRow(p) \/ BumpVersion(p)
         \/ RequestFails(p)
    \/ SendEmailCode \/ CounterExpires \/ LockExpires \/ SecondPasses

AccountSpec == AccountInit /\ [][AccountNext]_accountVars

-----------------------------------------------------------------------------
(* Correctness                                                             *)

\* No chain of refreshes crosses a change of the version: a pair with a version that JWTAuth
\* accepts when Redis answers it (when the version cannot be read it accepts older ones)
\* descends from a login after the last change, whatever was under way at that moment.
NoRefreshCrossesBump ==
    \A i \in issued : i.pair.ver > 0 /\ Accepted(i.pair) => i.root = version

\* However many logins are compared at once, an account is locked before more passwords are
\* compared than the limit, those already under way and one for each failure of Redis that
\* hid the lock from a login or kept a wrong password from the counter or the lock.
MistypesAreBounded == mistyped < MaxFail + Cardinality(Requests) + slipped
=============================================================================
