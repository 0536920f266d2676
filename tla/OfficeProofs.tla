---------------------------- MODULE OfficeProofs ----------------------------
(***************************************************************************)
(* Proofs about what a customer's desk promises: sessions (Accounts),      *)
(* rewards (Referral), tickets (Tickets), links and devices (Membership),  *)
(* each for any requests, calls and faults; and that in the one instance   *)
(* that TLC checks (MCBackOffice) every part behaves as its own            *)
(* specification says.                                                     *)
(***************************************************************************)
EXTENDS MCBackOffice, TrafficProofs, UpkeepProofs

-----------------------------------------------------------------------------
(* Tickets                                                                 *)

Answers == [at : {"idle", "add", "status", "close"}, from : Sides, seen : TicketStatus]

\* Who is replying has seen the ticket open, whatever has happened to it since.
TicketInv ==
    /\ ticket \in [status : TicketStatus, lastReplyBy : Sides]
    /\ answering \in [Agents -> Answers]
    /\ \A a \in Agents : answering[a].at \in {"add", "status"} => answering[a].seen # "closed"
    /\ AnsweredByAdmin

LEMMA TicketStep ==
    ASSUME TicketInv, [TicketNext]_ticketVars PROVE TicketInv'
<1>1. Resting \in Answers /\ [Resting EXCEPT !.at = "close"] \in Answers
      /\ Resting.at = "idle" /\ [Resting EXCEPT !.at = "close"].at = "close"
  BY DEF Resting, Answers, Sides, TicketStatus
<1>2. ASSUME NEW a \in Agents, NEW side \in Sides, ReplyReads(a, side) PROVE TicketInv'
  <2>1. [at |-> "add", from |-> side, seen |-> ticket.status] \in Answers
    BY DEF TicketInv, Answers
  <2> QED BY <1>2, <2>1 DEF ReplyReads, TicketInv, AnsweredByAdmin
<1>3. ASSUME NEW a \in Agents, AddReply(a) PROVE TicketInv'
  <2>1. [answering[a] EXCEPT !.at = "status"] \in Answers
    BY DEF TicketInv, Answers
  <2>2. answering' = [answering EXCEPT ![a] = [answering[a] EXCEPT !.at = "status"]]
        /\ answering[a].at = "add" /\ UNCHANGED ticket
    BY <1>3 DEF AddReply
  <2>3. [answering[a] EXCEPT !.at = "status"].seen = answering[a].seen
    BY DEF TicketInv, Answers
  <2> QED BY <2>1, <2>2, <2>3 DEF TicketInv, AnsweredByAdmin
<1>4. ASSUME NEW a \in Agents, UpdateTicketStatus(a) PROVE TicketInv'
  <2>1. answering[a].from \in Sides /\ answering[a].seen \in {"open", "replied"}
    BY <1>4 DEF UpdateTicketStatus, TicketInv, Answers, TicketStatus
  <2>2. /\ StatusAfter(a) \in TicketStatus
        /\ StatusAfter(a) = "replied" <=> answering[a].from = "admin"
    BY <2>1 DEF StatusAfter, Sides, TicketStatus
  <2> QED BY <1>1, <1>4, <2>1, <2>2 DEF UpdateTicketStatus, TicketInv, AnsweredByAdmin
<1>5. ASSUME NEW a \in Agents, ReplyFails(a) \/ CloseReads(a) PROVE TicketInv'
  BY <1>1, <1>5 DEF ReplyFails, CloseReads, TicketInv, AnsweredByAdmin
<1>6. ASSUME NEW a \in Agents, CloseTicket(a) PROVE TicketInv'
  <2>1. ticket' \in [status : TicketStatus, lastReplyBy : Sides] /\ ticket'.status = "closed"
    BY <1>6 DEF CloseTicket, TicketInv, TicketStatus
  <2> QED BY <1>1, <1>6, <2>1 DEF CloseTicket, TicketInv, AnsweredByAdmin
<1>7. CASE UNCHANGED ticketVars
  BY <1>7 DEF ticketVars, TicketInv, AnsweredByAdmin
<1> QED BY <1>2, <1>3, <1>4, <1>5, <1>6, <1>7 DEF TicketNext

LEMMA TicketInvHolds == TicketSpec => []TicketInv
<1>1. TicketInit => TicketInv
  BY DEF TicketInit, TicketInv, AnsweredByAdmin, Resting, Answers, Sides, TicketStatus
<1> QED BY <1>1, TicketStep, PTL DEF TicketSpec

\* A ticket that is not closed is marked as answered exactly if the administrator's side
\* wrote the mark last, for any number of overlapping, failing and overtaken replies.
THEOREM AnswersAreMarked == TicketSpec => []AnsweredByAdmin
<1>1. TicketInv => AnsweredByAdmin
  BY DEF TicketInv
<1> QED BY <1>1, TicketInvHolds, PTL

ThreadTyped == thread \in Seq(Sides) /\ ticketFaults \in 0..TicketFaults

\* The ticket, its replies and what the requests under way have read keep their types.
THEOREM TicketsAreTyped == TicketSpec => []TicketTypeOK
<1>1. TicketInit => ThreadTyped
  <2>1. <<>> \in Seq(Sides) /\ <<"user">> \in Seq(Sides)
    BY DEF Sides
  <2>2. 0 \in 0..TicketFaults
    BY TicketAssumption
  <2> QED BY <2>1, <2>2 DEF TicketInit, ThreadTyped
<1>2. TicketInv /\ ThreadTyped /\ [TicketNext]_ticketVars => ThreadTyped'
  <2> SUFFICES ASSUME TicketInv, ThreadTyped, [TicketNext]_ticketVars PROVE ThreadTyped'
    OBVIOUS
  <2>1. ASSUME NEW a \in Agents, AddReply(a) PROVE ThreadTyped'
    <3>1. answering[a].from \in Sides
      BY DEF TicketInv, Answers
    <3>2. thread' = Append(thread, answering[a].from) /\ ticketFaults' = ticketFaults
      BY <2>1 DEF AddReply
    <3> QED BY <3>1, <3>2 DEF ThreadTyped
  <2>2. ASSUME NEW a \in Agents, ReplyFails(a) PROVE ThreadTyped'
    BY <2>2, TicketAssumption DEF ReplyFails, ThreadTyped
  <2>3. ASSUME NEW a \in Agents,
               \/ \E side \in Sides : ReplyReads(a, side)
               \/ UpdateTicketStatus(a) \/ CloseReads(a) \/ CloseTicket(a)
        PROVE  ThreadTyped'
    BY <2>3 DEF ReplyReads, UpdateTicketStatus, CloseReads, CloseTicket, ThreadTyped
  <2>4. CASE UNCHANGED ticketVars
    BY <2>4 DEF ticketVars, ThreadTyped
  <2> QED BY <2>1, <2>2, <2>3, <2>4 DEF TicketNext
<1>3. TicketInv /\ ThreadTyped => TicketTypeOK
  BY DEF TicketInv, ThreadTyped, TicketTypeOK, Answers
<1> QED BY <1>1, <1>2, <1>3, TicketInvHolds, PTL DEF TicketSpec

-----------------------------------------------------------------------------
(* Referral                                                                *)

\* A payment that has granted the plan has the users row, so there is one at most; one that
\* brings the reward has seen the referral open and no other order paid, and that stays so.
ReferralInv ==
    /\ bill \in [Bills -> {"pending", "paid", "refunded"}]
    /\ paying \in [Bills -> PayingStages]
    /\ \A b \in Bills : paying[b] \in {"rewarding", "rewarded", "plain"} => userRow = b
    /\ \A b \in Bills : paying[b] = "rewarded" => referral = "pending" /\ FirstPaid(b)
    /\ rewards = <<>> \/ \E b \in Bills : rewards = <<b>>
    /\ referral = "completed" <=> rewards # <<>>

LEMMA FirstKept ==
    ASSUME NEW b \in Bills, FirstPaid(b),
           \A o \in Bills \ {b} : bill'[o] = "paid" => bill[o] = "paid"
    PROVE  FirstPaid(b)'
BY DEF FirstPaid, PaidBut

LEMMA ReferralStep ==
    ASSUME ReferralInv, [ReferralNext]_referralVars PROVE ReferralInv'
<1>1. ASSUME NEW b \in Bills, PayOrderBegins(b) PROVE ReferralInv'
  BY <1>1 DEF PayOrderBegins, ReferralInv, PayingStages, FirstPaid, PaidBut
<1>2. ASSUME NEW b \in Bills, PayGrants(b) PROVE ReferralInv'
  BY <1>2, ReferralAssumption DEF PayGrants, ReferralInv, PayingStages, FirstPaid, PaidBut
<1>3. ASSUME NEW b \in Bills, HandleOrderPaid(b) PROVE ReferralInv'
  BY <1>3 DEF HandleOrderPaid, ReferralInv, PayingStages, OpenReferral, FirstPaid, PaidBut
<1>4. ASSUME NEW b \in Bills, PayCommits(b) PROVE ReferralInv'
  <2>1. userRow = b /\ \A o \in Bills \ {b} : paying[o] \in {"no", "granting"}
    BY <1>4 DEF PayCommits, ReferralInv, PayingStages
  <2>2. bill' \in [Bills -> {"pending", "paid", "refunded"}]
        /\ paying' \in [Bills -> PayingStages]
        /\ \A o \in Bills : paying'[o] \in {"no", "granting"}
    BY <1>4, <2>1 DEF PayCommits, ReferralInv, PayingStages
  <2>3. CASE paying[b] = "rewarded"
    <3>1. rewards = <<>>
      BY <2>3 DEF ReferralInv
    <3>2. rewards' = <<b>> /\ referral' = "completed"
      BY <1>4, <2>3, <3>1 DEF PayCommits
    <3> QED BY <2>2, <3>2 DEF ReferralInv
  <2>4. CASE paying[b] # "rewarded"
    BY <1>4, <2>2, <2>4 DEF PayCommits, ReferralInv
  <2> QED BY <2>3, <2>4
<1>5. ASSUME NEW b \in Bills, PayRollsBack(b) PROVE ReferralInv'
  BY <1>5 DEF PayRollsBack, ReferralInv, PayingStages, FirstPaid, PaidBut
<1>6. ASSUME NEW b \in Bills, PaidWithoutReward(b) PROVE ReferralInv'
  BY <1>6, ReferralAssumption DEF PaidWithoutReward, ReferralInv, PayingStages
<1>7. ASSUME NEW b \in Bills, RefundOrder(b) PROVE ReferralInv'
  BY <1>7 DEF RefundOrder, ReferralInv, PayingStages, FirstPaid, PaidBut
<1>8. ASSUME NEW c \in Clients,
             GetInviteCode(c) \/ UpdateInviteCode(c) \/ BindChecks(c)
      PROVE  ReferralInv'
  BY <1>8 DEF GetInviteCode, UpdateInviteCode, BindChecks, ReferralInv, FirstPaid, PaidBut
<1>9. ASSUME NEW c \in Clients, BindInviter(c) PROVE ReferralInv'
  BY <1>9 DEF BindInviter, ReferralInv, FirstPaid, PaidBut
<1>10. CASE SetReferralConfig \/ UNCHANGED referralVars
  BY <1>10 DEF SetReferralConfig, referralVars, ReferralInv, FirstPaid, PaidBut
<1> QED BY <1>1, <1>2, <1>3, <1>4, <1>5, <1>6, <1>7, <1>8, <1>9, <1>10 DEF ReferralNext

LEMMA ReferralInvHolds == ReferralSpec => []ReferralInv
<1>1. ReferralInit => ReferralInv
  BY DEF ReferralInit, ReferralInv, PayingStages
<1> QED BY <1>1, ReferralStep, PTL DEF ReferralSpec

\* An invitation is rewarded once, and completed exactly if it was, for any orders, bindings,
\* refunds and failures.
THEOREM OneReward == ReferralSpec => []RewardedOnce
<1>1. ReferralInv => RewardedOnce
  <2> SUFFICES ASSUME ReferralInv PROVE Len(rewards) <= 1
    BY DEF ReferralInv, RewardedOnce
  <2>1. CASE rewards = <<>>
    BY <2>1
  <2>2. ASSUME NEW b \in Bills, rewards = <<b>> PROVE Len(rewards) <= 1
    BY <2>2
  <2> QED BY <2>1, <2>2 DEF ReferralInv
<1> QED BY <1>1, ReferralInvHolds, PTL

\* The order that brings the reward is the only paid one when its payment commits, for any
\* payments under way while the customer binds a code.
THEOREM RewardIsForFirst == ReferralSpec => OnlyFirstOrderRewarded
<1> DEFINE Honest == rewards' # rewards =>
                       \A b \in Bills : bill'[b] = "paid" <=> b = Last(rewards')
<1>1. ReferralInv /\ [ReferralNext]_referralVars => [Honest]_referralVars
  <2> SUFFICES ASSUME ReferralInv, ReferralNext, rewards' # rewards
               PROVE  \A b \in Bills : bill'[b] = "paid" <=> b = Last(rewards')
    OBVIOUS
  <2>1. PICK b \in Bills : PayCommits(b) /\ paying[b] = "rewarded"
    BY DEF ReferralNext, PayOrderBegins, PayGrants, HandleOrderPaid, PayCommits,
           PayRollsBack, PaidWithoutReward, RefundOrder, GetInviteCode, UpdateInviteCode,
           BindChecks, BindInviter, SetReferralConfig
  <2>2. FirstPaid(b) /\ rewards = <<>>
    BY <2>1 DEF ReferralInv
  <2>3. rewards' = <<b>> /\ bill' = [bill EXCEPT ![b] = "paid"]
    BY <2>1, <2>2 DEF PayCommits
  <2>4. Last(rewards') = b
    BY <2>3 DEF Last
  <2> QED BY <2>2, <2>3, <2>4 DEF FirstPaid, PaidBut, ReferralInv
<1> QED BY <1>1, ReferralInvHolds, PTL DEF ReferralSpec, OnlyFirstOrderRewarded

ReferralRest ==
    /\ userRow \in Bills \cup {NoBill}
    /\ referral \in {"none", "pending", "completed"}
    /\ client \in [Clients -> ClientStages]
    /\ inviteCode \in Nat /\ shown \subseteq Nat
    /\ enabled \in BOOLEAN
    /\ billSheet \in [ops : SUBSET ReferralOps, calls : Nat, faults : Nat]

LEMMA ReferralRestStep ==
    ASSUME ReferralRest, [ReferralNext]_referralVars PROVE ReferralRest'
<1>c. ASSUME NEW op, Asked(op)
      PROVE  billSheet' \in [ops : SUBSET ReferralOps, calls : Nat, faults : Nat]
  <2>1. billSheet.calls > 0 /\ billSheet' = [billSheet EXCEPT !.calls = @ - 1]
    BY <1>c DEF Asked
  <2>2. billSheet \in [ops : SUBSET ReferralOps, calls : Nat, faults : Nat]
    BY DEF ReferralRest
  <2> QED BY ONLY <2>1, <2>2
<1>1. ASSUME NEW b \in Bills, PayOrderBegins(b) \/ HandleOrderPaid(b) PROVE ReferralRest'
  BY <1>1 DEF PayOrderBegins, HandleOrderPaid, ReferralRest, codeVars
<1>2. ASSUME NEW b \in Bills, PayGrants(b) \/ PayCommits(b) PROVE ReferralRest'
  BY <1>2 DEF PayGrants, PayCommits, ReferralRest, codeVars
<1>3. ASSUME NEW b \in Bills, PayRollsBack(b) PROVE ReferralRest'
  <2>1. billSheet.faults > 0 /\ billSheet' = [billSheet EXCEPT !.faults = @ - 1]
    BY <1>3 DEF PayRollsBack
  <2>2. billSheet \in [ops : SUBSET ReferralOps, calls : Nat, faults : Nat]
    BY DEF ReferralRest
  <2>3. billSheet' \in [ops : SUBSET ReferralOps, calls : Nat, faults : Nat]
    BY ONLY <2>1, <2>2
  <2> QED BY <1>3, <2>3 DEF PayRollsBack, ReferralRest, codeVars
<1>4. ASSUME NEW b \in Bills, PaidWithoutReward(b) \/ RefundOrder(b) PROVE ReferralRest'
  <2>1. billSheet' \in [ops : SUBSET ReferralOps, calls : Nat, faults : Nat]
    BY <1>4, <1>c DEF PaidWithoutReward, RefundOrder
  <2> QED BY <1>4, <2>1 DEF PaidWithoutReward, RefundOrder, ReferralRest, codeVars
<1>5. ASSUME NEW c \in Clients, GetInviteCode(c) \/ BindChecks(c) PROVE ReferralRest'
  <2>1. billSheet' \in [ops : SUBSET ReferralOps, calls : Nat, faults : Nat]
    BY <1>5, <1>c DEF GetInviteCode, BindChecks
  <2>2. client' \in [Clients -> ClientStages]
    BY <1>5 DEF GetInviteCode, BindChecks, ReferralRest, ClientStages
  <2>3. shown' \subseteq Nat
    BY <1>5 DEF GetInviteCode, BindChecks, ReferralRest, codeVars
  <2> QED BY <1>5, <2>1, <2>2, <2>3 DEF GetInviteCode, BindChecks, ReferralRest, codeVars
<1>6. ASSUME NEW c \in Clients, UpdateInviteCode(c) \/ BindInviter(c) PROVE ReferralRest'
  <2>1. client' = [client EXCEPT ![c] = "idle"]
        /\ UNCHANGED <<userRow, enabled, billSheet>>
    BY <1>6 DEF UpdateInviteCode, BindInviter
  <2>2. client' \in [Clients -> ClientStages]
    BY <2>1 DEF ReferralRest, ClientStages
  <2>3. CASE UpdateInviteCode(c)
    <3>1. inviteCode' \in Nat /\ shown' = shown \cup {inviteCode'} /\ referral' = referral
      BY <2>3 DEF UpdateInviteCode, ReferralRest
    <3> QED BY <2>1, <2>2, <3>1 DEF ReferralRest
  <2>4. CASE BindInviter(c)
    <3>1. referral' \in {"none", "pending", "completed"} /\ UNCHANGED <<inviteCode, shown>>
      BY <2>4 DEF BindInviter, ReferralRest, codeVars
    <3> QED BY <2>1, <2>2, <3>1 DEF ReferralRest
  <2> QED BY <1>6, <2>3, <2>4
<1>7. CASE SetReferralConfig
  <2>1. billSheet' \in [ops : SUBSET ReferralOps, calls : Nat, faults : Nat]
    BY <1>7, <1>c DEF SetReferralConfig
  <2>2. enabled' \in BOOLEAN
    BY <1>7, Zenon DEF SetReferralConfig
  <2> QED BY <1>7, <2>1, <2>2 DEF SetReferralConfig, ReferralRest, codeVars
<1>8. CASE UNCHANGED referralVars
  BY <1>8 DEF referralVars, ReferralRest
<1> QED BY <1>1, <1>2, <1>3, <1>4, <1>5, <1>6, <1>7, <1>8 DEF ReferralNext

\* Orders, payments under way, referral, rewards, requests and codes keep their types.
THEOREM ReferralsAreTyped == ReferralSpec => []ReferralTypeOK
<1>1. ReferralInit => ReferralRest
  BY ReferralAssumption DEF ReferralInit, ReferralRest, ClientStages
<1>2. ReferralInv => rewards \in Seq(Bills)
  <2>1. <<>> \in Seq(Bills) /\ \A b \in Bills : <<b>> \in Seq(Bills)
    OBVIOUS
  <2> QED BY <2>1 DEF ReferralInv
<1>3. ReferralInv /\ ReferralRest => ReferralTypeOK
  BY <1>2 DEF ReferralInv, ReferralRest, ReferralTypeOK
<1> QED BY <1>1, <1>3, ReferralInvHolds, ReferralRestStep, PTL DEF ReferralSpec

-----------------------------------------------------------------------------
(* Accounts                                                                *)

Rows == [pwd : Nat, mail : Nat]
RequestKinds ==
    [at : {"idle", "compare", "count", "issue", "claim", "save", "bump"}, right : BOOLEAN,
     pair : Pairs, root : Nat, ver : Nat, row : Rows]

\* A pair carries the version of the login it descends from, and so does the pair that a
\* refresh under way is about to issue; no version is ahead of the present one.
SessionInv ==
    /\ version \in Nat /\ second \in 0..MaxSecond /\ mailCode \in Nat
    /\ account \in Rows
    /\ request \in [Requests -> RequestKinds]
    /\ issued \subseteq [pair : Pairs, root : Nat]
    /\ \A i \in issued : i.root = i.pair.ver /\ i.root <= version
    /\ \A p \in Requests :
         request[p].at = "claim" => request[p].root = request[p].ver /\ request[p].ver <= version

LEMMA HandOutKeeps ==
    ASSUME SessionInv, NEW ver \in Nat, ver <= version, HandOut(ver, ver), version' = version
    PROVE  /\ issued' \subseteq [pair : Pairs, root : Nat]
           /\ \A i \in issued' : i.root = i.pair.ver /\ i.root <= version'
<1>1. [ver |-> ver, at |-> second] \in Pairs
  BY DEF SessionInv, Pairs
<1>2. issued' = issued \cup {[pair |-> [ver |-> ver, at |-> second], root |-> ver]}
  BY DEF HandOut
<1> QED BY <1>1, <1>2 DEF SessionInv

\* A request that ends, starts without a token or moves on leaves the sessions alone.
LEMMA RequestKeeps ==
    ASSUME SessionInv, NEW p \in Requests, NEW r \in RequestKinds, Becomes(p, r),
           version' = version, r.at = "claim" => r.root = r.ver /\ r.ver <= version
    PROVE  /\ request' \in [Requests -> RequestKinds]
           /\ \A q \in Requests : request'[q].at = "claim" =>
                request'[q].root = request'[q].ver /\ request'[q].ver <= version'
BY DEF Becomes, SessionInv

LEMMA RestTyped == NoRequest \in RequestKinds /\ NoRequest.at = "idle"
<1>1. 0 \in 0..MaxSecond
  BY AccountAssumption
<1> QED BY <1>1 DEF NoRequest, NoPair, RequestKinds, Pairs, Rows

LEMMA BeginningsTyped ==
    /\ \A right \in BOOLEAN :
         /\ [NoRequest EXCEPT !.at = "compare", !.right = right] \in RequestKinds
         /\ [NoRequest EXCEPT !.at = "compare", !.right = right].at = "compare"
    /\ \A r \in Rows :
         /\ [NoRequest EXCEPT !.at = "save", !.row = r] \in RequestKinds
         /\ [NoRequest EXCEPT !.at = "save", !.row = r].at = "save"
BY RestTyped DEF RequestKinds

LEMMA StageTyped ==
    ASSUME SessionInv, NEW p \in Requests, NEW stage \in {"count", "issue", "bump"}
    PROVE  /\ [request[p] EXCEPT !.at = stage] \in RequestKinds
           /\ [request[p] EXCEPT !.at = stage].at = stage
BY DEF SessionInv, RequestKinds

LEMMA SessionStep ==
    ASSUME SessionInv, [AccountNext]_accountVars PROVE SessionInv'
<1>1. ASSUME NEW p \in Requests, Login(p) PROVE SessionInv'
  <2>1. PICK right \in BOOLEAN :
          Becomes(p, [NoRequest EXCEPT !.at = "compare", !.right = right])
    BY <1>1 DEF Login
  <2> DEFINE r == [NoRequest EXCEPT !.at = "compare", !.right = right]
  <2>2. r \in RequestKinds /\ r.at = "compare" /\ Becomes(p, r)
    BY <2>1, BeginningsTyped
  <2>3. UNCHANGED <<account, second, sessionVars, mailCode>>
    BY <1>1 DEF Login
  <2> HIDE DEF r
  <2> QED BY <2>2, <2>3, RequestKeeps DEF sessionVars, SessionInv
<1>2. ASSUME NEW p \in Requests, WrongPassword(p) \/ RecordLoginSuccess(p)
      PROVE  SessionInv'
  <2>1. PICK stage \in {"count", "issue"} : Becomes(p, [request[p] EXCEPT !.at = stage])
    BY <1>2 DEF WrongPassword, RecordLoginSuccess
  <2> DEFINE r == [request[p] EXCEPT !.at = stage]
  <2>2. r \in RequestKinds /\ r.at # "claim" /\ Becomes(p, r)
    BY <2>1, StageTyped
  <2>3. UNCHANGED <<account, second, sessionVars, mailCode>>
    BY <1>2 DEF WrongPassword, RecordLoginSuccess
  <2> HIDE DEF r
  <2> QED BY <2>2, <2>3, RequestKeeps DEF sessionVars, SessionInv
<1>3. ASSUME NEW p \in Requests, RecordLoginFail(p) \/ FailUnrecorded(p) \/ RequestFails(p)
      PROVE  SessionInv'
  <2>1. Becomes(p, NoRequest) /\ UNCHANGED <<account, second, sessionVars, mailCode>>
    BY <1>3 DEF RecordLoginFail, FailUnrecorded, RequestFails
  <2> QED BY <2>1, RestTyped, RequestKeeps DEF sessionVars, SessionInv
<1>4. ASSUME NEW p \in Requests, IssueLogin(p) PROVE SessionInv'
  <2>1. PICK ver \in {0, version} : HandOut(ver, ver)
    BY <1>4 DEF IssueLogin
  <2>2. Becomes(p, NoRequest) /\ UNCHANGED <<account, second, version, mailCode>>
    BY <1>4 DEF IssueLogin
  <2>3. ver \in Nat /\ ver <= version
    BY DEF SessionInv
  <2> QED BY <2>1, <2>2, <2>3, HandOutKeeps, RestTyped, RequestKeeps DEF SessionInv
<1>5. ASSUME NEW p \in Requests, Refresh(p) PROVE SessionInv'
  <2>1. PICK i \in issued, ver \in {0, version} : \E r :
          /\ r = [NoRequest EXCEPT !.at = "claim", !.pair = i.pair, !.root = i.root, !.ver = ver]
          /\ i.pair.ver = ver
          /\ Becomes(p, r)
    BY <1>5 DEF Refresh, OfVersion
  <2>0. PICK r :
          /\ r = [NoRequest EXCEPT !.at = "claim", !.pair = i.pair, !.root = i.root, !.ver = ver]
          /\ i.pair.ver = ver
          /\ Becomes(p, r)
    BY <2>1
  <2>2. i.pair \in Pairs /\ i.root \in Nat /\ ver \in Nat /\ ver <= version /\ i.root = ver
    BY <2>1 DEF SessionInv
  <2>3. r \in RequestKinds /\ r.root = i.root /\ r.ver = ver
    BY ONLY <2>0, <2>2, RestTyped DEF RequestKinds
  <2>4. UNCHANGED <<account, second, sessionVars, mailCode>>
    BY <1>5 DEF Refresh
  <2> QED BY <2>0, <2>2, <2>3, <2>4, RequestKeeps DEF sessionVars, SessionInv
<1>6. ASSUME NEW p \in Requests, RefreshClaim(p) PROVE SessionInv'
  <2>1. Becomes(p, NoRequest) /\ UNCHANGED <<account, second, version, mailCode>>
    BY <1>6 DEF RefreshClaim
  <2>2. /\ request[p].ver \in Nat /\ request[p].ver <= version
        /\ request[p].root = request[p].ver
    BY <1>6 DEF RefreshClaim, RequestAt, SessionInv, RequestKinds
  <2>3. HandOut(request[p].ver, request[p].ver) \/ UNCHANGED issued
    BY <1>6, <2>2 DEF RefreshClaim
  <2> QED BY <2>1, <2>2, <2>3, HandOutKeeps, RestTyped, RequestKeeps DEF SessionInv
<1>7. ASSUME NEW p \in Requests, Logout(p) PROVE SessionInv'
  BY <1>7 DEF Logout, SessionInv
<1>8. ASSUME NEW p \in Requests, LogoutAll(p) PROVE SessionInv'
  <2>1. /\ version' = version + 1 /\ version \in Nat
        /\ \A i \in issued : i.root \in Nat
        /\ \A q \in Requests : request[q].ver \in Nat
    BY <1>8 DEF LogoutAll, SessionInv, RequestKinds
  <2> QED BY <1>8, <2>1 DEF LogoutAll, SessionInv
<1>9. ASSUME NEW p \in Requests, ChangePassword(p) \/ ChangeEmail(p) PROVE SessionInv'
  <2>1. PICK row \in {[account EXCEPT !.pwd = @ + 1], [account EXCEPT !.mail = mailCode]} :
          Becomes(p, [NoRequest EXCEPT !.at = "save", !.row = row])
    BY <1>9 DEF ChangePassword, ChangeEmail
  <2> DEFINE r == [NoRequest EXCEPT !.at = "save", !.row = row]
  <2>2. row \in Rows
    BY DEF SessionInv, Rows
  <2>3. r \in RequestKinds /\ r.at = "save" /\ Becomes(p, r)
    BY <2>1, <2>2, BeginningsTyped
  <2>4. UNCHANGED <<account, second, sessionVars>> /\ mailCode' \in {mailCode, 0}
    BY <1>9 DEF ChangePassword, ChangeEmail
  <2> HIDE DEF r
  <2> QED BY <2>3, <2>4, RequestKeeps DEF sessionVars, SessionInv
<1>10. ASSUME NEW p \in Requests, SaveRow(p) PROVE SessionInv'
  <2> DEFINE r == [request[p] EXCEPT !.at = "bump"]
  <2>1. r \in RequestKinds /\ r.at = "bump" /\ Becomes(p, r)
    BY <1>10, StageTyped DEF SaveRow
  <2>2. account' \in Rows /\ UNCHANGED <<second, sessionVars, mailCode>>
    BY <1>10 DEF SaveRow, SessionInv, RequestKinds
  <2> HIDE DEF r
  <2> QED BY <2>1, <2>2, RequestKeeps DEF sessionVars, SessionInv
<1>11. ASSUME NEW p \in Requests, BumpVersion(p) PROVE SessionInv'
  <2>1. /\ request' = [request EXCEPT ![p] = NoRequest]
        /\ version' = version + 1 \/ version' = version
        /\ UNCHANGED <<account, second, issued, mailCode>>
    BY <1>11 DEF BumpVersion, Becomes
  <2>2. request' \in [Requests -> RequestKinds]
        /\ \A q \in Requests : request'[q].at = "claim" => request'[q] = request[q]
    <3>1. \A q \in Requests : request'[q] = IF q = p THEN NoRequest ELSE request[q]
      BY <2>1 DEF SessionInv
    <3> QED BY <2>1, <3>1, RestTyped DEF SessionInv
  <2>3. /\ version' \in Nat /\ version <= version'
        /\ \A i \in issued : i.root \in Nat
        /\ \A q \in Requests : request[q].ver \in Nat
    BY <2>1 DEF SessionInv, RequestKinds
  <2> QED BY <2>1, <2>2, <2>3 DEF SessionInv
<1>12. CASE SendEmailCode
  BY <1>12 DEF SendEmailCode, sessionVars, SessionInv, Rows
<1>13. CASE CounterExpires \/ LockExpires
  BY <1>13 DEF CounterExpires, LockExpires, sessionVars, SessionInv
<1>14. CASE SecondPasses
  BY <1>14, AccountAssumption DEF SecondPasses, sessionVars, SessionInv
<1>15. CASE UNCHANGED accountVars
  BY <1>15 DEF accountVars, sessionVars, SessionInv
<1> QED BY <1>1, <1>2, <1>3, <1>4, <1>5, <1>6, <1>7, <1>8, <1>9, <1>10, <1>11, <1>12, <1>13,
           <1>14, <1>15 DEF AccountNext

LEMMA SessionInit == AccountInit => SessionInv
<1> SUFFICES ASSUME AccountInit PROVE SessionInv
  OBVIOUS
<1>1. 0 \in 0..MaxSecond /\ account \in Rows
  BY AccountAssumption DEF AccountInit, Rows
<1> QED BY <1>1, RestTyped DEF AccountInit, SessionInv

\* No chain of refreshes crosses a change of the token version, for any logins, logouts and
\* refreshes under way: whatever failures of Redis let an outdated pair call, and whatever
\* version they show a refresh, no pair of the present version comes from before it.
THEOREM NoRefreshPassesBump == AccountSpec => []NoRefreshCrossesBump
<1>1. SessionInv => NoRefreshCrossesBump
  <2> SUFFICES ASSUME SessionInv, NEW i \in issued, i.pair.ver > 0, Accepted(i.pair)
               PROVE  i.root = version
    BY DEF NoRefreshCrossesBump
  <2>1. i.pair.ver \in Nat /\ i.root = i.pair.ver /\ i.root <= version /\ version \in Nat
    BY DEF SessionInv, Pairs
  <2> QED BY <2>1 DEF Accepted
<1> QED BY <1>1, SessionInit, SessionStep, PTL DEF AccountSpec

-----------------------------------------------------------------------------
(* Accounts: wrong passwords                                               *)

Counting == {p \in Requests : request[p].at = "count"}
Comparing == {p \in Requests : request[p].at = "compare"}

\* What is mistyped is counted, about to be or lost to a failure of Redis; while the account
\* is free the limit is not reached; and at most as many compare as there are requests.
MistypeInv ==
    /\ request \in [Requests -> RequestKinds]
    /\ failures \in Nat /\ mistyped \in Nat /\ slipped \in Nat
    /\ locked \in BOOLEAN /\ lasting \in BOOLEAN
    /\ mistyped <= failures + Cardinality(Counting) + slipped
    /\ locked \/ mistyped < MaxFail + Cardinality(Counting) + slipped
    /\ mistyped + Cardinality(Comparing) < MaxFail + Cardinality(Requests) + slipped

\* The requests that count and those that compare are different ones.
LEMMA RequestNumbers ==
    ASSUME NEW f \in [Requests -> RequestKinds]
    PROVE  LET counting == {p \in Requests : f[p].at = "count"}
               comparing == {p \in Requests : f[p].at = "compare"} IN
           /\ IsFiniteSet(counting) /\ IsFiniteSet(comparing)
           /\ Cardinality(counting) \in Nat /\ Cardinality(comparing) \in Nat
           /\ Cardinality(Requests) \in Nat
           /\ Cardinality(counting) + Cardinality(comparing) <= Cardinality(Requests)
<1> DEFINE counting == {p \in Requests : f[p].at = "count"}
           comparing == {p \in Requests : f[p].at = "compare"}
<1>1. IsFiniteSet(Requests) /\ counting \subseteq Requests /\ comparing \subseteq Requests
      /\ counting \cap comparing = {}
  BY AccountAssumption
<1> HIDE DEF counting, comparing
<1>2. /\ IsFiniteSet(counting) /\ IsFiniteSet(comparing) /\ IsFiniteSet(counting \cup comparing)
      /\ counting \cup comparing \subseteq Requests
  BY <1>1, FS_Subset
<1>3. Cardinality(counting \cup comparing) = Cardinality(counting) + Cardinality(comparing)
  <2>1. Cardinality(counting \cup comparing)
          = Cardinality(counting) + Cardinality(comparing) - Cardinality(counting \cap comparing)
    BY <1>2, FS_Union
  <2>2. Cardinality(counting \cap comparing) = 0
    BY <1>1, FS_EmptySet
  <2>3. Cardinality(counting) \in Nat /\ Cardinality(comparing) \in Nat
    BY <1>2, FS_CardinalityType
  <2> QED BY <2>1, <2>2, <2>3
<1>4. Cardinality(counting \cup comparing) <= Cardinality(Requests)
  BY <1>1, <1>2, FS_Subset
<1>5. /\ Cardinality(counting) \in Nat /\ Cardinality(comparing) \in Nat
      /\ Cardinality(Requests) \in Nat
  BY <1>1, <1>2, FS_CardinalityType
<1> QED BY <1>2, <1>3, <1>4, <1>5 DEF counting, comparing

LEMMA OneChanges ==
    ASSUME NEW S, IsFiniteSet(S), NEW p
    PROVE  /\ Cardinality(S \cup {p}) = Cardinality(S) + (IF p \in S THEN 0 ELSE 1)
           /\ Cardinality(S \ {p}) = Cardinality(S) - (IF p \in S THEN 1 ELSE 0)
<1>1. Cardinality(S) \in Nat
  BY FS_CardinalityType
<1>2. CASE p \in S
  <2>1. S \cup {p} = S
    BY <1>2
  <2>2. Cardinality(S \cup {p}) = Cardinality(S) /\ Cardinality(S \ {p}) = Cardinality(S) - 1
    BY <1>2, <2>1, FS_RemoveElement
  <2> QED BY ONLY <1>1, <1>2, <2>2
<1>3. CASE p \notin S
  <2>1. S \ {p} = S
    BY <1>3
  <2>2. Cardinality(S \ {p}) = Cardinality(S) /\ Cardinality(S \cup {p}) = Cardinality(S) + 1
    BY <1>3, <2>1, FS_AddElement
  <2> QED BY ONLY <1>1, <1>3, <2>2
<1> QED BY <1>2, <1>3

\* What a request that goes from one stage to another does to the two numbers.
LEMMA StageCounts ==
    ASSUME MistypeInv, NEW p \in Requests, NEW r \in RequestKinds, Becomes(p, r)
    PROVE  /\ request' \in [Requests -> RequestKinds]
           /\ Cardinality(Counting)' = Cardinality(Counting)
                + (IF r.at = "count" THEN 1 ELSE 0) - (IF request[p].at = "count" THEN 1 ELSE 0)
           /\ Cardinality(Comparing)' = Cardinality(Comparing)
                + (IF r.at = "compare" THEN 1 ELSE 0) - (IF request[p].at = "compare" THEN 1 ELSE 0)
<1>1. /\ request' \in [Requests -> RequestKinds] /\ request'[p] = r
      /\ \A q \in Requests \ {p} : request'[q] = request[q]
  BY DEF MistypeInv, Becomes
<1>2. /\ IsFiniteSet(Counting) /\ IsFiniteSet(Comparing)
      /\ Cardinality(Counting) \in Nat /\ Cardinality(Comparing) \in Nat
  BY RequestNumbers DEF MistypeInv, Counting, Comparing
<1>3. Counting' = IF r.at = "count" THEN Counting \cup {p} ELSE Counting \ {p}
  BY <1>1 DEF Counting
<1>4. Comparing' = IF r.at = "compare" THEN Comparing \cup {p} ELSE Comparing \ {p}
  BY <1>1 DEF Comparing
<1>5. Cardinality(Counting)' = Cardinality(Counting)
        + (IF r.at = "count" THEN 1 ELSE 0) - (IF request[p].at = "count" THEN 1 ELSE 0)
  <2>1. p \in Counting <=> request[p].at = "count"
    BY DEF Counting
  <2>2. CASE r.at = "count"
    <3>1. Cardinality(Counting') = Cardinality(Counting) + (IF p \in Counting THEN 0 ELSE 1)
      BY <1>2, <1>3, <2>2, OneChanges
    <3> QED BY <1>2, <2>1, <2>2, <3>1
  <2>3. CASE r.at # "count"
    <3>1. Cardinality(Counting') = Cardinality(Counting) - (IF p \in Counting THEN 1 ELSE 0)
      BY <1>2, <1>3, <2>3, OneChanges
    <3> QED BY <1>2, <2>1, <2>3, <3>1
  <2> QED BY <2>2, <2>3
<1>6. Cardinality(Comparing)' = Cardinality(Comparing)
        + (IF r.at = "compare" THEN 1 ELSE 0) - (IF request[p].at = "compare" THEN 1 ELSE 0)
  <2>1. p \in Comparing <=> request[p].at = "compare"
    BY DEF Comparing
  <2>2. CASE r.at = "compare"
    <3>1. Cardinality(Comparing') = Cardinality(Comparing) + (IF p \in Comparing THEN 0 ELSE 1)
      BY <1>2, <1>4, <2>2, OneChanges
    <3> QED BY <1>2, <2>1, <2>2, <3>1
  <2>3. CASE r.at # "compare"
    <3>1. Cardinality(Comparing') = Cardinality(Comparing) - (IF p \in Comparing THEN 1 ELSE 0)
      BY <1>2, <1>4, <2>3, OneChanges
    <3> QED BY <1>2, <2>1, <2>3, <3>1
  <2> QED BY <2>2, <2>3
<1> QED BY <1>1, <1>5, <1>6

LEMMA MistypeStep ==
    ASSUME SessionInv, SessionInv', MistypeInv, [AccountNext]_accountVars PROVE MistypeInv'
<1>n. /\ Cardinality(Counting) \in Nat /\ Cardinality(Comparing) \in Nat
      /\ Cardinality(Requests) \in Nat /\ MaxFail \in Nat /\ MaxFail > 0
      /\ Cardinality(Counting) + Cardinality(Comparing) <= Cardinality(Requests)
      /\ failures \in Nat /\ mistyped \in Nat /\ slipped \in Nat
  <2>1. /\ request \in [Requests -> RequestKinds]
        /\ failures \in Nat /\ mistyped \in Nat /\ slipped \in Nat
    BY DEF MistypeInv
  <2>2. MaxFail \in Nat /\ MaxFail > 0
    BY AccountAssumption
  <2>3. /\ Cardinality(Counting) \in Nat /\ Cardinality(Comparing) \in Nat
        /\ Cardinality(Requests) \in Nat
        /\ Cardinality(Counting) + Cardinality(Comparing) <= Cardinality(Requests)
    BY <2>1, RequestNumbers DEF Counting, Comparing
  <2> QED BY <2>1, <2>2, <2>3
<1>n2. /\ Cardinality(Counting)' \in Nat /\ Cardinality(Comparing)' \in Nat
       /\ Cardinality(Counting)' + Cardinality(Comparing)' <= Cardinality(Requests)
  <2>1. request' \in [Requests -> RequestKinds]
    BY DEF SessionInv
  <2> QED BY <2>1, RequestNumbers DEF Counting, Comparing
<1>m. /\ mistyped <= failures + Cardinality(Counting) + slipped
      /\ locked \/ mistyped < MaxFail + Cardinality(Counting) + slipped
      /\ mistyped + Cardinality(Comparing) < MaxFail + Cardinality(Requests) + slipped
      /\ locked \in BOOLEAN /\ lasting \in BOOLEAN
      /\ request' \in [Requests -> RequestKinds]
  BY DEF MistypeInv, SessionInv
<1>1. ASSUME NEW p \in Requests, Login(p) PROVE MistypeInv'
  <2>1. PICK right \in BOOLEAN :
          Becomes(p, [NoRequest EXCEPT !.at = "compare", !.right = right])
    BY <1>1 DEF Login
  <2> DEFINE r == [NoRequest EXCEPT !.at = "compare", !.right = right]
  <2>2. r \in RequestKinds /\ r.at = "compare" /\ Becomes(p, r)
    BY <2>1, BeginningsTyped
  <2>3. request[p].at = "idle"
    BY <1>1, RestTyped DEF Login, AccountCall
  <2> HIDE DEF r
  <2>4. /\ Cardinality(Counting)' = Cardinality(Counting)
        /\ Cardinality(Comparing)' = Cardinality(Comparing) + 1
    BY <1>n, <2>2, <2>3, StageCounts
  <2>5. UNCHANGED <<failures, mistyped, locked, lasting>>
    BY <1>1 DEF Login
  <2>6. slipped' = slipped + (IF locked THEN 1 ELSE 0)
    BY <1>1 DEF Login
  <2>7. slipped' \in Nat /\ slipped' >= slipped
    BY <1>n, <2>6
  <2>8. mistyped' + Cardinality(Comparing)' < MaxFail + Cardinality(Requests) + slipped'
    <3>1. CASE locked
      BY <1>m, <1>n, <2>4, <2>5, <2>6, <3>1
    <3>2. CASE ~locked
      BY <1>m, <1>n, <1>n2, <2>4, <2>5, <2>6, <3>2
    <3> QED BY <3>1, <3>2
  <2>9. /\ mistyped' <= failures' + Cardinality(Counting)' + slipped'
        /\ locked' \/ mistyped' < MaxFail + Cardinality(Counting)' + slipped'
    BY <1>m, <1>n, <2>4, <2>5, <2>7
  <2> QED BY <1>m, <1>n, <2>5, <2>7, <2>8, <2>9 DEF MistypeInv
<1>2. ASSUME NEW p \in Requests, WrongPassword(p) PROVE MistypeInv'
  <2> DEFINE r == [request[p] EXCEPT !.at = "count"]
  <2>1. r \in RequestKinds /\ r.at = "count" /\ Becomes(p, r) /\ request[p].at = "compare"
    BY <1>2, StageTyped DEF WrongPassword, RequestAt
  <2>2. mistyped' = mistyped + 1 /\ UNCHANGED <<failures, locked, lasting, slipped>>
    BY <1>2 DEF WrongPassword
  <2> HIDE DEF r
  <2>3. /\ Cardinality(Counting)' = Cardinality(Counting) + 1
        /\ Cardinality(Comparing)' = Cardinality(Comparing) - 1
    BY <1>n, <2>1, StageCounts
  <2>4. /\ mistyped' \in Nat /\ mistyped' <= failures' + Cardinality(Counting)' + slipped'
        /\ locked' \/ mistyped' < MaxFail + Cardinality(Counting)' + slipped'
        /\ mistyped' + Cardinality(Comparing)' < MaxFail + Cardinality(Requests) + slipped'
    BY <1>m, <1>n, <2>2, <2>3
  <2> QED BY <1>m, <1>n, <2>2, <2>4 DEF MistypeInv
<1>3. ASSUME NEW p \in Requests, RecordLoginFail(p) \/ FailUnrecorded(p) PROVE MistypeInv'
  <2>1. /\ NoRequest \in RequestKinds /\ NoRequest.at = "idle" /\ Becomes(p, NoRequest)
        /\ request[p].at = "count"
    BY <1>3, RestTyped DEF RecordLoginFail, FailUnrecorded, RequestAt
  <2>2. /\ Cardinality(Counting)' = Cardinality(Counting) - 1
        /\ Cardinality(Comparing)' = Cardinality(Comparing)
    BY <1>n, <2>1, StageCounts
  <2>3. CASE RecordLoginFail(p)
    <3>1. /\ failures' = failures + 1 /\ UNCHANGED <<mistyped, slipped>>
          /\ locked' = (locked \/ failures' >= MaxFail)
      BY <2>3 DEF RecordLoginFail, Reached
    <3>2. locked' \in BOOLEAN /\ (failures' >= MaxFail => locked')
      BY <3>1, Zenon
    <3>3. lasting' \in BOOLEAN
      <4>1. lasting' = (lasting /\ failures # 0) \/ lasting' = TRUE
        BY <2>3, Zenon DEF RecordLoginFail
      <4> QED BY <4>1, Zenon
    <3>4. /\ failures' \in Nat /\ mistyped' <= failures' + Cardinality(Counting)' + slipped'
          /\ mistyped' + Cardinality(Comparing)' < MaxFail + Cardinality(Requests) + slipped'
      BY <1>m, <1>n, <2>2, <3>1
    <3>5. locked' \/ mistyped' < MaxFail + Cardinality(Counting)' + slipped'
      BY <1>n, <1>n2, <3>1, <3>2, <3>4
    <3> QED BY <1>m, <1>n, <3>1, <3>2, <3>3, <3>4, <3>5 DEF MistypeInv
  <2>4. CASE FailUnrecorded(p)
    <3>1. failures' \in {failures, failures + 1} /\ UNCHANGED <<mistyped, locked>>
      BY <2>4 DEF FailUnrecorded
    <3>2. slipped' = slipped + 1
      BY <2>4 DEF FailUnrecorded
    <3>3. lasting' \in BOOLEAN
      <4>1. lasting' = lasting \/ lasting' = (lasting /\ failures # 0)
        BY <2>4, Zenon DEF FailUnrecorded
      <4> QED BY <1>m, <4>1, Zenon
    <3>4. /\ failures' \in Nat /\ slipped' \in Nat
          /\ mistyped' <= failures' + Cardinality(Counting)' + slipped'
          /\ locked' \/ mistyped' < MaxFail + Cardinality(Counting)' + slipped'
          /\ mistyped' + Cardinality(Comparing)' < MaxFail + Cardinality(Requests) + slipped'
      BY <1>m, <1>n, <2>2, <3>1, <3>2
    <3> QED BY <1>m, <1>n, <3>1, <3>3, <3>4 DEF MistypeInv
  <2> QED BY <1>3, <2>3, <2>4
<1>r. ASSUME failures' \in Nat, mistyped' = 0, slipped' = 0, locked' \in BOOLEAN,
             lasting' \in BOOLEAN
      PROVE  MistypeInv'
  <2>1. /\ mistyped' <= failures' + Cardinality(Counting)' + slipped'
        /\ mistyped' < MaxFail + Cardinality(Counting)' + slipped'
        /\ mistyped' + Cardinality(Comparing)' < MaxFail + Cardinality(Requests) + slipped'
    BY <1>n, <1>n2, <1>r
  <2> QED BY <1>m, <1>r, <2>1 DEF MistypeInv
<1>4. ASSUME NEW p \in Requests, RecordLoginSuccess(p) PROVE MistypeInv'
  <2>1. failures' \in {0, failures} /\ locked' \in {FALSE, locked}
    BY <1>4 DEF RecordLoginSuccess
  <2>2. mistyped' = 0 /\ slipped' = 0 /\ lasting' = (lasting /\ failures' # 0)
    BY <1>4 DEF RecordLoginSuccess
  <2>3. locked' \in BOOLEAN
    BY <1>m, <2>1
  <2>4. lasting' \in BOOLEAN
    BY <2>2, Zenon
  <2> QED BY <1>n, <1>r, <2>1, <2>2, <2>3, <2>4
<1>5. ASSUME NEW p \in Requests, NEW r \in RequestKinds, Becomes(p, r), UNCHANGED counterVars,
             r.at \notin {"count", "compare"}, request[p].at # "count"
      PROVE  MistypeInv'
  <2>1. /\ Cardinality(Counting)' = Cardinality(Counting)
        /\ Cardinality(Comparing)' <= Cardinality(Comparing)
    <3>1. /\ Cardinality(Counting)' = Cardinality(Counting)
          /\ Cardinality(Comparing)' = Cardinality(Comparing)
                - (IF request[p].at = "compare" THEN 1 ELSE 0)
      <4>1. /\ Cardinality(Counting)' = Cardinality(Counting) + 0 - 0
            /\ Cardinality(Comparing)' = Cardinality(Comparing)
                  + 0 - (IF request[p].at = "compare" THEN 1 ELSE 0)
        BY <1>5, StageCounts
      <4> QED BY <1>n, <4>1
    <3> QED BY <1>n, <3>1
  <2>2. UNCHANGED <<failures, mistyped, slipped, locked, lasting>>
    BY <1>5 DEF counterVars
  <2>3. mistyped' + Cardinality(Comparing)' < MaxFail + Cardinality(Requests) + slipped'
    BY <1>m, <1>n, <1>n2, <2>1, <2>2
  <2>4. /\ mistyped' <= failures' + Cardinality(Counting)' + slipped'
        /\ locked' \/ mistyped' < MaxFail + Cardinality(Counting)' + slipped'
    BY <1>m, <2>1, <2>2
  <2> QED BY <1>m, <1>n, <2>2, <2>3, <2>4 DEF MistypeInv
<1>6. ASSUME NEW p \in Requests, RequestFails(p) PROVE MistypeInv'
  <2>1. Becomes(p, NoRequest) /\ request[p].at # "count" /\ UNCHANGED counterVars
    BY <1>6 DEF RequestFails, RequestAt
  <2> QED BY <1>5, <2>1, RestTyped
<1>7. ASSUME NEW p \in Requests, IssueLogin(p) \/ RefreshClaim(p) \/ BumpVersion(p)
      PROVE  MistypeInv'
  <2>1. Becomes(p, NoRequest) /\ request[p].at # "count" /\ UNCHANGED counterVars
    BY <1>7 DEF IssueLogin, RefreshClaim, BumpVersion, RequestAt
  <2> QED BY <1>5, <2>1, RestTyped
<1>8. ASSUME NEW p \in Requests, ChangePassword(p) \/ ChangeEmail(p) PROVE MistypeInv'
  <2>1. PICK row \in {[account EXCEPT !.pwd = @ + 1], [account EXCEPT !.mail = mailCode]} :
          Becomes(p, [NoRequest EXCEPT !.at = "save", !.row = row])
    BY <1>8 DEF ChangePassword, ChangeEmail
  <2> DEFINE r == [NoRequest EXCEPT !.at = "save", !.row = row]
  <2>2. row \in Rows
    BY DEF SessionInv, Rows
  <2>3. r \in RequestKinds /\ r.at = "save" /\ Becomes(p, r)
    BY <2>1, <2>2, BeginningsTyped
  <2>4. UNCHANGED counterVars /\ request[p].at = "idle"
    BY <1>8, RestTyped DEF ChangePassword, ChangeEmail, AuthorizedCall, AccountCall
  <2> HIDE DEF r
  <2> QED BY <1>5, <2>3, <2>4
<1>9. ASSUME NEW p \in Requests, SaveRow(p) PROVE MistypeInv'
  <2> DEFINE r == [request[p] EXCEPT !.at = "bump"]
  <2>1. r \in RequestKinds /\ r.at = "bump" /\ Becomes(p, r)
    BY <1>9, StageTyped DEF SaveRow
  <2>2. UNCHANGED counterVars /\ request[p].at = "save"
    BY <1>9 DEF SaveRow, RequestAt
  <2> HIDE DEF r
  <2> QED BY <1>5, <2>1, <2>2
<1>10. ASSUME NEW p \in Requests, Refresh(p) PROVE MistypeInv'
  <2>1. UNCHANGED counterVars /\ request[p].at = "idle"
    BY <1>10 DEF Refresh, RequestAt
  <2>2. PICK r : Becomes(p, r) /\ \E i \in issued, ver \in {0, version} :
          r = [NoRequest EXCEPT !.at = "claim", !.pair = i.pair, !.root = i.root, !.ver = ver]
    BY <1>10 DEF Refresh
  <2>3. PICK i \in issued, ver \in {0, version} :
          r = [NoRequest EXCEPT !.at = "claim", !.pair = i.pair, !.root = i.root, !.ver = ver]
    BY <2>2
  <2>4. i.pair \in Pairs /\ i.root \in Nat /\ ver \in Nat
    BY DEF SessionInv
  <2>5. r \in RequestKinds /\ r.at = "claim"
    BY ONLY <2>3, <2>4, RestTyped DEF RequestKinds
  <2> QED BY <1>5, <2>1, <2>2, <2>5
<1>11. ASSUME UNCHANGED <<request, counterVars>> PROVE MistypeInv'
  <2>1. Counting' = Counting /\ Comparing' = Comparing
    BY <1>11 DEF Counting, Comparing
  <2> QED BY <1>11, <2>1 DEF MistypeInv, counterVars
<1>12. ASSUME NEW p \in Requests, Logout(p) \/ LogoutAll(p) PROVE MistypeInv'
  BY <1>11, <1>12 DEF Logout, LogoutAll
<1>13. CASE SendEmailCode \/ SecondPasses \/ UNCHANGED accountVars
  BY <1>11, <1>13 DEF SendEmailCode, SecondPasses, counterVars, accountVars
<1>14. CASE CounterExpires
  BY <1>14, <1>m, <1>r DEF CounterExpires
<1>15. CASE LockExpires
  <2>1. locked' = FALSE /\ UNCHANGED <<request, failures, lasting>>
    BY <1>15 DEF LockExpires
  <2>2. CASE mistyped' = 0 /\ slipped' = 0
    BY <1>m, <1>n, <1>r, <2>1, <2>2
  <2>3. CASE failures < MaxFail /\ UNCHANGED <<mistyped, slipped>>
    <3>1. Counting' = Counting /\ Comparing' = Comparing
      BY <2>1 DEF Counting, Comparing
    <3>2. mistyped < MaxFail + Cardinality(Counting) + slipped
      BY <1>m, <1>n, <2>3
    <3> QED BY <1>m, <1>n, <2>1, <2>3, <3>1, <3>2 DEF MistypeInv
  <2> QED BY <1>15, <2>2, <2>3 DEF LockExpires
<1> QED BY <1>1, <1>2, <1>3, <1>4, <1>6, <1>7, <1>8, <1>9, <1>10, <1>12, <1>13, <1>14, <1>15
        DEF AccountNext

LEMMA MistypeInit == AccountInit => MistypeInv
<1> SUFFICES ASSUME AccountInit PROVE MistypeInv
  OBVIOUS
<1>1. Counting = {} /\ Comparing = {} /\ request \in [Requests -> RequestKinds]
  BY RestTyped DEF AccountInit, Counting, Comparing
<1>2. Cardinality(Requests) \in Nat /\ Cardinality({}) = 0
  BY AccountAssumption, FS_CardinalityType, FS_EmptySet
<1>3. /\ failures = 0 /\ mistyped = 0 /\ slipped = 0 /\ MaxFail \in Nat /\ MaxFail > 0
  BY AccountAssumption DEF AccountInit
<1>4. locked \in BOOLEAN /\ lasting \in BOOLEAN
  BY Zenon DEF AccountInit
<1>5. Cardinality(Counting) = 0 /\ Cardinality(Comparing) = 0
  BY <1>1, <1>2
<1>6. /\ mistyped <= failures + Cardinality(Counting) + slipped
      /\ mistyped < MaxFail + Cardinality(Counting) + slipped
      /\ mistyped + Cardinality(Comparing) < MaxFail + Cardinality(Requests) + slipped
  BY <1>2, <1>3, <1>5
<1> QED BY <1>1, <1>3, <1>4, <1>6 DEF MistypeInv

LEMMA MistypeHolds == AccountSpec => [](SessionInv /\ MistypeInv)
<1>1. SessionInv /\ MistypeInv /\ [AccountNext]_accountVars => (SessionInv /\ MistypeInv)'
  BY SessionStep, MistypeStep
<1> QED BY <1>1, SessionInit, MistypeInit, PTL DEF AccountSpec

\* An account is locked before more passwords are compared than the limit, those already
\* under way and one for each failure of Redis that hid the lock or kept a password from
\* being counted, for any number of requests at once and counters and locks that lapse.
THEOREM MistypesStayBounded == AccountSpec => []MistypesAreBounded
<1>1. MistypeInv => MistypesAreBounded
  <2> SUFFICES ASSUME MistypeInv PROVE mistyped < MaxFail + Cardinality(Requests) + slipped
    BY DEF MistypesAreBounded
  <2>1. Cardinality(Comparing) \in Nat /\ Cardinality(Requests) \in Nat
    BY RequestNumbers DEF MistypeInv, Comparing
  <2> QED BY <2>1, AccountAssumption DEF MistypeInv
<1> QED BY <1>1, MistypeHolds, PTL

RevokedTyped ==
    /\ black \subseteq [kind : {"access", "refresh"}, pair : Pairs]
    /\ program \in [ops : SUBSET AccountOps, calls : Nat, faults : Nat]

LEMMA RevokedStep ==
    ASSUME SessionInv, RevokedTyped, [AccountNext]_accountVars PROVE RevokedTyped'
<1>p. program \in [ops : SUBSET AccountOps, calls : Nat, faults : Nat]
  BY DEF RevokedTyped
<1>c. ASSUME NEW p, NEW op, NEW n \in {0, 1}, AccountCall(p, op, n)
      PROVE  program' \in [ops : SUBSET AccountOps, calls : Nat, faults : Nat]
  <2>1. /\ program.calls > 0 /\ program.faults >= n
        /\ program' = [program EXCEPT !.calls = @ - 1, !.faults = @ - n]
    BY <1>c DEF AccountCall
  <2>2. program.calls - 1 \in Nat /\ program.faults - n \in Nat
    BY ONLY <1>p, <1>c, <2>1
  <2> QED BY ONLY <1>p, <2>1, <2>2
<1>f. ASSUME RedisFault
      PROVE  program' \in [ops : SUBSET AccountOps, calls : Nat, faults : Nat]
  <2>1. program.faults > 0 /\ program' = [program EXCEPT !.faults = @ - 1]
    BY <1>f DEF RedisFault
  <2> QED BY ONLY <1>p, <2>1
<1>1. ASSUME NEW p \in Requests, Login(p) \/ LogoutAll(p) \/ ChangePassword(p) \/ ChangeEmail(p)
      PROVE  RevokedTyped'
  <2>1. program' \in [ops : SUBSET AccountOps, calls : Nat, faults : Nat]
    <3>1. CASE Login(p)
      <4>1. PICK right \in BOOLEAN :
              AccountCall(p, IF right THEN "login" ELSE "mistype", IF locked THEN 1 ELSE 0)
        BY <3>1 DEF Login
      <4> QED BY <1>c, <4>1
    <3>2. CASE LogoutAll(p)
      BY <1>c, <3>2 DEF LogoutAll, AuthorizedCall
    <3>3. CASE ChangePassword(p)
      BY <1>c, <3>3 DEF ChangePassword, AuthorizedCall
    <3>4. CASE ChangeEmail(p)
      BY <1>c, <3>4 DEF ChangeEmail, AuthorizedCall
    <3> QED BY <1>1, <3>1, <3>2, <3>3, <3>4
  <2>2. black' = black
    BY <1>1 DEF Login, LogoutAll, ChangePassword, ChangeEmail, sessionVars
  <2> QED BY <2>1, <2>2 DEF RevokedTyped
<1>2. ASSUME NEW p \in Requests,
             \/ WrongPassword(p) \/ RecordLoginFail(p) \/ FailUnrecorded(p)
             \/ RecordLoginSuccess(p) \/ IssueLogin(p) \/ SaveRow(p) \/ BumpVersion(p)
             \/ RequestFails(p)
      PROVE  RevokedTyped'
  <2>1. program' = program \/ RedisFault
    BY <1>2 DEF WrongPassword, RecordLoginFail, FailUnrecorded, RecordLoginSuccess, IssueLogin,
        SaveRow, BumpVersion, RequestFails, VersionRead
  <2>2. black' = black
    BY <1>2 DEF WrongPassword, RecordLoginFail, FailUnrecorded, RecordLoginSuccess, IssueLogin,
        SaveRow, BumpVersion, RequestFails, sessionVars
  <2> QED BY <1>f, <2>1, <2>2 DEF RevokedTyped
<1>3. ASSUME NEW p \in Requests, Refresh(p) PROVE RevokedTyped'
  <2>1. PICK ver \in {0, version} :
          /\ program' = [program EXCEPT !.calls = @ - 1,
                                        !.faults = IF ver = version THEN @ ELSE @ - 1]
          /\ program'.faults >= 0
    BY <1>3 DEF Refresh
  <2>2. program.calls > 0 /\ UNCHANGED black
    BY <1>3 DEF Refresh, sessionVars
  <2>3. PICK k \in Nat :
          program' = [program EXCEPT !.calls = @ - 1, !.faults = k]
    <3>1. program' = [program EXCEPT !.calls = @ - 1, !.faults = program'.faults]
      BY ONLY <1>p, <2>1
    <3>2. program'.faults \in Int
      BY ONLY <1>p, <2>1
    <3>3. program'.faults \in Nat
      BY ONLY <2>1, <3>2
    <3> QED BY ONLY <3>1, <3>3
  <2>4. program.calls - 1 \in Nat
    BY <1>p, <2>2
  <2>5. program' \in [ops : SUBSET AccountOps, calls : Nat, faults : Nat]
    BY ONLY <1>p, <2>3, <2>4
  <2> QED BY <2>2, <2>5 DEF RevokedTyped
<1>4. ASSUME NEW p \in Requests, RefreshClaim(p) PROVE RevokedTyped'
  <2>1. request[p].pair \in Pairs /\ program' = program
    BY <1>4 DEF RefreshClaim, SessionInv, RequestKinds
  <2>2. black' \in {black, black \cup {[kind |-> "refresh", pair |-> request[p].pair]}}
    BY <1>4 DEF RefreshClaim
  <2> QED BY <2>1, <2>2 DEF RevokedTyped
<1>5. ASSUME NEW p \in Requests, Logout(p) PROVE RevokedTyped'
  <2>1. PICK i \in issued, n \in {0, 1}, kinds \in SUBSET {"access", "refresh"} :
          /\ AuthorizedCall(p, "logout", i.pair, n)
          /\ black' = black \cup [kind : kinds, pair : {i.pair}]
    BY <1>5 DEF Logout
  <2>2. i.pair \in Pairs
    BY DEF SessionInv
  <2>3. program' \in [ops : SUBSET AccountOps, calls : Nat, faults : Nat]
    BY <2>1, <1>c DEF AuthorizedCall
  <2> QED BY <2>1, <2>2, <2>3 DEF RevokedTyped
<1>6. CASE SendEmailCode \/ CounterExpires \/ LockExpires \/ SecondPasses \/ UNCHANGED accountVars
  BY <1>6 DEF SendEmailCode, CounterExpires, LockExpires, SecondPasses, accountVars, sessionVars,
      RevokedTyped
<1> QED BY <1>1, <1>2, <1>3, <1>4, <1>5, <1>6 DEF AccountNext

\* The account, its token pairs, the revoked tokens, the counter of wrong passwords and what
\* the requests under way have read keep their types.
THEOREM AccountsAreTyped == AccountSpec => []AccountTypeOK
<1>1. AccountInit => RevokedTyped
  BY AccountAssumption DEF AccountInit, RevokedTyped
<1>2. SessionInv /\ MistypeInv /\ RevokedTyped => AccountTypeOK
  BY DEF SessionInv, MistypeInv, RevokedTyped, AccountTypeOK, RequestKinds, Rows
<1> QED BY <1>1, <1>2, MistypeHolds, RevokedStep, PTL DEF AccountSpec

-----------------------------------------------------------------------------
(* Links                                                                   *)

\* What a request of each stage has read.
ClerkKinds ==
    {Free} \cup [at : {"insert"}, name : Names, by : {"register", "admin"}]
    \cup [at : {"save"}, who : Members, row : MemberRows]
    \cup [at : {"disable", "ensure", "make", "sign"}, who : Members]
    \cup [at : {"clean", "add", "count"}, who : Members, ip : Addresses]

\* A request is about a row that exists, and saves it with the origin it has.
Fits(r) ==
    /\ r \in ClerkKinds
    /\ r.at \in {"save", "disable", "ensure", "make", "sign"} => member[r.who].state # "none"
    /\ r.at = "save" => r.row.state = "live" /\ r.row.by = member[r.who].by

TablesTyped ==
    /\ member \in [Members -> MemberRows]
    /\ links \in [Members -> SUBSET Nat] /\ handed \in [Members -> SUBSET Nat]
    /\ lastLink \in Nat
    /\ revived \subseteq Members /\ misread \subseteq Members
    /\ \A m \in Members : member[m].state = "none" => handed[m] = {} /\ m \notin revived

ClerksFit == clerk \in [Clerks -> ClerkKinds] /\ \A c \in Clerks : Fits(clerk[c])

Enrolled(m) == member[m].state = "live" /\ member[m].by = "register" /\ m \notin revived

\* A registered customer has one link, and nobody is about to make or disable one; whoever
\* could not find the link is about to make another, but disables none either.
LinkIsSafe(m) ==
    /\ m \notin misread => \E t \in Nat : links[m] = {t}
    /\ handed[m] \subseteq links[m]
    /\ \A c \in Clerks :
         /\ clerk[c].at = "disable" => clerk[c].who # m
         /\ clerk[c].at = "make" => clerk[c].who # m \/ m \in misread

LinkInv ==
    TablesTyped /\ ClerksFit /\ \A m \in Members : Enrolled(m) => LinkIsSafe(m)

LEMMA FreeFits == Free \in ClerkKinds /\ Free.at = "free"
BY DEF Free, ClerkKinds

LEMMA ClerkReads ==
    ASSUME NEW r \in ClerkKinds
    PROVE  /\ r.at = "insert" => r.name \in Names /\ r.by \in {"register", "admin"}
           /\ r.at \in {"save", "disable", "ensure", "make", "sign"} => r.who \in Members
           /\ r.at = "save" => r.row \in MemberRows
BY DEF ClerkKinds, Free

LEMMA ClerkMoves ==
    ASSUME NEW r \in ClerkKinds
    PROVE  /\ r.at \in {"ensure", "make"} => \A at \in {"make", "sign"} :
                /\ [r EXCEPT !.at = at] \in ClerkKinds
                /\ [r EXCEPT !.at = at].at = at /\ [r EXCEPT !.at = at].who = r.who
           /\ r.at \in {"clean", "add"} => \A at \in {"add", "count"} :
                /\ [r EXCEPT !.at = at] \in ClerkKinds /\ [r EXCEPT !.at = at].at = at
BY DEF ClerkKinds, Free

\* A request that reads, moves on or ends, and writes no more than links shown or devices.
LEMMA ReaderKeeps ==
    ASSUME LinkInv, NEW c \in Clerks, NEW r, Proceeds(c, r), Fits(r),
           UNCHANGED <<member, linkVars, revived>>,
           r.at = "disable" => ~Enrolled(r.who),
           r.at = "make" => ~Enrolled(r.who) \/ r.who \in misread
    PROVE  LinkInv'
<1>1. \A q \in Clerks : clerk'[q] = IF q = c THEN r ELSE clerk[q]
  BY DEF Proceeds, LinkInv, ClerksFit
<1>2. ClerksFit'
  <2>1. r \in ClerkKinds
    BY DEF Fits
  <2>2. clerk' \in [Clerks -> ClerkKinds]
    BY <2>1 DEF Proceeds, LinkInv, ClerksFit
  <2>3. \A q \in Clerks : Fits(clerk'[q])
    BY <1>1 DEF LinkInv, ClerksFit
  <2>4. member' = member
    OBVIOUS
  <2> QED BY <2>2, <2>3, <2>4 DEF ClerksFit, Fits
<1>3. TablesTyped'
  BY DEF LinkInv, TablesTyped, linkVars
<1>4. ASSUME NEW m \in Members, Enrolled(m)' PROVE LinkIsSafe(m)'
  <2>1. Enrolled(m) /\ LinkIsSafe(m)
    BY <1>4 DEF Enrolled, LinkInv
  <2>2. misread' = misread /\ links' = links /\ handed' = handed
    BY DEF linkVars
  <2>3. \A q \in Clerks :
          /\ clerk'[q].at = "disable" => clerk'[q].who # m
          /\ clerk'[q].at = "make" => clerk'[q].who # m \/ m \in misread
    BY <1>1, <2>1 DEF LinkIsSafe
  <2> QED BY <2>1, <2>2, <2>3 DEF LinkIsSafe
<1> QED BY <1>2, <1>3, <1>4 DEF LinkInv

\* A request that ends, or is about to show a link, changes the links of somebody who is no
\* registered customer, or adds one where a query had failed.
LEMMA WriterKeeps ==
    ASSUME LinkInv, NEW c \in Clerks, NEW r, Proceeds(c, r), Fits(r),
           r.at \notin {"make", "disable"},
           NEW m \in Members, NEW L \in SUBSET Nat,
           ~Enrolled(m) \/ (m \in misread /\ links[m] \subseteq L),
           links' = [links EXCEPT ![m] = L], lastLink' \in Nat,
           UNCHANGED <<member, handed, misread, revived>>
    PROVE  LinkInv'
<1>1. \A q \in Clerks : clerk'[q] = IF q = c THEN r ELSE clerk[q]
  BY DEF Proceeds, LinkInv, ClerksFit
<1>2. ClerksFit'
  <2>1. clerk' \in [Clerks -> ClerkKinds]
    BY DEF Proceeds, LinkInv, ClerksFit, Fits
  <2>2. \A q \in Clerks : Fits(clerk'[q])
    BY <1>1 DEF LinkInv, ClerksFit
  <2> QED BY <2>1, <2>2 DEF ClerksFit, Fits
<1>3. TablesTyped'
  BY DEF LinkInv, TablesTyped
<1>4. ASSUME NEW n \in Members, Enrolled(n)' PROVE LinkIsSafe(n)'
  <2>1. Enrolled(n) /\ LinkIsSafe(n)
    BY <1>4 DEF Enrolled, LinkInv
  <2>2. CASE n # m
    <3>1. links'[n] = links[n]
      BY <2>2 DEF LinkInv, TablesTyped
    <3> QED BY <1>1, <2>1, <3>1 DEF LinkIsSafe
  <2>3. CASE n = m
    <3>1. links'[n] = L /\ n \in misread /\ links[n] \subseteq L
      BY <2>1, <2>3 DEF LinkInv, TablesTyped
    <3> QED BY <1>1, <2>1, <3>1 DEF LinkIsSafe
  <2> QED BY <2>2, <2>3
<1> QED BY <1>2, <1>3, <1>4 DEF LinkInv

LEMMA LinkStep ==
    ASSUME LinkInv, [MembershipNext]_memberVars PROVE LinkInv'
<1>0. \A c \in Clerks : clerk[c] \in ClerkKinds /\ Fits(clerk[c])
  BY DEF LinkInv, ClerksFit
<1>a. \A c \in Clerks :
        /\ clerk[c].at \in {"save", "disable", "ensure", "make", "sign"} =>
             clerk[c].who \in Members /\ member[clerk[c].who].state # "none"
        /\ clerk[c].at = "save" =>
             /\ clerk[c].row \in MemberRows
             /\ clerk[c].row.state = "live" /\ clerk[c].row.by = member[clerk[c].who].by
  BY <1>0, ClerkReads DEF Fits
<1>1. ASSUME NEW c \in Clerks, LooksForName(c) PROVE LinkInv'
  <2>1. PICK name \in Names, by \in {"register", "admin"} :
          Proceeds(c, [at |-> "insert", name |-> name, by |-> by])
    BY <1>1 DEF LooksForName, Enters, Proceeds
  <2>2. Fits([at |-> "insert", name |-> name, by |-> by])
    BY DEF Fits, ClerkKinds
  <2> QED BY <1>1, <2>1, <2>2, ReaderKeeps DEF LooksForName
<1>2. ASSUME NEW c \in Clerks, InsertsUser(c) PROVE LinkInv'
  <2> DEFINE by == clerk[c].by
  <2>1. clerk[c].name \in Names /\ by \in {"register", "admin"}
    BY <1>0, <1>2, ClerkReads DEF InsertsUser
  <2>2. Proceeds(c, Free) /\ Fits(Free)
    BY <1>2, FreeFits DEF InsertsUser, Fits
  <2>3. CASE UNCHANGED <<member, links, lastLink>>
    BY <1>2, <2>2, <2>3, FreeFits, ReaderKeeps DEF InsertsUser, linkVars
  <2>4. CASE ~UNCHANGED <<member, links, lastLink>>
    <3>1. PICK m \in Members :
            /\ member[m].state = "none"
            /\ member' = [member EXCEPT ![m] =
                 [state |-> "live", name |-> clerk[c].name, by |-> by]]
            /\ links' = [links EXCEPT ![m] = FirstLinks(by)]
            /\ lastLink' = lastLink + Cardinality(links'[m])
      BY <1>2, <2>4 DEF InsertsUser
    <3>2. /\ handed' = handed /\ revived' = revived /\ misread' = misread
          /\ clerk' = [clerk EXCEPT ![c] = Free]
      BY <1>2 DEF InsertsUser, Proceeds
    <3>3. /\ FirstLinks(by) \in {{}, {lastLink + 1}} /\ lastLink + 1 \in Nat
          /\ by = "register" => FirstLinks(by) = {lastLink + 1}
      BY <2>1 DEF FirstLinks, LinkInv, TablesTyped
    <3>4. links'[m] = FirstLinks(by)
      BY <3>1 DEF LinkInv, TablesTyped
    <3>5. Cardinality(links'[m]) \in Nat
      <4>1. CASE links'[m] = {}
        BY <4>1, FS_EmptySet
      <4>2. CASE links'[m] = {lastLink + 1}
        <5>1. Cardinality({lastLink + 1}) = 1
          BY FS_Singleton, Zenon
        <5> QED BY <4>2, <5>1
      <4> QED BY <3>3, <3>4, <4>1, <4>2
    <3>6. [state |-> "live", name |-> clerk[c].name, by |-> by] \in MemberRows
      BY <2>1 DEF MemberRows
    <3>a. FirstLinks(by) \in SUBSET Nat /\ lastLink' \in Nat
      BY <3>1, <3>3, <3>5 DEF LinkInv, TablesTyped
    <3> HIDE DEF by
    <3>7. TablesTyped'
      BY <3>1, <3>2, <3>a, <3>6 DEF LinkInv, TablesTyped
    <3>8. \A q \in Clerks : clerk'[q] = Free \/ clerk'[q] = clerk[q]
      BY <3>2 DEF LinkInv, ClerksFit
    <3>9. \A q \in Clerks : clerk[q].at \in {"save", "disable", "ensure", "make", "sign"} =>
            /\ clerk[q].who # m /\ clerk[q].who \in Members
            /\ member'[clerk[q].who] = member[clerk[q].who]
      BY <1>a, <3>1 DEF LinkInv, TablesTyped
    <3>10. ClerksFit'
      <4>1. clerk' \in [Clerks -> ClerkKinds]
        BY <3>2, FreeFits DEF LinkInv, ClerksFit
      <4>2. ASSUME NEW q \in Clerks PROVE Fits(clerk[q])'
        <5>1. CASE clerk'[q] = Free
          BY <5>1, FreeFits DEF Fits
        <5>2. CASE clerk'[q] = clerk[q]
          BY <5>2, <1>0, <3>9 DEF Fits
        <5> QED BY <5>1, <5>2, <3>8
      <4> QED BY <4>1, <4>2 DEF ClerksFit
    <3>11. ASSUME NEW n \in Members, Enrolled(n)' PROVE LinkIsSafe(n)'
      <4>1. \A q \in Clerks : clerk'[q].at \in {"make", "disable"} => clerk'[q] = clerk[q]
        BY <3>8, FreeFits
      <4>2. CASE n = m
        <5>1. by = "register"
          BY <3>1, <3>11, <4>2 DEF Enrolled, LinkInv, TablesTyped
        <5>2. links'[n] = {lastLink + 1} /\ handed'[n] = {}
          BY <3>1, <3>2, <3>3, <3>4, <4>2, <5>1 DEF LinkInv, TablesTyped
        <5> QED BY <3>3, <3>9, <4>1, <4>2, <5>2 DEF LinkIsSafe
      <4>3. CASE n # m
        <5>1. member'[n] = member[n] /\ links'[n] = links[n] /\ handed' = handed
          BY <3>1, <3>2, <4>3 DEF LinkInv, TablesTyped
        <5>2. LinkIsSafe(n)
          BY <3>2, <3>11, <5>1 DEF Enrolled, LinkInv
        <5> QED BY <3>2, <4>1, <5>1, <5>2 DEF LinkIsSafe
      <4> QED BY <4>2, <4>3
    <3> QED BY <3>7, <3>10, <3>11 DEF LinkInv
  <2> QED BY <2>3, <2>4
<1>3. ASSUME NEW c \in Clerks,
             RequestEnds(c) \/ CountsDevices(c) PROVE LinkInv'
  <2>1. Proceeds(c, Free) /\ Fits(Free) /\ UNCHANGED <<member, linkVars, revived>>
    BY <1>3, FreeFits DEF RequestEnds, CountsDevices, Fits
  <2> QED BY <2>1, FreeFits, ReaderKeeps
<1>4. ASSUME NEW c \in Clerks, EditsMember(c) PROVE LinkInv'
  <2>1. PICK m \in LiveMembers : Proceeds(c, [at |-> "save", who |-> m, row |-> member[m]])
    BY <1>4 DEF EditsMember, Enters, Proceeds
  <2>2. member[m] \in MemberRows /\ member[m].state = "live" /\ m \in Members
    BY DEF LiveMembers, LinkInv, TablesTyped
  <2>3. Fits([at |-> "save", who |-> m, row |-> member[m]])
    BY <2>2 DEF Fits, ClerkKinds
  <2> QED BY <1>4, <2>1, <2>3, ReaderKeeps DEF EditsMember
<1>5. ASSUME NEW c \in Clerks, SavesMember(c) PROVE LinkInv'
  <2> DEFINE m == clerk[c].who
             row == clerk[c].row
  <2>1. /\ m \in Members /\ row \in MemberRows
        /\ row.state = "live" /\ row.by = member[m].by /\ member[m].state # "none"
    BY <1>a, <1>5 DEF SavesMember
  <2>2. Proceeds(c, Free) /\ Fits(Free) /\ UNCHANGED linkVars
    BY <1>5, FreeFits DEF SavesMember, Fits
  <2>3. CASE UNCHANGED <<member, revived>>
    BY <2>2, <2>3, FreeFits, ReaderKeeps
  <2>4. CASE ~UNCHANGED <<member, revived>>
    <3>1. /\ member' = [member EXCEPT ![m] = row]
          /\ revived' = IF m \in LiveMembers THEN revived ELSE revived \cup {m}
      BY <1>5, <2>4 DEF SavesMember
    <3>2. /\ links' = links /\ handed' = handed /\ lastLink' = lastLink /\ misread' = misread
          /\ clerk' = [clerk EXCEPT ![c] = Free]
      BY <2>2 DEF linkVars, Proceeds
    <3>3. TablesTyped'
      BY <2>1, <3>1, <3>2 DEF LinkInv, TablesTyped
    <3>4. \A q \in Clerks : clerk'[q] = Free \/ clerk'[q] = clerk[q]
      BY <3>2 DEF LinkInv, ClerksFit
    <3>5. \A n \in Members : member[n].state # "none" =>
            member'[n].state # "none" /\ member'[n].by = member[n].by
      BY <2>1, <3>1 DEF LinkInv, TablesTyped
    <3>6. ClerksFit'
      <4>1. clerk' \in [Clerks -> ClerkKinds]
        BY <3>2, FreeFits DEF LinkInv, ClerksFit
      <4>2. ASSUME NEW q \in Clerks PROVE Fits(clerk[q])'
        <5>1. CASE clerk'[q] = Free
          BY <5>1, FreeFits DEF Fits
        <5>2. CASE clerk'[q] = clerk[q]
          BY <5>2, <1>0, <1>a, <3>5 DEF Fits
        <5> QED BY <5>1, <5>2, <3>4
      <4> QED BY <4>1, <4>2 DEF ClerksFit
    <3>7. ASSUME NEW n \in Members, Enrolled(n)' PROVE LinkIsSafe(n)'
      <4>1. Enrolled(n)
        <5>1. CASE n = m
          BY <2>1, <3>1, <3>7, <5>1 DEF Enrolled, LiveMembers, LinkInv, TablesTyped
        <5>2. CASE n # m
          BY <3>1, <3>7, <5>2 DEF Enrolled, LinkInv, TablesTyped
        <5> QED BY <5>1, <5>2
      <4>2. \A q \in Clerks : clerk'[q].at \in {"make", "disable"} => clerk'[q] = clerk[q]
        BY <3>4, FreeFits
      <4> QED BY <3>2, <4>1, <4>2 DEF LinkIsSafe, LinkInv
    <3> QED BY <3>3, <3>6, <3>7 DEF LinkInv
  <2> QED BY <2>3, <2>4
<1>6. ASSUME NEW c \in Clerks, DeletesUser(c) PROVE LinkInv'
  <2>1. PICK m \in LiveMembers :
          /\ clerk' = [clerk EXCEPT ![c] = [at |-> "disable", who |-> m]]
          /\ member' = [member EXCEPT ![m].state = "deleted"]
    BY <1>6 DEF DeletesUser, Enters
  <2> DEFINE r == [at |-> "disable", who |-> m]
  <2>2. /\ links' = links /\ handed' = handed /\ lastLink' = lastLink /\ revived' = revived
        /\ misread' = misread
    BY <1>6 DEF DeletesUser, linkVars
  <2>3. /\ m \in Members /\ member[m] \in MemberRows /\ member[m].state = "live"
        /\ [member[m] EXCEPT !.state = "deleted"] \in MemberRows
        /\ [member[m] EXCEPT !.state = "deleted"].by = member[m].by
        /\ [member[m] EXCEPT !.state = "deleted"].state = "deleted"
    BY DEF LiveMembers, LinkInv, TablesTyped, MemberRows
  <2>4. \A n \in Members : member'[n] =
          IF n = m THEN [member[m] EXCEPT !.state = "deleted"] ELSE member[n]
    BY <2>1, <2>3 DEF LinkInv, TablesTyped
  <2>5. \A q \in Clerks : clerk'[q] = IF q = c THEN r ELSE clerk[q]
    BY <2>1 DEF LinkInv, ClerksFit
  <2>6. r \in ClerkKinds /\ r.at = "disable" /\ r.who = m
    BY <2>3 DEF ClerkKinds
  <2> HIDE DEF r
  <2>7. TablesTyped'
    BY <2>1, <2>2, <2>3, <2>4 DEF LinkInv, TablesTyped
  <2>8. \A n \in Members : member[n].state # "none" =>
          member'[n].state # "none" /\ member'[n].by = member[n].by
    BY <2>3, <2>4
  <2>9. ClerksFit'
    <3>1. clerk' \in [Clerks -> ClerkKinds]
      BY <2>1, <2>6 DEF LinkInv, ClerksFit, r
    <3>2. ASSUME NEW q \in Clerks PROVE Fits(clerk[q])'
      <4>1. CASE q = c
        BY <2>3, <2>5, <2>6, <2>8, <4>1 DEF Fits
      <4>2. CASE q # c
        BY <1>0, <1>a, <2>5, <2>8, <4>2 DEF Fits
      <4> QED BY <4>1, <4>2
    <3> QED BY <3>1, <3>2 DEF ClerksFit
  <2>10. ASSUME NEW n \in Members, Enrolled(n)' PROVE LinkIsSafe(n)'
    <3>1. n # m /\ Enrolled(n)
      BY <2>2, <2>3, <2>4, <2>10 DEF Enrolled
    <3> QED BY <2>2, <2>5, <2>6, <3>1 DEF LinkIsSafe, LinkInv
  <2> QED BY <2>7, <2>9, <2>10 DEF LinkInv
<1>7. ASSUME NEW c \in Clerks, HardDeletesUser(c) PROVE LinkInv'
  <2>1. PICK m \in LiveMembers :
          /\ clerk' = [clerk EXCEPT ![c] = Free]
          /\ member' = [member EXCEPT ![m].state = "gone"]
          /\ links' = [links EXCEPT ![m] = {}]
    BY <1>7 DEF HardDeletesUser, Enters
  <2>2. /\ handed' = handed /\ lastLink' = lastLink /\ revived' = revived
        /\ misread' = misread
    BY <1>7 DEF HardDeletesUser
  <2>3. /\ m \in Members /\ member[m] \in MemberRows /\ member[m].state = "live"
        /\ [member[m] EXCEPT !.state = "gone"] \in MemberRows
        /\ [member[m] EXCEPT !.state = "gone"].by = member[m].by
        /\ [member[m] EXCEPT !.state = "gone"].state = "gone"
    BY DEF LiveMembers, LinkInv, TablesTyped, MemberRows
  <2>4. \A n \in Members :
          /\ member'[n] = IF n = m THEN [member[m] EXCEPT !.state = "gone"] ELSE member[n]
          /\ n # m => links'[n] = links[n]
    BY <2>1, <2>3 DEF LinkInv, TablesTyped
  <2>5. \A q \in Clerks : clerk'[q] = IF q = c THEN Free ELSE clerk[q]
    BY <2>1 DEF LinkInv, ClerksFit
  <2>7. TablesTyped'
    BY <2>1, <2>2, <2>3, <2>4 DEF LinkInv, TablesTyped
  <2>8. \A n \in Members : member[n].state # "none" =>
          member'[n].state # "none" /\ member'[n].by = member[n].by
    BY <2>3, <2>4
  <2>9. ClerksFit'
    <3>1. clerk' \in [Clerks -> ClerkKinds]
      BY <2>1, FreeFits DEF LinkInv, ClerksFit
    <3>2. ASSUME NEW q \in Clerks PROVE Fits(clerk[q])'
      <4>1. CASE q = c
        BY <2>5, <4>1, FreeFits DEF Fits
      <4>2. CASE q # c
        BY <1>0, <1>a, <2>5, <2>8, <4>2 DEF Fits
      <4> QED BY <4>1, <4>2
    <3> QED BY <3>1, <3>2 DEF ClerksFit
  <2>10. ASSUME NEW n \in Members, Enrolled(n)' PROVE LinkIsSafe(n)'
    <3>1. n # m /\ Enrolled(n)
      BY <2>2, <2>3, <2>4, <2>10 DEF Enrolled
    <3> QED BY <2>2, <2>4, <2>5, <3>1, FreeFits DEF LinkIsSafe, LinkInv
  <2> QED BY <2>7, <2>9, <2>10 DEF LinkInv
<1>8. ASSUME NEW c \in Clerks, DisablesLinks(c) PROVE LinkInv'
  <2>1. clerk[c].who \in Members /\ ~Enrolled(clerk[c].who)
    BY <1>8, <1>a DEF DisablesLinks, LinkInv, LinkIsSafe
  <2>2. /\ Proceeds(c, Free) /\ Fits(Free) /\ lastLink' \in Nat
        /\ links' = [links EXCEPT ![clerk[c].who] = {}]
        /\ UNCHANGED <<member, handed, misread, revived>>
    BY <1>8, FreeFits DEF DisablesLinks, Fits, LinkInv, TablesTyped
  <2> QED BY <2>1, <2>2, FreeFits, WriterKeeps
<1>9. ASSUME NEW c \in Clerks, EnsureMakes(c) PROVE LinkInv'
  <2> DEFINE m == clerk[c].who
             r == [clerk[c] EXCEPT !.at = "sign"]
  <2>1. /\ m \in Members /\ member[m].state # "none"
        /\ ~Enrolled(m) \/ m \in misread
    BY <1>9, <1>a DEF EnsureMakes, LinkInv, LinkIsSafe
  <2>2. r \in ClerkKinds /\ r.at = "sign" /\ r.who = m
    BY <1>0, <1>9, ClerkMoves DEF EnsureMakes
  <2>3. CASE member[m].state = "gone"
    <3>1. Proceeds(c, Free) /\ Fits(Free) /\ UNCHANGED <<member, linkVars, revived>>
      BY <1>9, <2>3, FreeFits DEF EnsureMakes, Fits, linkVars
    <3> QED BY <3>1, FreeFits, ReaderKeeps
  <2>4. CASE member[m].state # "gone"
    <3>1. /\ Proceeds(c, r) /\ lastLink' = lastLink + 1
          /\ links' = [links EXCEPT ![m] = links[m] \cup {lastLink'}]
          /\ UNCHANGED <<member, handed, misread, revived>>
      BY <1>9, <2>4 DEF EnsureMakes
    <3> DEFINE L == links[m] \cup {lastLink'}
    <3>2. lastLink' \in Nat /\ L \in SUBSET Nat /\ links[m] \subseteq L
      BY <2>1, <3>1 DEF LinkInv, TablesTyped
    <3>3. Fits(r)
      BY <2>1, <2>2 DEF Fits
    <3>4. links' = [links EXCEPT ![m] = L]
      BY <3>1
    <3> HIDE DEF r, m, L
    <3> QED BY <2>1, <2>2, <3>1, <3>2, <3>3, <3>4, WriterKeeps
  <2> QED BY <2>3, <2>4
<1>10. ASSUME NEW c \in Clerks, VisitsPanel(c) PROVE LinkInv'
  <2>1. PICK m \in LiveMembers, at \in {"ensure", "sign"} :
          Proceeds(c, [at |-> at, who |-> m])
    BY <1>10 DEF VisitsPanel, Enters, Proceeds
  <2> DEFINE r == [at |-> at, who |-> m]
  <2>2. Fits(r) /\ r.at = at
    BY DEF Fits, ClerkKinds, LiveMembers
  <2>3. UNCHANGED <<member, linkVars, revived>>
    BY <1>10 DEF VisitsPanel
  <2> HIDE DEF r
  <2> QED BY <2>1, <2>2, <2>3, ReaderKeeps DEF r
<1>11. ASSUME NEW c \in Clerks, EnsureFinds(c) PROVE LinkInv'
  <2> DEFINE m == clerk[c].who
  <2>1. PICK at \in {"make", "sign"} :
          /\ at = IF links[m] = {} THEN "make" ELSE "sign"
          /\ Proceeds(c, [clerk[c] EXCEPT !.at = at])
    BY <1>11 DEF EnsureFinds
  <2> DEFINE r == [clerk[c] EXCEPT !.at = at]
  <2>2. m \in Members /\ member[m].state # "none"
    BY <1>11, <1>a DEF EnsureFinds
  <2>3. r \in ClerkKinds /\ r.at = at /\ r.who = m
    BY <1>0, <1>11, ClerkMoves DEF EnsureFinds
  <2>4. Fits(r) /\ Proceeds(c, r)
    BY <2>1, <2>2, <2>3 DEF Fits
  <2>5. /\ r.at # "disable"
        /\ r.at = "make" => ~Enrolled(r.who) \/ r.who \in misread
    BY <2>1, <2>2, <2>3 DEF LinkInv, LinkIsSafe
  <2>6. UNCHANGED <<member, linkVars, revived>>
    BY <1>11 DEF EnsureFinds
  <2> HIDE DEF r, m
  <2> QED BY <2>4, <2>5, <2>6, ReaderKeeps
<1>11a. ASSUME NEW c \in Clerks, EnsureMisses(c) PROVE LinkInv'
  <2> DEFINE m == clerk[c].who
             r == [clerk[c] EXCEPT !.at = "make"]
  <2>1. m \in Members /\ member[m].state # "none"
    BY <1>11a, <1>a DEF EnsureMisses
  <2>2. r \in ClerkKinds /\ r.at = "make" /\ r.who = m
    BY <1>0, <1>11a, ClerkMoves DEF EnsureMisses
  <2>3. /\ Proceeds(c, r) /\ misread' = misread \cup {m}
        /\ UNCHANGED <<member, links, lastLink, handed, revived>>
    BY <1>11a DEF EnsureMisses
  <2> HIDE DEF r, m
  <2>4. \A q \in Clerks : clerk'[q] = IF q = c THEN r ELSE clerk[q]
    BY <2>3 DEF Proceeds, LinkInv, ClerksFit
  <2>5. TablesTyped'
    BY <2>1, <2>3 DEF LinkInv, TablesTyped
  <2>6. ClerksFit'
    <3>1. clerk' \in [Clerks -> ClerkKinds]
      BY <2>2, <2>3 DEF Proceeds, LinkInv, ClerksFit
    <3>2. \A q \in Clerks : Fits(clerk'[q])
      BY <1>0, <2>1, <2>2, <2>4 DEF Fits
    <3> QED BY <2>3, <3>1, <3>2 DEF ClerksFit, Fits
  <2>7. ASSUME NEW n \in Members, Enrolled(n)' PROVE LinkIsSafe(n)'
    <3>1. LinkIsSafe(n)
      BY <2>3, <2>7 DEF Enrolled, LinkInv
    <3>2. n = m => n \in misread'
      BY <2>3
    <3>3. \A q \in Clerks :
            /\ clerk'[q].at = "disable" => clerk'[q].who # n
            /\ clerk'[q].at = "make" => clerk'[q].who # n \/ n \in misread'
      BY <2>2, <2>3, <2>4, <3>1, <3>2 DEF LinkIsSafe
    <3> QED BY <2>3, <3>1, <3>3 DEF LinkIsSafe
  <2> QED BY <2>5, <2>6, <2>7 DEF LinkInv
<1>12. ASSUME NEW c \in Clerks, SignsLink(c) PROVE LinkInv'
  <2> DEFINE m == clerk[c].who
  <2>1. m \in Members /\ member[m].state # "none"
    BY <1>12, <1>a DEF SignsLink
  <2>2. Proceeds(c, Free) /\ Fits(Free) /\ UNCHANGED <<member, links, lastLink, misread, revived>>
    BY <1>12, FreeFits DEF SignsLink, Fits
  <2>3. CASE UNCHANGED handed
    BY <2>2, <2>3, FreeFits, ReaderKeeps DEF linkVars
  <2>4. CASE ~UNCHANGED handed
    <3>1. PICK t \in links[m] : handed' = [handed EXCEPT ![m] = @ \cup {t}]
      BY <1>12, <2>4 DEF SignsLink
    <3>2. handed'[m] = handed[m] \cup {t} /\ t \in Nat
          /\ \A n \in Members \ {m} : handed'[n] = handed[n]
      BY <2>1, <3>1 DEF LinkInv, TablesTyped
    <3>3. TablesTyped'
      BY <2>1, <2>2, <3>1, <3>2 DEF LinkInv, TablesTyped
    <3>4. \A q \in Clerks : clerk'[q] = Free \/ clerk'[q] = clerk[q]
      BY <2>2 DEF Proceeds, LinkInv, ClerksFit
    <3>5. ClerksFit'
      <4>1. clerk' \in [Clerks -> ClerkKinds]
        BY <2>2, FreeFits DEF Proceeds, LinkInv, ClerksFit
      <4>2. \A q \in Clerks : Fits(clerk'[q])
        BY <1>0, <2>2, <3>4
      <4> QED BY <2>2, <4>1, <4>2 DEF ClerksFit, Fits
    <3>6. ASSUME NEW n \in Members, Enrolled(n)' PROVE LinkIsSafe(n)'
      <4>1. LinkIsSafe(n)
        BY <2>2, <3>6 DEF Enrolled, LinkInv
      <4>2. handed'[n] \subseteq links[n]
        BY <3>2, <4>1 DEF LinkIsSafe
      <4>3. \A q \in Clerks :
              /\ clerk'[q].at = "disable" => clerk'[q].who # n
              /\ clerk'[q].at = "make" => clerk'[q].who # n \/ n \in misread
        BY <3>4, <4>1, FreeFits DEF LinkIsSafe
      <4> QED BY <2>2, <4>1, <4>2, <4>3 DEF LinkIsSafe
    <3> QED BY <3>3, <3>5, <3>6 DEF LinkInv
  <2> QED BY <2>3, <2>4
<1>13. ASSUME NEW c \in Clerks, FetchesList(c) PROVE LinkInv'
  <2>1. PICK m \in LiveMembers, ip \in Addresses :
          Proceeds(c, [at |-> "clean", who |-> m, ip |-> ip])
    BY <1>13 DEF FetchesList, Enters, Proceeds
  <2> DEFINE r == [at |-> "clean", who |-> m, ip |-> ip]
  <2>2. Fits(r) /\ r.at = "clean" /\ Proceeds(c, r)
    BY <2>1 DEF Fits, ClerkKinds, LiveMembers
  <2>3. UNCHANGED <<member, linkVars, revived>>
    BY <1>13 DEF FetchesList
  <2> HIDE DEF r
  <2> QED BY <2>2, <2>3, ReaderKeeps
<1>14. ASSUME NEW c \in Clerks,
              CleansDevices(c) \/ AddsDevice(c) \/ DeviceCommandFails(c) PROVE LinkInv'
  <2>1. UNCHANGED <<member, linkVars, revived>>
    BY <1>14 DEF CleansDevices, AddsDevice, DeviceCommandFails
  <2>2. CASE Proceeds(c, Free)
    BY <2>1, <2>2, FreeFits, ReaderKeeps DEF Fits
  <2>3. CASE ~Proceeds(c, Free)
    <3>1. PICK at \in {"add", "count"} :
            Proceeds(c, [clerk[c] EXCEPT !.at = at]) /\ clerk[c].at \in {"clean", "add"}
      BY <1>14, <2>3 DEF CleansDevices, AddsDevice, DeviceCommandFails
    <3> DEFINE r == [clerk[c] EXCEPT !.at = at]
    <3>2. r \in ClerkKinds /\ r.at = at
      BY <1>0, <3>1, ClerkMoves
    <3>3. Fits(r) /\ Proceeds(c, r)
      BY <3>1, <3>2 DEF Fits
    <3> HIDE DEF r
    <3> QED BY <2>1, <3>2, <3>3, ReaderKeeps
  <2> QED BY <2>2, <2>3
<1>15. CASE TickPasses \/ UNCHANGED memberVars
  <2>1. UNCHANGED <<member, links, lastLink, handed, misread, revived, clerk>>
    BY <1>15 DEF TickPasses, memberVars, linkVars
  <2> QED BY <2>1 DEF LinkInv, TablesTyped, ClerksFit, Fits, Enrolled, LinkIsSafe
<1> QED
  BY <1>1, <1>2, <1>3, <1>4, <1>5, <1>6, <1>7, <1>8, <1>9, <1>10, <1>11, <1>11a, <1>12, <1>13,
     <1>14, <1>15 DEF MembershipNext

LEMMA LinkInit == MembershipInit => LinkInv
<1> SUFFICES ASSUME MembershipInit PROVE LinkInv
  OBVIOUS
<1> DEFINE nobody == [state |-> "none", name |-> CHOOSE name \in Names : TRUE,
                      by |-> "register"]
<1>1. member = [m \in Members |-> nobody] /\ clerk = [c \in Clerks |-> Free]
      /\ links = [m \in Members |-> {}] /\ handed = links /\ lastLink = 0
      /\ revived = {} /\ misread = {}
  BY DEF MembershipInit
<1>2. nobody \in MemberRows /\ nobody.state = "none"
  BY MembershipAssumption DEF MemberRows
<1> HIDE DEF nobody
<1>3. TablesTyped
  BY <1>1, <1>2 DEF TablesTyped
<1>4. ClerksFit
  BY <1>1, FreeFits DEF ClerksFit, Fits
<1> QED BY <1>1, <1>2, <1>3, <1>4 DEF LinkInv, Enrolled

\* Every link a registered customer was shown leads to the account until its deletion, and is
\* the only one unless a query for it failed, for any customers, requests and failures.
THEOREM LinksStay == MembershipSpec => []LinksStayValid
<1>1. LinkInv => LinksStayValid
  <2> SUFFICES ASSUME LinkInv, NEW m \in LiveMembers \ revived, member[m].by = "register"
               PROVE  /\ handed[m] \subseteq links[m]
                      /\ m \notin misread => Cardinality(links[m]) <= 1
    BY DEF LinksStayValid
  <2>1. LinkIsSafe(m)
    BY DEF LinkInv, LiveMembers, Enrolled
  <2>2. ASSUME m \notin misread PROVE Cardinality(links[m]) <= 1
    <3>1. PICK t \in Nat : links[m] = {t}
      BY <2>1, <2>2 DEF LinkIsSafe
    <3> QED BY <3>1, FS_Singleton
  <2> QED BY <2>1, <2>2 DEF LinkIsSafe
<1> QED BY <1>1, LinkInit, LinkStep, PTL DEF MembershipSpec

-----------------------------------------------------------------------------
(* Devices                                                                 *)

Fresh(m) == {s \in served[m] : s.at > tick - LinkHour}
FreshAddresses(m) == {d.ip : d \in Fresh(m)}

\* Whom the list was given within the hour is still among the counted devices, with that time
\* or a later one, and so is whoever is about to be counted.
Remembered ==
    /\ \A c \in Clerks : clerk[c].at = "count" =>
         [ip |-> clerk[c].ip, at |-> tick] \in devices[clerk[c].who]
    /\ \A m \in Members : \A s \in served[m] :
         s.at <= tick /\ (s.at > tick - LinkHour => \E d \in devices[m] : d.ip = s.ip /\ d.at >= s.at)

Limited == \A m \in Members : Cardinality(FreshAddresses(m)) <= DeviceLimit

DevicesTyped ==
    /\ tick \in Nat /\ unchecked \in BOOLEAN
    /\ devices \in [Members -> SUBSET Stamped] /\ served \in [Members -> SUBSET Stamped]
    /\ \A m \in Members : IsFiniteSet(devices[m])

DeviceInv == DevicesTyped /\ (~unchecked => Remembered /\ Limited)

\* As many devices as addresses at least.
LEMMA AddressesCounted ==
    ASSUME NEW D \in SUBSET Stamped, IsFiniteSet(D), NEW A, \A a \in A : \E d \in D : d.ip = a
    PROVE  /\ IsFiniteSet(A) /\ Cardinality(A) \in Nat /\ Cardinality(D) \in Nat
           /\ Cardinality(A) <= Cardinality(D)
<1> DEFINE T == {d.ip : d \in D}
<1> DEFINE f == [d \in D |-> d.ip]
<1>1. f \in Surjection(D, T)
  BY DEF Surjection
<1>2. A \in SUBSET T
  OBVIOUS
<1> HIDE DEF f, T
<1>3. IsFiniteSet(T) /\ Cardinality(T) <= Cardinality(D)
  BY <1>1, FS_Surjection
<1>4. IsFiniteSet(A) /\ Cardinality(A) <= Cardinality(T)
  BY <1>2, <1>3, FS_Subset
<1>5. Cardinality(A) \in Nat /\ Cardinality(T) \in Nat /\ Cardinality(D) \in Nat
  BY <1>3, <1>4, FS_CardinalityType
<1> QED BY <1>3, <1>4, <1>5

\* Who is not about to be counted disturbs no device.
LEMMA DevicesRest ==
    ASSUME ClerksFit, DeviceInv, NEW c \in Clerks, NEW r, clerk' = [clerk EXCEPT ![c] = r],
           r.at # "count", UNCHANGED deviceVars
    PROVE  DeviceInv'
<1>1. \A q \in Clerks : clerk'[q] = IF q = c THEN r ELSE clerk[q]
  BY DEF ClerksFit
<1>2. /\ tick' = tick /\ unchecked' = unchecked /\ devices' = devices /\ served' = served
  BY DEF deviceVars
<1>3. Limited => Limited'
  BY <1>2 DEF Limited, FreshAddresses, Fresh
<1>4. Remembered => Remembered'
  BY <1>1, <1>2 DEF Remembered
<1> QED BY <1>2, <1>3, <1>4 DEF DeviceInv, DevicesTyped

\* Nobody is fresh again, so that the addresses become no more.
LEMMA FewerFresh ==
    ASSUME DevicesTyped, Remembered, Limited, NEW m \in Members,
           NEW A \in SUBSET FreshAddresses(m)
    PROVE  Cardinality(A) <= DeviceLimit
<1>1. \A a \in FreshAddresses(m) : \E d \in devices[m] : d.ip = a
  BY DEF Remembered, FreshAddresses, Fresh
<1>2. devices[m] \in SUBSET Stamped /\ IsFiniteSet(devices[m])
  BY DEF DevicesTyped
<1>3. IsFiniteSet(FreshAddresses(m)) /\ Cardinality(FreshAddresses(m)) \in Nat
  BY <1>1, <1>2, AddressesCounted
<1>4. Cardinality(A) \in Nat /\ Cardinality(A) <= Cardinality(FreshAddresses(m))
  BY <1>3, FS_Subset, FS_CardinalityType
<1>5. Cardinality(FreshAddresses(m)) <= DeviceLimit
  BY DEF Limited
<1> QED BY <1>3, <1>4, <1>5, MembershipAssumption

LEMMA DeviceStep ==
    ASSUME ClerksFit, DeviceInv, [MembershipNext]_memberVars PROVE DeviceInv'
<1>0. \A c \in Clerks : clerk[c] \in ClerkKinds
  BY DEF ClerksFit
<1>n. tick \in Nat /\ LinkHour \in Nat /\ LinkHour > 0 /\ DeviceLimit \in Nat
  BY MembershipAssumption DEF DeviceInv, DevicesTyped
<1>t. /\ devices \in [Members -> SUBSET Stamped] /\ served \in [Members -> SUBSET Stamped]
      /\ \A m \in Members : IsFiniteSet(devices[m])
  BY DEF DeviceInv, DevicesTyped
<1>s. \A m \in Members : \A d \in devices[m] \cup served[m] : d.at \in Nat /\ d.ip \in Addresses
  BY <1>t DEF Stamped
<1>w. \A c \in Clerks : clerk[c].at \in {"clean", "add", "count"} =>
        clerk[c].who \in Members /\ clerk[c].ip \in Addresses
  BY <1>0 DEF ClerkKinds, Free
<1>1. ASSUME NEW c \in Clerks, LooksForName(c) PROVE DeviceInv'
  <2>1. PICK name, by : clerk' = [clerk EXCEPT ![c] = [at |-> "insert", name |-> name, by |-> by]]
    BY <1>1 DEF LooksForName, Enters
  <2>2. UNCHANGED deviceVars
    BY <1>1 DEF LooksForName
  <2> DEFINE r == [at |-> "insert", name |-> name, by |-> by]
  <2>3. r.at = "insert" /\ clerk' = [clerk EXCEPT ![c] = r]
    BY <2>1
  <2> HIDE DEF r
  <2> QED BY <2>2, <2>3, DevicesRest
<1>2. ASSUME NEW c \in Clerks,
             \/ InsertsUser(c) \/ RequestEnds(c) \/ SavesMember(c) \/ DisablesLinks(c)
             \/ HardDeletesUser(c) \/ SignsLink(c)
      PROVE  DeviceInv'
  <2>1. clerk' = [clerk EXCEPT ![c] = Free] /\ UNCHANGED deviceVars
    BY <1>2 DEF InsertsUser, RequestEnds, SavesMember, DisablesLinks, HardDeletesUser,
        SignsLink, Enters, Proceeds
  <2> QED BY <2>1, FreeFits, DevicesRest
<1>3. ASSUME NEW c \in Clerks, EditsMember(c) PROVE DeviceInv'
  <2>1. PICK m : clerk' = [clerk EXCEPT ![c] = [at |-> "save", who |-> m, row |-> member[m]]]
    BY <1>3 DEF EditsMember, Enters, LiveMembers
  <2>2. UNCHANGED deviceVars
    BY <1>3 DEF EditsMember
  <2> DEFINE r == [at |-> "save", who |-> m, row |-> member[m]]
  <2>3. r.at # "count" /\ clerk' = [clerk EXCEPT ![c] = r]
    BY <2>1
  <2> HIDE DEF r
  <2> QED BY <2>2, <2>3, DevicesRest
<1>3a. ASSUME NEW c \in Clerks, DeletesUser(c) PROVE DeviceInv'
  <2>1. PICK m : clerk' = [clerk EXCEPT ![c] = [at |-> "disable", who |-> m]]
    BY <1>3a DEF DeletesUser, Enters, LiveMembers
  <2>2. UNCHANGED deviceVars
    BY <1>3a DEF DeletesUser
  <2> DEFINE r == [at |-> "disable", who |-> m]
  <2>3. r.at # "count" /\ clerk' = [clerk EXCEPT ![c] = r]
    BY <2>1
  <2> HIDE DEF r
  <2> QED BY <2>2, <2>3, DevicesRest
<1>4. ASSUME NEW c \in Clerks, VisitsPanel(c) PROVE DeviceInv'
  <2>1. PICK m \in Members, at \in {"ensure", "sign"} : clerk' = [clerk EXCEPT ![c] = [at |-> at, who |-> m]]
    BY <1>4 DEF VisitsPanel, Enters, LiveMembers
  <2>2. UNCHANGED deviceVars
    BY <1>4 DEF VisitsPanel
  <2> DEFINE r == [at |-> at, who |-> m]
  <2>3. r.at # "count" /\ clerk' = [clerk EXCEPT ![c] = r]
    BY <2>1
  <2> HIDE DEF r
  <2> QED BY <2>2, <2>3, DevicesRest
<1>4a. ASSUME NEW c \in Clerks, FetchesList(c) PROVE DeviceInv'
  <2>1. PICK m, ip : clerk' = [clerk EXCEPT ![c] = [at |-> "clean", who |-> m, ip |-> ip]]
    BY <1>4a DEF FetchesList, Enters, LiveMembers
  <2>2. UNCHANGED deviceVars
    BY <1>4a DEF FetchesList
  <2> DEFINE r == [at |-> "clean", who |-> m, ip |-> ip]
  <2>3. r.at # "count" /\ clerk' = [clerk EXCEPT ![c] = r]
    BY <2>1
  <2> HIDE DEF r
  <2> QED BY <2>2, <2>3, DevicesRest
<1>5. ASSUME NEW c \in Clerks, EnsureFinds(c) \/ EnsureMisses(c) \/ EnsureMakes(c)
      PROVE  DeviceInv'
  <2>1. UNCHANGED deviceVars
    BY <1>5 DEF EnsureFinds, EnsureMisses, EnsureMakes
  <2>2. CASE clerk' = [clerk EXCEPT ![c] = Free]
    BY <2>1, <2>2, FreeFits, DevicesRest
  <2>3. CASE \E at \in {"make", "sign"} : clerk' = [clerk EXCEPT ![c] = [clerk[c] EXCEPT !.at = at]]
    <3>1. PICK at \in {"make", "sign"} : clerk' = [clerk EXCEPT ![c] = [clerk[c] EXCEPT !.at = at]]
      BY <2>3
    <3> DEFINE r == [clerk[c] EXCEPT !.at = at]
    <3>2. r.at = at
      BY <1>0, <1>5, ClerkMoves DEF EnsureFinds, EnsureMisses, EnsureMakes
    <3>3. clerk' = [clerk EXCEPT ![c] = r] /\ r.at # "count"
      BY <3>1, <3>2
    <3> HIDE DEF r
    <3> QED BY <2>1, <3>3, DevicesRest
  <2> QED BY <1>5, <2>2, <2>3 DEF EnsureFinds, EnsureMisses, EnsureMakes, Proceeds
<1>6. ASSUME NEW c \in Clerks, CleansDevices(c) PROVE DeviceInv'
  <2> DEFINE m == clerk[c].who
  <2> DEFINE r == [clerk[c] EXCEPT !.at = "add"]
  <2>1. m \in Members /\ r.at = "add"
    BY <1>0, <1>6, <1>w, ClerkMoves DEF CleansDevices
  <2>2. /\ devices' = [devices EXCEPT ![m] = {d \in @ : ~Lapsed(d.at)}]
        /\ clerk' = [clerk EXCEPT ![c] = r]
        /\ UNCHANGED <<tick, served, unchecked>>
    BY <1>6 DEF CleansDevices, Proceeds
  <2> HIDE DEF m, r
  <2>3. \A n \in Members : devices'[n] \subseteq devices[n] /\ IsFiniteSet(devices'[n])
    <3>1. \A n \in Members : devices'[n] \subseteq devices[n]
      BY <2>2, <1>t
    <3> QED BY <3>1, <1>t, FS_Subset
  <2>4. devices' \in [Members -> SUBSET Stamped]
    BY <2>2, <1>t
  <2>5. \A n \in Members : \A d \in devices[n] : d.at > tick - LinkHour => d \in devices'[n]
    <3>1. \A n \in Members : \A d \in devices[n] : ~Lapsed(d.at) => d \in devices'[n]
      BY <2>2, <1>t
    <3> QED BY <3>1, <1>n, <1>s DEF Lapsed
  <2>6. ASSUME Remembered PROVE Remembered'
    <3>1. ASSUME NEW q \in Clerks, clerk'[q].at = "count"
          PROVE  [ip |-> clerk'[q].ip, at |-> tick'] \in devices'[clerk'[q].who]
      <4>1. q # c /\ clerk'[q] = clerk[q]
        BY <2>1, <2>2, <3>1 DEF ClerksFit
      <4>2. [ip |-> clerk[q].ip, at |-> tick] \in devices[clerk[q].who] /\ clerk[q].who \in Members
        BY <2>6, <3>1, <4>1, <1>w DEF Remembered
      <4>3. tick > tick - LinkHour
        BY <1>n
      <4> QED BY <2>2, <2>5, <4>1, <4>2, <4>3
    <3>2. ASSUME NEW n \in Members, NEW s \in served[n], s.at > tick - LinkHour
          PROVE  \E d \in devices'[n] : d.ip = s.ip /\ d.at >= s.at
      <4>1. PICK d \in devices[n] : d.ip = s.ip /\ d.at >= s.at
        BY <2>6, <3>2 DEF Remembered
      <4>2. d.at > tick - LinkHour
        BY <1>n, <1>s, <3>2, <4>1
      <4> QED BY <2>5, <4>1, <4>2
    <3> QED BY <2>2, <2>6, <3>1, <3>2 DEF Remembered
  <2>7. Limited => Limited'
    BY <2>2 DEF Limited, FreshAddresses, Fresh
  <2> QED BY <2>2, <2>3, <2>4, <2>6, <2>7 DEF DeviceInv, DevicesTyped
<1>7. ASSUME NEW c \in Clerks, AddsDevice(c) PROVE DeviceInv'
  <2> DEFINE m == clerk[c].who
  <2> DEFINE x == [ip |-> clerk[c].ip, at |-> tick]
  <2> DEFINE r == [clerk[c] EXCEPT !.at = "count"]
  <2>1. /\ m \in Members /\ x \in Stamped /\ x.ip = clerk[c].ip /\ x.at = tick
        /\ r.at = "count" /\ r.who = m /\ r.ip = clerk[c].ip
    <3>1. clerk[c] \in [at : {"clean", "add", "count"}, who : Members, ip : Addresses]
      BY <1>0, <1>7 DEF AddsDevice, ClerkKinds, Free
    <3> QED BY <1>n, <3>1 DEF Stamped
  <2>2. /\ devices' = [devices EXCEPT ![m] = {d \in @ : d.ip # clerk[c].ip} \cup {x}]
        /\ clerk' = [clerk EXCEPT ![c] = r]
        /\ UNCHANGED <<tick, served, unchecked>>
    BY <1>7 DEF AddsDevice, Proceeds
  <2>x. x = [ip |-> clerk[c].ip, at |-> tick]
    OBVIOUS
  <2> HIDE DEF m, r, x
  <2>3. \A n \in Members : IsFiniteSet(devices'[n])
    <3>1. \A n \in Members : devices'[n] \in SUBSET (devices[n] \cup {x})
      BY <2>2, <1>t
    <3>2. \A n \in Members : IsFiniteSet(devices[n] \cup {x})
      BY <1>t, FS_AddElement
    <3> QED BY <3>1, <3>2, FS_Subset
  <2>4. devices' \in [Members -> SUBSET Stamped]
    BY <2>1, <2>2, <1>t
  <2>5. \A n \in Members : \A d \in devices[n] :
          d \in devices'[n] \/ (n = m /\ d.ip = x.ip)
    BY <2>1, <2>2, <1>t
  <2>5a. x \in devices'[m]
    BY <2>1, <2>2, <1>t
  <2>6. ASSUME Remembered PROVE Remembered'
    <3>1. ASSUME NEW q \in Clerks, clerk'[q].at = "count"
          PROVE  [ip |-> clerk'[q].ip, at |-> tick'] \in devices'[clerk'[q].who]
      <4>1. CASE q = c
        <5>1. clerk'[q] = r
          BY <2>2, <4>1 DEF ClerksFit
        <5> QED BY <2>1, <2>2, <2>5a, <5>1, <2>x
      <4>2. CASE q # c
        <5>1. clerk'[q] = clerk[q]
          BY <2>2, <4>2 DEF ClerksFit
        <5>2. [ip |-> clerk[q].ip, at |-> tick] \in devices[clerk[q].who] /\ clerk[q].who \in Members
          BY <2>6, <3>1, <5>1, <1>w DEF Remembered
        <5>3. [ip |-> clerk[q].ip, at |-> tick] \in devices'[clerk[q].who]
          BY <2>1, <2>5, <2>5a, <5>2, <2>x
        <5> QED BY <2>2, <5>1, <5>3
      <4> QED BY <4>1, <4>2
    <3>2. ASSUME NEW n \in Members, NEW s \in served[n], s.at > tick - LinkHour
          PROVE  \E d \in devices'[n] : d.ip = s.ip /\ d.at >= s.at
      <4>1. PICK d \in devices[n] : d.ip = s.ip /\ d.at >= s.at
        BY <2>6, <3>2 DEF Remembered
      <4>2. s.at <= tick
        BY <2>6 DEF Remembered
      <4> QED BY <2>1, <2>5, <2>5a, <4>1, <4>2
    <3> QED BY <2>2, <2>6, <3>1, <3>2 DEF Remembered
  <2>7. Limited => Limited'
    BY <2>2 DEF Limited, FreshAddresses, Fresh
  <2> QED BY <2>2, <2>3, <2>4, <2>6, <2>7 DEF DeviceInv, DevicesTyped
<1>8. ASSUME NEW c \in Clerks, CountsDevices(c) PROVE DeviceInv'
  <2> DEFINE m == clerk[c].who
  <2> DEFINE x == [ip |-> clerk[c].ip, at |-> tick]
  <2>1. m \in Members /\ x \in Stamped /\ x.ip = clerk[c].ip /\ x.at = tick
    BY <1>8, <1>w, <1>n DEF CountsDevices, Stamped
  <2>2. /\ clerk' = [clerk EXCEPT ![c] = Free] /\ clerk[c].at = "count"
        /\ UNCHANGED <<tick, devices, unchecked>>
    BY <1>8 DEF CountsDevices, Proceeds
  <2>3. CASE served' = served
    BY <2>2, <2>3, FreeFits, DevicesRest DEF deviceVars
  <2>4. CASE served' # served
    <3>1. /\ ~(Cardinality(devices[m]) > DeviceLimit)
          /\ served' = [served EXCEPT ![m] = @ \cup {x}]
      BY <1>8, <2>4 DEF CountsDevices, Gets
    <3>x. Remembered => x \in devices[m]
      BY <2>2 DEF Remembered
    <3> HIDE DEF m, x
    <3>2. served' \in [Members -> SUBSET Stamped]
      BY <1>t, <2>1, <3>1
    <3>3. \A q \in Clerks : clerk'[q].at = "count" => clerk'[q] = clerk[q]
      BY <2>2, FreeFits DEF ClerksFit
    <3>4. \A n \in Members : \A s \in served'[n] : s \in served[n] \/ (n = m /\ s = x)
      BY <1>t, <3>1
    <3>5. ASSUME Remembered PROVE Remembered'
      <4>1. \A q \in Clerks : clerk'[q].at = "count" =>
              [ip |-> clerk'[q].ip, at |-> tick'] \in devices'[clerk'[q].who]
        BY <2>2, <3>3, <3>5 DEF Remembered
      <4>2. ASSUME NEW n \in Members, NEW s \in served'[n]
            PROVE  /\ s.at <= tick
                   /\ s.at > tick - LinkHour => \E d \in devices[n] : d.ip = s.ip /\ d.at >= s.at
        <5>1. CASE s \in served[n]
          BY <3>5, <5>1 DEF Remembered
        <5>2. CASE n = m /\ s = x
          BY <1>n, <2>1, <3>5, <3>x, <5>2
        <5> QED BY <3>4, <5>1, <5>2
      <4> QED BY <2>2, <4>1, <4>2 DEF Remembered
    <3>6. ASSUME Remembered, Limited PROVE Limited'
      <4>1. ASSUME NEW n \in Members PROVE Cardinality(FreshAddresses(n)') <= DeviceLimit
        <5>1. CASE n = m
          <6>1. \A a \in FreshAddresses(n)' : \E d \in devices[m] : d.ip = a
            <7>1. Remembered'
              BY <3>5, <3>6
            <7> QED BY <2>2, <5>1, <7>1 DEF Remembered, FreshAddresses, Fresh
          <6>2. devices[m] \in SUBSET Stamped /\ IsFiniteSet(devices[m])
            BY <1>t, <2>1
          <6> DEFINE A == FreshAddresses(n)'
          <6>3. \A a \in A : \E d \in devices[m] : d.ip = a
            BY <6>1
          <6> HIDE DEF A
          <6>4. Cardinality(A) \in Nat /\ Cardinality(devices[m]) \in Nat
                /\ Cardinality(A) <= Cardinality(devices[m])
            BY <6>2, <6>3, AddressesCounted
          <6>5. Cardinality(A) <= DeviceLimit
            BY <3>1, <6>4, <1>n
          <6> QED BY <6>5 DEF A
        <5>2. CASE n # m
          <6>1. served'[n] = served[n] /\ tick' = tick
            BY <1>t, <2>2, <3>1, <5>2
          <6>2. FreshAddresses(n)' = FreshAddresses(n)
            BY <6>1 DEF FreshAddresses, Fresh
          <6> QED BY <3>6, <6>2 DEF Limited
        <5> QED BY <5>1, <5>2
      <4> QED BY <4>1 DEF Limited
    <3> QED BY <2>2, <3>2, <3>5, <3>6 DEF DeviceInv, DevicesTyped
  <2> QED BY <2>3, <2>4
<1>9. ASSUME NEW c \in Clerks, DeviceCommandFails(c) PROVE DeviceInv'
  <2>1. CASE /\ clerk[c].at = "clean" /\ Proceeds(c, [clerk[c] EXCEPT !.at = "add"])
              /\ UNCHANGED <<served, unchecked>>
    <3> DEFINE r == [clerk[c] EXCEPT !.at = "add"]
    <3>1. r.at = "add"
      BY <1>0, <2>1, ClerkMoves
    <3>2. clerk' = [clerk EXCEPT ![c] = r] /\ UNCHANGED deviceVars
      BY <1>9, <2>1 DEF DeviceCommandFails, Proceeds, deviceVars
    <3> HIDE DEF r
    <3> QED BY <3>1, <3>2, DevicesRest
  <2>2. CASE unchecked' = TRUE
    <3>1. UNCHANGED <<tick, devices>>
      BY <1>9 DEF DeviceCommandFails
    <3>2. served' \in [Members -> SUBSET Stamped]
      <4>1. CASE served' = served
        BY <1>t, <4>1
      <4>2. CASE Gets(c) /\ clerk[c].at \in {"clean", "count"}
        <5> DEFINE m == clerk[c].who
        <5> DEFINE x == [ip |-> clerk[c].ip, at |-> tick]
        <5>1. m \in Members /\ x \in Stamped
          BY <4>2, <1>w, <1>n DEF Stamped
        <5>2. served' = [served EXCEPT ![m] = @ \cup {x}]
          BY <4>2 DEF Gets
        <5> HIDE DEF m, x
        <5> QED BY <1>t, <5>1, <5>2
      <4> QED BY <1>9, <4>1, <4>2 DEF DeviceCommandFails
    <3> QED BY <1>t, <1>n, <2>2, <3>1, <3>2 DEF DeviceInv, DevicesTyped
  <2> QED BY <1>9, <2>1, <2>2 DEF DeviceCommandFails
<1>10. CASE TickPasses
  <2>1. /\ tick' = tick + 1 /\ UNCHANGED <<clerk, devices, served, unchecked>>
        /\ \A c \in Clerks : clerk[c].at # "count"
    BY <1>10 DEF TickPasses
  <2>2. \A m \in Members : \A s \in served[m] :
          /\ s.at <= tick => s.at <= tick'
          /\ s.at > tick' - LinkHour => s.at > tick - LinkHour
    BY <1>n, <1>s, <2>1
  <2>3. ASSUME Remembered PROVE Remembered'
    BY <2>1, <2>2, <2>3 DEF Remembered
  <2>4. ASSUME Remembered, Limited PROVE Limited'
    <3>1. ASSUME NEW m \in Members PROVE Cardinality(FreshAddresses(m)') <= DeviceLimit
      <4>1. FreshAddresses(m)' \in SUBSET FreshAddresses(m)
        BY <2>1, <2>2 DEF FreshAddresses, Fresh
      <4> DEFINE A == FreshAddresses(m)'
      <4>2. A \in SUBSET FreshAddresses(m)
        BY <4>1
      <4> HIDE DEF A
      <4>3. Cardinality(A) <= DeviceLimit
        BY <2>4, <4>2, FewerFresh DEF DeviceInv
      <4> QED BY <4>3 DEF A
    <3> QED BY <3>1 DEF Limited
  <2>5. tick' \in Nat
    BY <1>n, <2>1
  <2> QED BY <2>1, <2>3, <2>4, <2>5 DEF DeviceInv, DevicesTyped
<1>11. CASE UNCHANGED memberVars
  <2>1. UNCHANGED <<tick, clerk, devices, served, unchecked>>
    BY <1>11 DEF memberVars
  <2> QED BY <2>1 DEF DeviceInv, DevicesTyped, Remembered, Limited, FreshAddresses, Fresh
<1> QED
  BY <1>1, <1>2, <1>3, <1>3a, <1>4, <1>4a, <1>5, <1>6, <1>7, <1>8, <1>9, <1>10, <1>11
     DEF MembershipNext

LEMMA DeviceInit == MembershipInit => DeviceInv
<1> SUFFICES ASSUME MembershipInit PROVE DeviceInv
  OBVIOUS
<1>1. /\ tick = 0 /\ unchecked = FALSE
      /\ devices = [m \in Members |-> {}] /\ served = devices
      /\ clerk = [c \in Clerks |-> Free]
  BY DEF MembershipInit
<1>2. DevicesTyped
  BY <1>1, FS_EmptySet DEF DevicesTyped
<1>3. Remembered
  BY <1>1, FreeFits DEF Remembered
<1>4. \A m \in Members : FreshAddresses(m) = {}
  BY <1>1 DEF FreshAddresses, Fresh
<1>5. Limited
  <2>1. Cardinality({}) = 0 /\ 0 <= DeviceLimit
    BY FS_EmptySet, MembershipAssumption
  <2> QED BY <1>4, <2>1 DEF Limited
<1> QED BY <1>2, <1>3, <1>5 DEF DeviceInv

\* No more addresses than the plan allows get the list within an hour, for any customers, any
\* number of devices at once, any limit and length of the hour, unless a command failed.
THEOREM DevicesStayLimited == MembershipSpec => []DevicesAreLimited
<1>1. DeviceInv => DevicesAreLimited
  BY DEF DeviceInv, Limited, FreshAddresses, Fresh, DevicesAreLimited
<1>2. LinkInv => ClerksFit
  BY DEF LinkInv
<1> QED BY <1>1, <1>2, DeviceInit, DeviceStep, LinkInit, LinkStep, PTL DEF MembershipSpec

-----------------------------------------------------------------------------
(* Customers and links: types                                              *)

NamesUnique ==
    \A m, n \in Members :
        member[m].state = "live" /\ member[n].state = "live" /\ member[m].name = member[n].name
        => m = n

LinksNumbered ==
    /\ links \in [Members -> SUBSET (1..lastLink)]
    /\ handed \in [Members -> SUBSET (1..lastLink)]

RosterTyped == roster \in [ops : SUBSET MemberOps, calls : Nat, faults : Nat]

MemberInv == NamesUnique /\ LinksNumbered /\ RosterTyped /\ tick \in 0..MaxTick

LEMMA RosterStep ==
    ASSUME RosterTyped, [MembershipNext]_memberVars PROVE RosterTyped'
<1>1. ASSUME NEW c, NEW op, NEW r, Enters(c, op, r) PROVE RosterTyped'
  <2>1. roster.calls > 0 /\ roster' = [roster EXCEPT !.calls = @ - 1]
    BY <1>1 DEF Enters
  <2>2. roster \in [ops : SUBSET MemberOps, calls : Nat, faults : Nat]
    BY DEF RosterTyped
  <2>3. roster' \in [ops : SUBSET MemberOps, calls : Nat, faults : Nat]
    BY ONLY <2>1, <2>2
  <2> QED BY <2>3 DEF RosterTyped
<1>2. ASSUME MemberFault PROVE RosterTyped'
  <2>1. roster.faults > 0 /\ roster' = [roster EXCEPT !.faults = @ - 1]
    BY <1>2 DEF MemberFault
  <2>2. roster \in [ops : SUBSET MemberOps, calls : Nat, faults : Nat]
    BY DEF RosterTyped
  <2>3. roster' \in [ops : SUBSET MemberOps, calls : Nat, faults : Nat]
    BY ONLY <2>1, <2>2
  <2> QED BY <2>3 DEF RosterTyped
<1>3. CASE UNCHANGED roster
  BY <1>3 DEF RosterTyped
<1>4. ASSUME NEW c \in Clerks,
             \/ LooksForName(c) \/ EditsMember(c) \/ DeletesUser(c) \/ HardDeletesUser(c)
             \/ VisitsPanel(c) \/ FetchesList(c)
      PROVE  RosterTyped'
  BY <1>1, <1>4
     DEF LooksForName, EditsMember, DeletesUser, HardDeletesUser, VisitsPanel, FetchesList
<1>5. ASSUME NEW c \in Clerks, RequestEnds(c) \/ EnsureMisses(c) \/ DeviceCommandFails(c)
      PROVE  RosterTyped'
  BY <1>2, <1>5 DEF RequestEnds, EnsureMisses, DeviceCommandFails
<1>6. ASSUME NEW c \in Clerks,
             \/ InsertsUser(c) \/ SavesMember(c) \/ DisablesLinks(c) \/ EnsureFinds(c)
             \/ EnsureMakes(c) \/ SignsLink(c) \/ CleansDevices(c) \/ AddsDevice(c)
             \/ CountsDevices(c)
      PROVE  RosterTyped'
  <2>1. UNCHANGED roster
    BY <1>6 DEF InsertsUser, SavesMember, DisablesLinks, EnsureFinds, EnsureMakes, SignsLink,
        CleansDevices, AddsDevice, CountsDevices
  <2> QED BY <1>3, <2>1
<1>7. CASE TickPasses \/ UNCHANGED memberVars
  BY <1>3, <1>7 DEF TickPasses, memberVars
<1> QED BY <1>4, <1>5, <1>6, <1>7 DEF MembershipNext

\* Rows that change neither their name nor to live make no name ambiguous, and another row
\* that is live gets a name no other live row has.
LEMMA NamesStep ==
    ASSUME LinkInv, NamesUnique, [MembershipNext]_memberVars PROVE NamesUnique'
<1>t. member \in [Members -> MemberRows]
  BY DEF LinkInv, TablesTyped
<1>0. \A c \in Clerks : clerk[c] \in ClerkKinds
  BY DEF LinkInv, ClerksFit
<1>1. CASE UNCHANGED member
  BY <1>1 DEF NamesUnique
<1>2. ASSUME NEW m \in Members, NEW row \in MemberRows,
             \A n \in Members \ {m} : member[n].state = "live" => member[n].name # row.name,
             member' = [member EXCEPT ![m] = row]
      PROVE  NamesUnique'
  BY <1>2, <1>t DEF NamesUnique
<1>3. ASSUME NEW m \in Members, NEW row \in MemberRows,
             member' = [member EXCEPT ![m] = row], row.state # "live"
      PROVE  NamesUnique'
  BY <1>3, <1>t DEF NamesUnique
<1>4. ASSUME NEW c \in Clerks, InsertsUser(c) PROVE NamesUnique'
  <2>1. CASE UNCHANGED member
    BY <2>1, <1>1
  <2>2. CASE member' # member
    <3> DEFINE row == [state |-> "live", name |-> clerk[c].name, by |-> clerk[c].by]
    <3>1. PICK m \in Members : member' = [member EXCEPT ![m] = row]
      BY <1>4, <2>2 DEF InsertsUser
    <3>2. row \in MemberRows /\ row.name = clerk[c].name
      BY <1>0, <1>4, ClerkReads DEF InsertsUser, MemberRows
    <3>3. \A n \in Members \ {m} : member[n].state = "live" => member[n].name # row.name
      BY <1>4, <2>2 DEF InsertsUser, LiveMembers
    <3> HIDE DEF row
    <3> QED BY <1>2, <3>1, <3>2, <3>3
  <2> QED BY <2>1, <2>2
<1>5. ASSUME NEW c \in Clerks, SavesMember(c) PROVE NamesUnique'
  <2> DEFINE m == clerk[c].who
  <2> DEFINE row == clerk[c].row
  <2>1. m \in Members /\ row \in MemberRows
    BY <1>0, <1>5, ClerkReads DEF SavesMember
  <2>2. CASE NameTaken(row.name, m)
    BY <1>1, <1>5, <2>2 DEF SavesMember
  <2>3. CASE ~NameTaken(row.name, m)
    <3>1. member' = [member EXCEPT ![m] = row]
      BY <1>5, <2>3 DEF SavesMember
    <3>2. \A n \in Members \ {m} : member[n].state = "live" => member[n].name # row.name
      BY <2>3 DEF NameTaken, LiveMembers
    <3> HIDE DEF m, row
    <3> QED BY <1>2, <2>1, <3>1, <3>2
  <2> QED BY <2>2, <2>3
<1>6. ASSUME NEW c \in Clerks, DeletesUser(c) \/ HardDeletesUser(c) PROVE NamesUnique'
  <2>1. PICK m \in Members, st \in {"deleted", "gone"} :
          member' = [member EXCEPT ![m].state = st]
    BY <1>6 DEF DeletesUser, HardDeletesUser, LiveMembers
  <2> DEFINE row == [member[m] EXCEPT !.state = st]
  <2>2. row \in MemberRows /\ row.state # "live"
    BY <1>t DEF MemberRows
  <2>3. member' = [member EXCEPT ![m] = row]
    BY <2>1
  <2> HIDE DEF row
  <2> QED BY <1>3, <2>2, <2>3
<1>7. ASSUME NEW c \in Clerks,
             \/ LooksForName(c) \/ RequestEnds(c) \/ EditsMember(c) \/ DisablesLinks(c)
             \/ VisitsPanel(c) \/ EnsureFinds(c) \/ EnsureMisses(c) \/ EnsureMakes(c)
             \/ SignsLink(c) \/ FetchesList(c) \/ CleansDevices(c) \/ AddsDevice(c)
             \/ CountsDevices(c) \/ DeviceCommandFails(c)
      PROVE  NamesUnique'
  <2>1. UNCHANGED member
    BY <1>7 DEF LooksForName, RequestEnds, EditsMember, DisablesLinks, VisitsPanel, EnsureFinds,
        EnsureMisses, EnsureMakes, SignsLink, FetchesList, CleansDevices, AddsDevice,
        CountsDevices, DeviceCommandFails
  <2> QED BY <1>1, <2>1
<1>8. CASE TickPasses \/ UNCHANGED memberVars
  BY <1>1, <1>8 DEF TickPasses, memberVars
<1> QED BY <1>4, <1>5, <1>6, <1>7, <1>8 DEF MembershipNext

\* Links are numbered as they are made.
LEMMA NumbersStep ==
    ASSUME LinkInv, LinksNumbered, [MembershipNext]_memberVars PROVE LinksNumbered'
<1>t. /\ lastLink \in Nat
      /\ links \in [Members -> SUBSET (1..lastLink)]
      /\ handed \in [Members -> SUBSET (1..lastLink)]
  BY DEF LinkInv, TablesTyped, LinksNumbered
<1>0. \A c \in Clerks : clerk[c] \in ClerkKinds
  BY DEF LinkInv, ClerksFit
<1>1. CASE UNCHANGED <<links, lastLink, handed>>
  BY <1>1 DEF LinksNumbered
<1>2. ASSUME NEW m \in Members, NEW L \in SUBSET (1..(lastLink + 1)),
             links' = [links EXCEPT ![m] = L], handed' = handed,
             lastLink' = lastLink + 1
      PROVE  LinksNumbered'
  <2>1. 1..lastLink \subseteq 1..lastLink'
    BY <1>t, <1>2
  <2>2. L \in SUBSET (1..lastLink')
    BY <1>2
  <2>3. \A n \in Members : links'[n] = (IF n = m THEN L ELSE links[n])
    BY <1>2, <1>t
  <2>4. links' \in [Members -> SUBSET (1..lastLink')]
    BY <1>2, <1>t, <2>1, <2>2, <2>3
  <2>5. handed' \in [Members -> SUBSET (1..lastLink')]
    BY <1>2, <1>t, <2>1
  <2> QED BY <2>4, <2>5 DEF LinksNumbered
<1>3. ASSUME NEW m \in Members, links' = [links EXCEPT ![m] = {}], UNCHANGED <<lastLink, handed>>
      PROVE  LinksNumbered'
  BY <1>3, <1>t DEF LinksNumbered
<1>4. ASSUME NEW c \in Clerks, InsertsUser(c) PROVE LinksNumbered'
  <2>1. handed' = handed
    BY <1>4 DEF InsertsUser
  <2>2. CASE UNCHANGED <<links, lastLink>>
    BY <1>1, <2>1, <2>2
  <2>3. ASSUME NEW m \in Members,
               links' = [links EXCEPT ![m] = FirstLinks(clerk[c].by)],
               lastLink' = lastLink + Cardinality(links'[m])
        PROVE  LinksNumbered'
    <3>1. links'[m] = FirstLinks(clerk[c].by)
      BY <1>t, <2>3
    <3>2. CASE FirstLinks(clerk[c].by) = {}
      <4>1. lastLink' = lastLink
        BY <1>t, <2>3, <3>1, <3>2, FS_EmptySet
      <4> QED BY <1>3, <2>1, <2>3, <3>2, <4>1
    <3>3. CASE FirstLinks(clerk[c].by) = {lastLink + 1}
      <4>1. Cardinality({lastLink + 1}) = 1
        BY FS_Singleton, Zenon
      <4>2. lastLink' = lastLink + 1
        BY <2>3, <3>1, <3>3, <4>1
      <4> DEFINE L == {lastLink + 1}
      <4>3. L \in SUBSET (1..(lastLink + 1)) /\ links' = [links EXCEPT ![m] = L]
        BY <1>t, <2>3, <3>3
      <4> HIDE DEF L
      <4> QED BY <1>2, <2>1, <4>2, <4>3
    <3> QED BY <3>2, <3>3 DEF FirstLinks
  <2> QED BY <1>4, <2>2, <2>3 DEF InsertsUser
<1>5. ASSUME NEW c \in Clerks, DisablesLinks(c) PROVE LinksNumbered'
  <2>1. clerk[c].who \in Members
    BY <1>0, <1>5, ClerkReads DEF DisablesLinks
  <2> QED BY <1>3, <1>5, <2>1 DEF DisablesLinks
<1>6. ASSUME NEW c \in Clerks, HardDeletesUser(c) PROVE LinksNumbered'
  <2>1. PICK m \in Members : links' = [links EXCEPT ![m] = {}]
    BY <1>6 DEF HardDeletesUser, LiveMembers
  <2> QED BY <1>3, <1>6, <2>1 DEF HardDeletesUser
<1>7. ASSUME NEW c \in Clerks, EnsureMakes(c) PROVE LinksNumbered'
  <2>1. clerk[c].who \in Members /\ handed' = handed
    BY <1>0, <1>7, ClerkReads DEF EnsureMakes
  <2>2. CASE UNCHANGED <<links, lastLink>>
    BY <1>1, <2>1, <2>2
  <2>3. CASE ~UNCHANGED <<links, lastLink>>
    <3> DEFINE m == clerk[c].who
    <3> DEFINE L == links[m] \cup {lastLink + 1}
    <3>1. lastLink' = lastLink + 1 /\ links' = [links EXCEPT ![m] = L]
      BY <1>7, <2>3 DEF EnsureMakes
    <3>2. L \in SUBSET (1..(lastLink + 1))
      <4>1. 1..lastLink \subseteq 1..(lastLink + 1) /\ lastLink + 1 \in 1..(lastLink + 1)
        BY <1>t
      <4>2. links[m] \subseteq 1..lastLink
        BY <1>t, <2>1
      <4> QED BY <4>1, <4>2
    <3> HIDE DEF m, L
    <3> QED BY <1>2, <2>1, <3>1, <3>2 DEF m
  <2> QED BY <2>2, <2>3
<1>8. ASSUME NEW c \in Clerks, SignsLink(c) PROVE LinksNumbered'
  <2>1. clerk[c].who \in Members /\ UNCHANGED <<links, lastLink>>
    BY <1>0, <1>8, ClerkReads DEF SignsLink
  <2>2. CASE handed' = handed
    BY <1>1, <2>1, <2>2
  <2>3. CASE handed' # handed
    <3>1. PICK t \in links[clerk[c].who] :
            handed' = [handed EXCEPT ![clerk[c].who] = @ \cup {t}]
      BY <1>8, <2>3 DEF SignsLink
    <3>2. t \in 1..lastLink
      BY <1>t, <2>1
    <3> QED BY <1>t, <2>1, <3>1, <3>2 DEF LinksNumbered
  <2> QED BY <2>2, <2>3
<1>9. ASSUME NEW c \in Clerks,
             \/ LooksForName(c) \/ RequestEnds(c) \/ EditsMember(c) \/ SavesMember(c)
             \/ DeletesUser(c) \/ VisitsPanel(c) \/ EnsureFinds(c) \/ EnsureMisses(c)
             \/ FetchesList(c) \/ CleansDevices(c) \/ AddsDevice(c) \/ CountsDevices(c) \/ DeviceCommandFails(c)
      PROVE  LinksNumbered'
  <2>1. UNCHANGED <<links, lastLink, handed>>
    BY <1>9 DEF linkVars, LooksForName, RequestEnds, EditsMember, SavesMember, DeletesUser,
        VisitsPanel, EnsureFinds, EnsureMisses, FetchesList, CleansDevices, AddsDevice, CountsDevices, DeviceCommandFails
  <2> QED BY <1>1, <2>1
<1>10. CASE TickPasses \/ UNCHANGED memberVars
  BY <1>1, <1>10 DEF TickPasses, memberVars, linkVars
<1> QED BY <1>4, <1>5, <1>6, <1>7, <1>8, <1>9, <1>10 DEF MembershipNext

LEMMA TickStep ==
    ASSUME tick \in 0..MaxTick, [MembershipNext]_memberVars PROVE tick' \in 0..MaxTick
<1>1. ASSUME NEW c \in Clerks,
             \/ LooksForName(c) \/ InsertsUser(c) \/ RequestEnds(c) \/ EditsMember(c)
             \/ SavesMember(c) \/ DeletesUser(c) \/ DisablesLinks(c) \/ HardDeletesUser(c)
             \/ VisitsPanel(c) \/ EnsureFinds(c) \/ EnsureMisses(c) \/ EnsureMakes(c) \/ SignsLink(c)
             \/ FetchesList(c) \/ CleansDevices(c) \/ AddsDevice(c) \/ CountsDevices(c)
             \/ DeviceCommandFails(c)
      PROVE  tick' = tick
  BY <1>1 DEF LooksForName, InsertsUser, RequestEnds, EditsMember, SavesMember, DeletesUser,
      DisablesLinks, HardDeletesUser, VisitsPanel, EnsureFinds, EnsureMisses, EnsureMakes, SignsLink,
      FetchesList, CleansDevices, AddsDevice, CountsDevices, DeviceCommandFails, deviceVars
<1>2. CASE TickPasses
  BY <1>2, MembershipAssumption DEF TickPasses
<1>3. CASE UNCHANGED memberVars
  BY <1>3 DEF memberVars
<1> QED BY <1>1, <1>2, <1>3 DEF MembershipNext

\* No two live customers share a name, links are numbered as they are made, and every other
\* variable keeps its type.
THEOREM MembersAreTyped == MembershipSpec => []MembershipTypeOK
<1>1. MembershipInit => MemberInv
  <2> SUFFICES ASSUME MembershipInit PROVE MemberInv
    OBVIOUS
  <2>1. /\ \A m \in Members : member[m].state = "none"
        /\ tick = 0
        /\ links = [m \in Members |-> {}] /\ handed = links /\ lastLink = 0
        /\ roster \in MembershipScenarios
    BY DEF MembershipInit
  <2> QED BY <2>1, MembershipAssumption DEF MemberInv, NamesUnique, LinksNumbered, RosterTyped
<1>2. LinkInv /\ MemberInv /\ [MembershipNext]_memberVars => MemberInv'
  BY NamesStep, NumbersStep, RosterStep, TickStep DEF MemberInv
<1>3. LinkInv /\ MemberInv /\ DeviceInv => MembershipTypeOK
  BY DEF LinkInv, TablesTyped, MemberInv, NamesUnique, LinksNumbered, RosterTyped, DeviceInv,
      DevicesTyped, LiveMembers, MembershipTypeOK
<1>4. LinkInv => ClerksFit
  BY DEF LinkInv
<1> QED
  BY <1>1, <1>2, <1>3, <1>4, DeviceInit, DeviceStep, LinkInit, LinkStep, PTL DEF MembershipSpec

-----------------------------------------------------------------------------
(* The office                                                              *)

\* A step of one part is none of another: whatever part a behaviour is about, it is one that
\* the specification of every part allows, so that what is proved of a part holds here.
THEOREM PartsBehave ==
    OfficeSpec => /\ TrafficSpec /\ BackupSpec /\ MonthSpec /\ UpdateSpec /\ DeploySpec
                  /\ AccountSpec /\ ReferralSpec /\ TicketSpec /\ MembershipSpec
<1>1. OfficeInit => /\ TrafficInit /\ BackupInit /\ MonthInit /\ UpdateInit /\ DeployInit
                    /\ AccountInit /\ ReferralInit /\ TicketInit /\ MembershipInit
  BY DEF OfficeInit
<1>2. [OfficeNext]_officeVars => [TrafficNext]_trafficVars
  BY DEF OfficeNext, officeVars
<1>3. [OfficeNext]_officeVars => [BackupNext]_backupVars
  BY DEF OfficeNext, officeVars
<1>4. [OfficeNext]_officeVars => [MonthNext]_monthVars
  BY DEF OfficeNext, officeVars
<1>5. [OfficeNext]_officeVars => [UpdateNext]_updateVars
  BY DEF OfficeNext, officeVars
<1>6. [OfficeNext]_officeVars => [DeployNext]_deployVars
  BY DEF OfficeNext, officeVars
<1>7. [OfficeNext]_officeVars => [AccountNext]_accountVars
  BY DEF OfficeNext, officeVars
<1>8. [OfficeNext]_officeVars => [ReferralNext]_referralVars
  BY DEF OfficeNext, officeVars
<1>9. [OfficeNext]_officeVars => [TicketNext]_ticketVars
  BY DEF OfficeNext, officeVars
<1>10. [OfficeNext]_officeVars => [MembershipNext]_memberVars
  BY DEF OfficeNext, officeVars
<1> QED
  BY <1>1, <1>2, <1>3, <1>4, <1>5, <1>6, <1>7, <1>8, <1>9, <1>10, PTL
     DEF OfficeSpec, TrafficSpec, BackupSpec, MonthSpec, UpdateSpec, DeploySpec, AccountSpec,
         ReferralSpec, TicketSpec, MembershipSpec

\* Every part keeps the types of its variables, for any nodes, processes, requests and faults.
THEOREM OfficeIsTyped == OfficeSpec => []OfficeTypeOK
<1>1. /\ TrafficTypeOK /\ BackupTypeOK /\ MonthTypeOK /\ UpdateTypeOK /\ DeployTypeOK
      /\ AccountTypeOK /\ ReferralTypeOK /\ TicketTypeOK /\ MembershipTypeOK
      => OfficeTypeOK
  BY DEF OfficeTypeOK
<1> QED
  BY <1>1, PartsBehave, TrafficIsTyped, BackupsAreTyped, MonthsAreTyped, UpdatesAreTyped,
     DeploymentsAreTyped, AccountsAreTyped, ReferralsAreTyped, TicketsAreTyped, MembersAreTyped,
     PTL
=============================================================================
