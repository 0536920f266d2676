------------------------------ MODULE Referral ------------------------------
(***************************************************************************)
(* One invited customer: invitation code, binding and the reward for the   *)
(* first order that is paid, which PaySuccess gives in the transaction of  *)
(* the payment.  Binding counts the paid orders outside its transaction.   *)
(* Rows are read with FOR UPDATE: the users row for the plan, then the     *)
(* referrals row for the reward.  Amounts are left out: an order is worth  *)
(* a reward or not.                                                        *)
(***************************************************************************)
EXTENDS Integers, Sequences, SequencesExt

CONSTANTS
    Bills,              \* orders of the invited customer
    Clients,            \* requests for a code or to bind one that run at a time
    NoBill,
    ReferralScenarios   \* bound: operations of a behaviour, how many, faults

ReferralOps == {"code", "bind", "free", "refund", "switch", "cheap"}

ASSUME ReferralAssumption ==
    /\ NoBill \notin Bills
    /\ ReferralScenarios \subseteq [ops : SUBSET ReferralOps, calls : Nat, faults : Nat]

VARIABLES
    bill,        \* status of each order
    paying,      \* paying[b]: the transaction of PaySuccess for b
    userRow,     \* the payment that has locked the users row of the customer
    referral,    \* status of the referrals row, "none" while there is none
    rewards,     \* orders of the referral_rewards rows, in their order
    client,      \* client[c]: a request of the inviter or of the customer
    inviteCode,  \* users.invite_code of the inviter, 0 for NULL
    shown,       \* codes that were answered, history only
    enabled,     \* referral_enabled
    billSheet    \* what may still happen

referralVars == <<bill, paying, userRow, referral, rewards, client, inviteCode, shown,
                  enabled, billSheet>>

PayingStages == {"no", "granting", "rewarding", "rewarded", "plain"}
ClientStages == {"idle", "noCode", "mayBind"}

ReferralTypeOK ==
    /\ bill \in [Bills -> {"pending", "paid", "refunded"}]
    /\ paying \in [Bills -> PayingStages]
    /\ userRow \in Bills \cup {NoBill}
    /\ referral \in {"none", "pending", "completed"}
    /\ rewards \in Seq(Bills)
    /\ client \in [Clients -> ClientStages]
    /\ inviteCode \in Nat /\ shown \subseteq Nat
    /\ enabled \in BOOLEAN
    /\ billSheet \in [ops : SUBSET ReferralOps, calls : Nat, faults : Nat]

ReferralInit ==
    /\ bill = [b \in Bills |-> "pending"]
    /\ paying = [b \in Bills |-> "no"]
    /\ userRow = NoBill
    /\ referral = "none" /\ rewards = <<>>
    /\ client = [c \in Clients |-> "idle"]
    /\ inviteCode = 0 /\ shown = {}
    /\ enabled = TRUE
    /\ billSheet \in ReferralScenarios

Asked(op) ==
    /\ op \in billSheet.ops /\ billSheet.calls > 0
    /\ billSheet' = [billSheet EXCEPT !.calls = @ - 1]

PaidBut(b) == {o \in Bills \ {b} : bill[o] = "paid"}
codeVars == <<inviteCode, shown>>

-----------------------------------------------------------------------------
(* PaySuccess with HandleOrderPaid                                         *)

\* The conditional update locks the order's row: one transaction an order.
PayOrderBegins(b) ==
    /\ bill[b] = "pending" /\ paying[b] = "no"
    /\ paying' = [paying EXCEPT ![b] = "granting"]
    /\ UNCHANGED <<bill, userRow, referral, rewards, client, codeVars, enabled, billSheet>>

\* setUserPlan reads the users row FOR UPDATE.
PayGrants(b) ==
    /\ paying[b] = "granting" /\ userRow = NoBill
    /\ userRow' = b
    /\ paying' = [paying EXCEPT ![b] = "rewarding"]
    /\ UNCHANGED <<bill, referral, rewards, client, codeVars, enabled, billSheet>>

\* The referral is looked at again under its lock: it has to be without a reward ...
AnyReferral == referral # "none"
OpenReferral == referral = "pending"

\* ... and no other order may be paid.
FirstAlways(b) == TRUE
FirstPaid(b) == PaidBut(b) = {}

\* A reward of less than a cent is none.
HandleOrderPaid(b) ==
    /\ paying[b] = "rewarding"
    /\ IF enabled /\ OpenReferral /\ FirstPaid(b)
         THEN \/ paying' = [paying EXCEPT ![b] = "rewarded"]
              \/ "cheap" \in billSheet.ops /\ paying' = [paying EXCEPT ![b] = "plain"]
         ELSE paying' = [paying EXCEPT ![b] = "plain"]
    /\ UNCHANGED <<bill, userRow, referral, rewards, client, codeVars, enabled, billSheet>>

\* CompleteTx changes nothing when the referral is completed, and is no error then.
PayCommits(b) ==
    /\ paying[b] \in {"rewarded", "plain"}
    /\ bill' = [bill EXCEPT ![b] = "paid"]
    /\ IF paying[b] = "rewarded"
         THEN referral' = "completed" /\ rewards' = Append(rewards, b)
         ELSE UNCHANGED <<referral, rewards>>
    /\ paying' = [paying EXCEPT ![b] = "no"]
    /\ userRow' = NoBill
    /\ UNCHANGED <<client, codeVars, enabled, billSheet>>

\* A statement fails or the process dies.  A failure in HandleOrderPaid is only logged, but
\* PostgreSQL has aborted the transaction: the order stays pending until the next callback.
PayRollsBack(b) ==
    /\ paying[b] # "no" /\ billSheet.faults > 0
    /\ billSheet' = [billSheet EXCEPT !.faults = @ - 1]
    /\ paying' = [paying EXCEPT ![b] = "no"]
    /\ userRow' = IF userRow = b THEN NoBill ELSE userRow
    /\ UNCHANGED <<bill, referral, rewards, client, codeVars, enabled>>

\* AdminMarkPaid and free orders grant the plan and leave the referral alone.
PaidWithoutReward(b) ==
    /\ Asked("free")
    /\ bill[b] = "pending" /\ paying[b] = "no" /\ userRow = NoBill
    /\ bill' = [bill EXCEPT ![b] = "paid"]
    /\ UNCHANGED <<paying, userRow, referral, rewards, client, codeVars, enabled>>

\* AdminRefund leaves referral and reward as they are.
RefundOrder(b) ==
    /\ Asked("refund")
    /\ bill[b] = "paid" /\ userRow = NoBill
    /\ bill' = [bill EXCEPT ![b] = "refunded"]
    /\ UNCHANGED <<paying, userRow, referral, rewards, client, codeVars, enabled>>

-----------------------------------------------------------------------------
(* Code, binding, switch                                                   *)

\* GetOrCreateInviteCode: a code that is there is answered, otherwise one is made up.
GetInviteCode(c) ==
    /\ Asked("code")
    /\ client[c] = "idle"
    /\ IF inviteCode # 0 THEN shown' = shown \cup {inviteCode} /\ UNCHANGED client
       ELSE client' = [client EXCEPT ![c] = "noCode"] /\ UNCHANGED shown
    /\ UNCHANGED <<bill, paying, userRow, referral, rewards, inviteCode, enabled>>

\* UpdateInviteCode overwrites a code that another request has set meanwhile.
UpdateInviteCode(c) ==
    /\ client[c] = "noCode"
    /\ inviteCode' = inviteCode + 1
    /\ shown' = shown \cup {inviteCode'}
    /\ client' = [client EXCEPT ![c] = "idle"]
    /\ UNCHANGED <<bill, paying, userRow, referral, rewards, enabled, billSheet>>

\* BindInviter: switched on, the code is somebody's, and no order is paid yet.
BindChecks(c) ==
    /\ Asked("bind")
    /\ client[c] = "idle"
    /\ enabled /\ inviteCode \in shown /\ \A b \in Bills : bill[b] # "paid"
    /\ client' = [client EXCEPT ![c] = "mayBind"]
    /\ UNCHANGED <<bill, paying, userRow, referral, rewards, codeVars, enabled>>

\* The transaction: invitee_id is unique, the second request fails.
BindInviter(c) ==
    /\ client[c] = "mayBind"
    /\ client' = [client EXCEPT ![c] = "idle"]
    /\ referral' = IF referral = "none" THEN "pending" ELSE referral
    /\ UNCHANGED <<bill, paying, userRow, rewards, codeVars, enabled, billSheet>>

SetReferralConfig ==
    /\ Asked("switch")
    /\ enabled' = ~enabled
    /\ UNCHANGED <<bill, paying, userRow, referral, rewards, client, codeVars>>

ReferralNext ==
    \/ \E b \in Bills :
         \/ PayOrderBegins(b) \/ PayGrants(b) \/ HandleOrderPaid(b) \/ PayCommits(b)
         \/ PayRollsBack(b) \/ PaidWithoutReward(b) \/ RefundOrder(b)
    \/ \E c \in Clients :
         \/ GetInviteCode(c) \/ UpdateInviteCode(c) \/ BindChecks(c) \/ BindInviter(c)
    \/ SetReferralConfig

ReferralSpec == ReferralInit /\ [][ReferralNext]_referralVars

-----------------------------------------------------------------------------
(* Correctness                                                             *)

\* An invitation is rewarded once, whatever is refunded and paid again, and it is completed
\* exactly if the reward was booked.
RewardedOnce ==
    /\ Len(rewards) <= 1
    /\ referral = "completed" <=> rewards # <<>>

\* The order that brings the reward is the only paid one at that moment, also when the
\* customer binds a code while a first payment is under way.
OnlyFirstOrderRewarded ==
    [][rewards' # rewards =>
          \A b \in Bills : bill'[b] = "paid" <=> b = Last(rewards')]_referralVars
=============================================================================
