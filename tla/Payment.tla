------------------------------ MODULE Payment ------------------------------
(***************************************************************************)
(* How money collected by the EPay gateway becomes a fulfilled order:      *)
(* the checkout link (handler/order.go PayOrder), the notify callback with *)
(* its Redis claim (payment_service.go HandleNotify), and the               *)
(* reconciliation cron (cron_service.go ReconcilePendingOrders), with      *)
(* retried and concurrent callbacks, lost replies, database and Redis      *)
(* errors, and crashes of the panel.  Orders move as OrderLedger says;     *)
(* module Orders shows that the order service does implement it.           *)
(*                                                                         *)
(* A tick is one period of the two cron tickers (5 minutes).               *)
(***************************************************************************)
EXTENDS OrderLedger, FiniteSets

CONSTANTS
    Handlers,       \* callbacks the panel can be serving at the same time
    None,
    Deadline,       \* age at which a pending order expires (15 minutes)
    PendingWindow,  \* reconciliation looks at pending orders up to this age
    ExpiredWindow,  \* and at expired orders up to this one (30 after expiry)
    LastPayment,    \* bound: age at which a customer may still pay a link
    MaxNotify,      \* bound: callbacks the gateway sends for one order
    MaxFaults,      \* bound: faults in a behaviour
    Faults          \* the kinds of fault of a run

FaultKinds == {"db", "redis", "del", "reply", "query", "crash"}

ASSUME PaymentAssumption ==
    /\ None \notin Orders \cup Handlers
    /\ {Deadline, PendingWindow, ExpiredWindow, LastPayment, MaxNotify, MaxFaults} \subseteq Nat
    /\ 0 < Deadline /\ Deadline < PendingWindow /\ PendingWindow <= ExpiredWindow
    /\ Faults \subseteq FaultKinds

VARIABLES
    age,        \* age[o]: ticks since o was created, up to MaxAge
    link,       \* orders whose payment link was handed out
    collected,  \* orders the gateway reports as TRADE_SUCCESS
    acked,      \* orders whose callback was answered "success"
    sent,       \* sent[o]: callbacks sent so far
    claim,      \* orders whose Redis key epay_notify:<trade_no> exists
    handler,    \* handler[h]: the callback h is serving
    recon,      \* the reconciliation run: its phase and the orders left
    due,        \* cron jobs whose turn has come in this tick
    up,         \* the panel process is running
    faults      \* faults so far

payVars == <<status, fulfilled, age, link, collected, acked, sent, claim,
             handler, recon, due, up, faults>>

MaxAge == ExpiredWindow + 1
Jobs == {"expire", "reconcile"}

NoCallback == [at |-> "idle", order |-> None, key |-> FALSE]
NoRecon == [at |-> "idle", todo |-> {}]

\* Type correctness; what is acked or claimed was collected, and only from a link.
PayTypeOK ==
    /\ LedgerTypeOK
    /\ age \in [Orders -> 0..MaxAge]
    /\ link \subseteq Orders /\ collected \subseteq link /\ acked \subseteq collected
    /\ sent \in [Orders -> 0..MaxNotify]
    /\ claim \subseteq collected
    /\ handler \in [Handlers -> [at : {"idle", "claimed", "read"},
                                 order : Orders \cup {None}, key : BOOLEAN]]
    /\ recon \in [at : {"idle", "pending", "expired"}, todo : SUBSET Orders]
    /\ due \subseteq Jobs
    /\ up \in BOOLEAN
    /\ faults \in 0..MaxFaults

PayInit ==
    /\ LedgerInit
    /\ age = [o \in Orders |-> 0]
    /\ link = {} /\ collected = {} /\ acked = {} /\ claim = {}
    /\ sent = [o \in Orders |-> 0]
    /\ handler = [h \in Handlers |-> NoCallback]
    /\ recon = NoRecon
    /\ due = {}
    /\ up = TRUE
    /\ faults = 0

Fault(kind) ==
    /\ kind \in Faults
    /\ faults < MaxFaults
    /\ faults' = faults + 1

Serve(h, c) == handler' = [handler EXCEPT ![h] = c]

-----------------------------------------------------------------------------
(* Orders and the customer                                                 *)

CreateOrder(o) ==
    /\ up
    /\ Place(o)
    /\ UNCHANGED <<age, link, collected, acked, sent, claim, handler, recon, due, up, faults>>

CancelOrder(o) ==
    /\ up
    /\ Cancel(o)
    /\ UNCHANGED <<age, link, collected, acked, sent, claim, handler, recon, due, up, faults>>

\* PayOrder hands out a link for a pending order that is not overdue.
PayOrder(o) ==
    /\ up
    /\ status[o] = "pending" /\ age[o] < Deadline
    /\ link' = link \cup {o}
    /\ UNCHANGED <<status, fulfilled, age, collected, acked, sent, claim, handler, recon, due, up, faults>>

\* The customer pays at the gateway, which knows nothing of our deadline.
Collect(o) ==
    /\ o \in link \ collected
    /\ age[o] <= LastPayment
    /\ collected' = collected \cup {o}
    /\ UNCHANGED <<status, fulfilled, age, link, acked, sent, claim, handler, recon, due, up, faults>>

-----------------------------------------------------------------------------
(* The callback                                                            *)

\* The reply "success" reaches the gateway, which sends no more, or is lost.
ReplySuccess(o) ==
    \/ acked' = acked \cup {o} /\ UNCHANGED faults
    \/ acked' = acked /\ Fault("reply")

\* The gateway sends a callback until it is acked; its trade_status tells
\* whether the money is in.
Sends(o) ==
    /\ o \in link \ acked
    /\ sent[o] < MaxNotify
    /\ sent' = [sent EXCEPT ![o] = @ + 1]

\* HandleNotify's checks: signature, TRADE_SUCCESS, amount.
Verified(o) == o \in collected

\* A callback that fails them, or finds the panel down, changes nothing.
NotifyRejected(o) ==
    /\ Sends(o)
    /\ ~up \/ ~Verified(o)
    /\ UNCHANGED <<status, fulfilled, age, link, collected, acked, claim, handler, recon, due, up, faults>>

\* SetNX finds the key: "success" without a look at the order.
NotifyRepeated(o) ==
    /\ up
    /\ Sends(o) /\ Verified(o)
    /\ o \in claim
    /\ ReplySuccess(o)
    /\ UNCHANGED <<status, fulfilled, age, link, collected, claim, handler, recon, due, up>>

\* SetNX claims the trade.
NotifyClaim(h, o) ==
    /\ up
    /\ handler[h] = NoCallback
    /\ Sends(o) /\ Verified(o)
    /\ o \notin claim
    /\ claim' = claim \cup {o}
    /\ Serve(h, [at |-> "claimed", order |-> o, key |-> TRUE])
    /\ UNCHANGED <<status, fulfilled, age, link, collected, acked, recon, due, up, faults>>

\* SetNX fails: go on without a claim.
NotifyUnclaimed(h, o) ==
    /\ up
    /\ handler[h] = NoCallback
    /\ Sends(o) /\ Verified(o)
    /\ Fault("redis")
    /\ Serve(h, [at |-> "claimed", order |-> o, key |-> FALSE])
    /\ UNCHANGED <<status, fulfilled, age, link, collected, acked, claim, recon, due, up>>

\* PaySuccess, first read: an order that is already paid is answered at once.
PayAlready(h) ==
    LET o == handler[h].order IN
    /\ handler[h].at = "claimed"
    /\ status[o] = "paid"
    /\ Serve(h, NoCallback)
    /\ ReplySuccess(o)
    /\ UNCHANGED <<status, fulfilled, age, link, collected, sent, claim, recon, due, up>>

PayRead(h) ==
    /\ handler[h].at = "claimed"
    /\ status[handler[h].order] \in Payable
    /\ Serve(h, [handler[h] EXCEPT !.at = "read"])
    /\ UNCHANGED <<status, fulfilled, age, link, collected, acked, sent, claim, recon, due, up, faults>>

\* The WHERE clause of the UPDATE.
MatchesAny(o) == TRUE
Matches(o) == status[o] \in Payable

\* PaySuccess, transaction: fulfil, or match no row and return nil all the same.
PaySuccess(h) ==
    LET o == handler[h].order IN
    /\ handler[h].at = "read"
    /\ \/ Matches(o) /\ Become(o, "paid") /\ Grant(o)
       \/ ~Matches(o) /\ UNCHANGED <<status, fulfilled>>
    /\ Serve(h, NoCallback)
    /\ ReplySuccess(o)
    /\ UNCHANGED <<age, link, collected, sent, claim, recon, due, up>>

\* The key is deleted when PaySuccess returned an error; the DEL may fail.
ClaimsKept(h) == {claim}
ClaimsAfterError(h) ==
    IF ~handler[h].key THEN {claim}
    ELSE {claim \ {handler[h].order}} \cup {c \in {claim} : "del" \in Faults}

\* PaySuccess returns an error, the key is deleted, the reply is "fail": the
\* order is cancelled or refunded ...
PayRefused(h) ==
    /\ handler[h].at = "claimed"
    /\ status[handler[h].order] \notin Payable \cup {"paid"}
    /\ claim' \in ClaimsAfterError(h)
    /\ Serve(h, NoCallback)
    /\ UNCHANGED <<status, fulfilled, age, link, collected, acked, sent, recon, due, up, faults>>

\* ... or the database failed.
PayError(h) ==
    /\ handler[h].at \in {"claimed", "read"}
    /\ Fault("db")
    /\ claim' \in ClaimsAfterError(h)
    /\ Serve(h, NoCallback)
    /\ UNCHANGED <<status, fulfilled, age, link, collected, acked, sent, recon, due, up>>

-----------------------------------------------------------------------------
(* Cron                                                                    *)

\* ExpireOrders, one order at a time.
ExpireOrder(o) ==
    /\ up /\ "expire" \in due
    /\ age[o] >= Deadline
    /\ Expire(o)
    /\ UNCHANGED <<age, link, collected, acked, sent, claim, handler, recon, due, up, faults>>

ExpireDone ==
    /\ up /\ "expire" \in due
    /\ \A o \in Orders : status[o] = "pending" => age[o] < Deadline
    /\ due' = due \ {"expire"}
    /\ UNCHANGED <<status, fulfilled, age, link, collected, acked, sent, claim, handler, recon, up, faults>>

\* ListPendingSince and ListExpiredSince.
ListedPending(s, window) == {o \in Orders : s = "pending" /\ status[o] = s /\ age[o] <= window}
Listed(s, window) == {o \in Orders : status[o] = s /\ age[o] <= window}

ReconStart ==
    /\ up /\ "reconcile" \in due
    /\ recon = NoRecon
    /\ recon' = [at |-> "pending", todo |-> Listed("pending", PendingWindow)]
    /\ UNCHANGED <<status, fulfilled, age, link, collected, acked, sent, claim, handler, due, up, faults>>

\* The gateway is asked about an order: not paid, or the query or PaySuccess fails.
ReconSkip(o) ==
    /\ up /\ o \in recon.todo
    /\ \/ o \notin collected /\ UNCHANGED faults
       \/ Fault("query")
    /\ recon' = [recon EXCEPT !.todo = @ \ {o}]
    /\ UNCHANGED <<status, fulfilled, age, link, collected, acked, sent, claim, handler, due, up>>

\* TRADE_SUCCESS: PaySuccess.
ReconPay(o) ==
    /\ up /\ o \in recon.todo
    /\ o \in collected
    /\ \/ Matches(o) /\ Become(o, "paid") /\ Grant(o)
       \/ ~Matches(o) /\ UNCHANGED <<status, fulfilled>>
    /\ recon' = [recon EXCEPT !.todo = @ \ {o}]
    /\ UNCHANGED <<age, link, collected, acked, sent, claim, handler, due, up, faults>>

\* The second half of a run lists the expired orders.
ReconExpired ==
    /\ up /\ recon.at = "pending" /\ recon.todo = {}
    /\ recon' = [at |-> "expired", todo |-> Listed("expired", ExpiredWindow)]
    /\ UNCHANGED <<status, fulfilled, age, link, collected, acked, sent, claim, handler, due, up, faults>>

ReconDone ==
    /\ up /\ recon.at = "expired" /\ recon.todo = {}
    /\ recon' = NoRecon
    /\ due' = due \ {"reconcile"}
    /\ UNCHANGED <<status, fulfilled, age, link, collected, acked, sent, claim, handler, up, faults>>

-----------------------------------------------------------------------------
(* Time, crash, restart                                                    *)

\* A running panel does its cron jobs of a tick before the next one; an outage
\* that lasts over a tick costs one more fault.
Tick ==
    /\ due = {}
    /\ \E o \in Orders : status[o] # "absent" /\ age[o] < MaxAge
    /\ age' = [o \in Orders |-> IF status[o] # "absent" /\ age[o] < MaxAge
                                THEN age[o] + 1 ELSE age[o]]
    /\ IF up THEN due' = Jobs /\ UNCHANGED faults
             ELSE due' = {} /\ Fault("crash")
    /\ UNCHANGED <<status, fulfilled, link, collected, acked, sent, claim, handler, recon, up>>

\* Everything in memory is gone, the rest of the tick's jobs with it; the Redis
\* keys live on for 7 days.
Crash ==
    /\ up
    /\ Fault("crash")
    /\ up' = FALSE
    /\ handler' = [h \in Handlers |-> NoCallback]
    /\ recon' = NoRecon
    /\ due' = {}
    /\ UNCHANGED <<status, fulfilled, age, link, collected, acked, sent, claim>>

Restart ==
    /\ ~up
    /\ up' = TRUE
    /\ UNCHANGED <<status, fulfilled, age, link, collected, acked, sent, claim, handler, recon, due, faults>>

-----------------------------------------------------------------------------
HandlerStep(h) == PayAlready(h) \/ PayRead(h) \/ PaySuccess(h) \/ PayRefused(h)

ReconStep ==
    \/ ReconStart \/ ReconExpired \/ ReconDone
    \/ \E o \in Orders : ReconSkip(o) \/ ReconPay(o)

PayNext ==
    \/ \E o \in Orders : \/ CreateOrder(o) \/ CancelOrder(o) \/ PayOrder(o) \/ Collect(o)
                         \/ NotifyRepeated(o) \/ NotifyRejected(o) \/ ExpireOrder(o)
    \/ \E h \in Handlers, o \in Orders : NotifyClaim(h, o) \/ NotifyUnclaimed(h, o)
    \/ \E h \in Handlers : HandlerStep(h) \/ PayError(h)
    \/ ExpireDone \/ ReconStep \/ Tick \/ Crash \/ Restart

PaySpec == PayInit /\ [][PayNext]_payVars

\* The panel goes on with what it serves, its tickers fire, time passes and an
\* outage ends.  Nothing is assumed of the customer or of the gateway: callbacks
\* may never come.
PayFairSpec ==
    /\ PaySpec
    /\ \A h \in Handlers : WF_payVars(HandlerStep(h))
    /\ \A o \in Orders : WF_payVars(ExpireOrder(o))
    /\ WF_payVars(ExpireDone) /\ WF_payVars(ReconStep)
    /\ WF_payVars(Tick) /\ WF_payVars(Restart)

-----------------------------------------------------------------------------
(* Correctness                                                             *)

Serving(o) == \E h \in Handlers : handler[h].order = o

\* Callbacks racing each other, with or without a claim, and reconciliation
\* racing them, grant an order once and only for collected money (P0-F1, P0-F5).
GrantedOnceForMoney ==
    /\ GrantedExactlyWhenPaid
    /\ \A o \in Orders : fulfilled[o] > 0 => o \in collected

\* As long as the process does not die, a claim without a callback being served
\* never blocks an order that still waits for its money: HandleNotify deletes the
\* key of every failed attempt, so the gateway's retry gets through.
ClaimNeverStrands ==
    \A o \in Orders : o \in claim /\ ~Serving(o) => status[o] \notin Payable

\* Money collected within the reconciliation windows is granted unless the
\* customer cancelled, although every callback may be lost, fail, or be answered
\* "success" by a duplicate, and although the panel may crash: the cron covers it.
CollectedIsGranted ==
    \A o \in Orders : o \in collected ~> status[o] \in {"paid", "cancelled"}

=============================================================================
