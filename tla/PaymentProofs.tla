--------------------------- MODULE PaymentProofs ---------------------------
(***************************************************************************)
(* Proofs about Payment for any orders, deadlines, windows and faults.     *)
(***************************************************************************)
EXTENDS Payment

\* A callback is served only for a trade that was verified.
HandlersServeMoney == \A h \in Handlers : handler[h].at # "idle" => handler[h].order \in collected

GrantsHaveMoney == \A o \in Orders : fulfilled[o] > 0 => o \in collected

PayTypeInv == PayTypeOK /\ HandlersServeMoney

Callback == [at : {"idle", "claimed", "read"}, order : Orders \cup {None}, key : BOOLEAN]

-----------------------------------------------------------------------------
(* The order's side of a step                                              *)

\* Serving a callback reads and writes an order of the shop.
LEMMA ServedOrder ==
    ASSUME PayTypeInv, NEW h \in Handlers, handler[h].at # "idle"
    PROVE  handler[h].order \in Orders /\ handler[h].order \in collected
BY DEF PayTypeInv, PayTypeOK, HandlersServeMoney

\* Every step of the payment subsystem is a step of the ledger or none: what crons,
\* callbacks, faults and crashes do to orders is what the ledger allows.
LEMMA LedgerStep ==
    ASSUME PayTypeInv, [PayNext]_payVars
    PROVE  [LedgerNext]_ledgerVars
<1> USE DEF ledgerVars
<1>1. ASSUME NEW o \in Orders, CreateOrder(o) \/ CancelOrder(o) \/ ExpireOrder(o)
      PROVE  LedgerNext
  BY <1>1 DEF CreateOrder, CancelOrder, ExpireOrder, LedgerNext
<1>2. ASSUME NEW h \in Handlers, PaySuccess(h) PROVE [LedgerNext]_ledgerVars
  <2>1. handler[h].order \in Orders
    BY <1>2, ServedOrder DEF PaySuccess
  <2>2. CASE Matches(handler[h].order)
    <3>1. Pay(handler[h].order)
      BY <1>2, <2>2 DEF PaySuccess, Matches, Pay
    <3> QED BY <2>1, <3>1 DEF LedgerNext
  <2>3. CASE ~Matches(handler[h].order)
    BY <1>2, <2>3 DEF PaySuccess
  <2> QED BY <2>2, <2>3
<1>3. ASSUME NEW o \in Orders, ReconPay(o) PROVE [LedgerNext]_ledgerVars
  <2>1. CASE Matches(o)
    <3>1. Pay(o)
      BY <1>3, <2>1 DEF ReconPay, Matches, Pay
    <3> QED BY <3>1 DEF LedgerNext
  <2>2. CASE ~Matches(o)
    BY <1>3, <2>2 DEF ReconPay
  <2> QED BY <2>1, <2>2
<1>4. ASSUME NEW o \in Orders,
             PayOrder(o) \/ Collect(o) \/ NotifyRepeated(o) \/ NotifyRejected(o) \/ ReconSkip(o)
      PROVE  UNCHANGED ledgerVars
  BY <1>4 DEF PayOrder, Collect, NotifyRepeated, NotifyRejected, ReconSkip
<1>5. ASSUME NEW h \in Handlers, NEW o \in Orders, NotifyClaim(h, o) \/ NotifyUnclaimed(h, o)
      PROVE  UNCHANGED ledgerVars
  BY <1>5 DEF NotifyClaim, NotifyUnclaimed
<1>6. ASSUME NEW h \in Handlers, PayAlready(h) \/ PayRead(h) \/ PayRefused(h) \/ PayError(h)
      PROVE  UNCHANGED ledgerVars
  BY <1>6 DEF PayAlready, PayRead, PayRefused, PayError
<1>7. CASE ExpireDone \/ ReconStart \/ ReconExpired \/ ReconDone
  BY <1>7 DEF ExpireDone, ReconStart, ReconExpired, ReconDone
<1>8. CASE Tick \/ Crash \/ Restart \/ UNCHANGED payVars
  BY <1>8 DEF Tick, Crash, Restart, payVars
<1> QED BY <1>1, <1>2, <1>3, <1>4, <1>5, <1>6, <1>7, <1>8 DEF PayNext, HandlerStep, ReconStep

-----------------------------------------------------------------------------
(* Types                                                                   *)

LEMMA LedgerTyped ==
    ASSUME LedgerTypeOK, [LedgerNext]_ledgerVars
    PROVE  LedgerTypeOK'
<1> USE DEF LedgerTypeOK, Become, Grant
<1>1. ASSUME NEW o \in Orders, Place(o) \/ PlaceFree(o) \/ Pay(o) \/ Cancel(o) \/ Expire(o) \/ Refund(o)
      PROVE  LedgerTypeOK'
  <2>1. {"pending", "paid", "cancelled", "expired", "refunded"} \subseteq Status
    BY DEF Status
  <2> QED BY <1>1, <2>1 DEF Place, PlaceFree, Pay, Cancel, Expire, Refund
<1>2. CASE UNCHANGED ledgerVars
  BY <1>2 DEF ledgerVars
<1> QED BY <1>1, <1>2 DEF LedgerNext

\* Going on with a callback, or dropping it.
LEMMA ServeTyped ==
    ASSUME PayTypeInv, NEW h \in Handlers, NEW c \in Callback, Serve(h, c),
           c.at # "idle" => c.order \in collected', collected \subseteq collected'
    PROVE  handler' \in [Handlers -> Callback] /\ HandlersServeMoney'
BY DEF PayTypeInv, PayTypeOK, Callback, Serve, HandlersServeMoney

LEMMA NoCallbackTyped == NoCallback \in Callback
BY DEF NoCallback, Callback

\* The conjuncts of PayTypeOK but the orders'.
MoneyTyped ==
    /\ link \subseteq Orders /\ collected \subseteq link /\ acked \subseteq collected
    /\ claim \subseteq collected
HandlersTyped == handler \in [Handlers -> Callback] /\ HandlersServeMoney
ClockTyped == age \in [Orders -> 0..MaxAge] /\ due \subseteq Jobs
ReconTyped == recon \in [at : {"idle", "pending", "expired"}, todo : SUBSET Orders]
CountsTyped == sent \in [Orders -> 0..MaxNotify] /\ faults \in 0..MaxFaults /\ up \in BOOLEAN

LEMMA PayTypeSplit ==
    PayTypeInv <=> /\ LedgerTypeOK /\ MoneyTyped /\ HandlersTyped /\ ClockTyped
                   /\ ReconTyped /\ CountsTyped
BY Zenon DEF PayTypeInv, PayTypeOK, MoneyTyped, HandlersTyped, ClockTyped, ReconTyped,
      CountsTyped, Callback

LEMMA FaultTyped == ASSUME faults \in 0..MaxFaults, NEW k, Fault(k) PROVE faults' \in 0..MaxFaults
BY PaymentAssumption DEF Fault

\* A successful answer is recorded only for collected money.
LEMMA ReplyTyped ==
    ASSUME MoneyTyped, NEW o \in collected, ReplySuccess(o), UNCHANGED <<link, collected, claim>>
    PROVE  MoneyTyped'
BY DEF MoneyTyped, ReplySuccess

LEMMA MoneyStep ==
    ASSUME PayTypeInv, [PayNext]_payVars
    PROVE  MoneyTyped'
<1>1. MoneyTyped
  BY PayTypeSplit
<1>2. ASSUME NEW o \in Orders, PayOrder(o) \/ Collect(o) PROVE MoneyTyped'
  BY <1>1, <1>2 DEF PayOrder, Collect, MoneyTyped
<1>3. ASSUME NEW o \in Orders, NotifyRepeated(o) PROVE MoneyTyped'
  BY <1>1, <1>3, ReplyTyped DEF NotifyRepeated, Verified
<1>4. ASSUME NEW h \in Handlers, PayAlready(h) \/ PaySuccess(h) PROVE MoneyTyped'
  <2>1. handler[h].order \in collected
    BY <1>4, ServedOrder DEF PayAlready, PaySuccess
  <2> QED BY <1>1, <1>4, <2>1, ReplyTyped DEF PayAlready, PaySuccess
<1>5. ASSUME NEW h \in Handlers, NEW o \in Orders, NotifyClaim(h, o) \/ NotifyUnclaimed(h, o)
      PROVE  MoneyTyped'
  BY <1>1, <1>5 DEF NotifyClaim, NotifyUnclaimed, Verified, MoneyTyped
<1>6. ASSUME NEW h \in Handlers, PayRefused(h) \/ PayError(h) PROVE MoneyTyped'
  <2>1. \A c \in ClaimsAfterError(h) : c \subseteq claim
    BY DEF ClaimsAfterError
  <2> QED BY <1>1, <1>6, <2>1 DEF PayRefused, PayError, MoneyTyped
<1>7. ASSUME UNCHANGED <<link, collected, acked, claim>> PROVE MoneyTyped'
  BY <1>1, <1>7 DEF MoneyTyped
<1>8. ASSUME NEW o \in Orders,
             \/ CreateOrder(o) \/ CancelOrder(o) \/ ExpireOrder(o) \/ NotifyRejected(o)
             \/ ReconSkip(o) \/ ReconPay(o)
      PROVE  MoneyTyped'
  BY <1>7, <1>8 DEF CreateOrder, CancelOrder, ExpireOrder, NotifyRejected, ReconSkip, ReconPay
<1>9. ASSUME NEW h \in Handlers, PayRead(h) PROVE MoneyTyped'
  BY <1>7, <1>9 DEF PayRead
<1>10. CASE \/ ExpireDone \/ ReconStart \/ ReconExpired \/ ReconDone
            \/ Tick \/ Crash \/ Restart \/ UNCHANGED payVars
  BY <1>7, <1>10 DEF ExpireDone, ReconStart, ReconExpired, ReconDone, Tick, Crash, Restart,
      payVars
<1> QED BY <1>2, <1>3, <1>4, <1>5, <1>6, <1>8, <1>9, <1>10 DEF PayNext, HandlerStep, ReconStep

LEMMA HandlersStep ==
    ASSUME PayTypeInv, [PayNext]_payVars
    PROVE  HandlersTyped'
<1>1. HandlersTyped /\ MoneyTyped
  BY PayTypeSplit
<1>2. ASSUME UNCHANGED handler, collected \subseteq collected' PROVE HandlersTyped'
  BY <1>1, <1>2 DEF HandlersTyped, HandlersServeMoney
<1>3. ASSUME NEW h \in Handlers, NEW o \in Orders, NotifyClaim(h, o) \/ NotifyUnclaimed(h, o)
      PROVE  HandlersTyped'
  <2>1. \A k \in BOOLEAN : [at |-> "claimed", order |-> o, key |-> k] \in Callback
    BY DEF Callback
  <2> QED BY <1>3, <2>1, ServeTyped DEF NotifyClaim, NotifyUnclaimed, Verified, HandlersTyped
<1>4. ASSUME NEW h \in Handlers, PayRead(h) PROVE HandlersTyped'
  <2> DEFINE c == [handler[h] EXCEPT !.at = "read"]
  <2>1. handler[h] \in Callback /\ handler[h].order \in collected
    BY <1>1, <1>4, ServedOrder DEF PayRead, HandlersTyped
  <2>2. c \in Callback /\ c.order \in collected
    BY <2>1 DEF Callback
  <2>3. Serve(h, c) /\ collected' = collected
    BY <1>4 DEF PayRead
  <2> HIDE DEF c
  <2> QED BY <2>2, <2>3, ServeTyped DEF HandlersTyped
<1>5. ASSUME NEW h \in Handlers,
             PayAlready(h) \/ PaySuccess(h) \/ PayRefused(h) \/ PayError(h)
      PROVE  HandlersTyped'
  <2>1. Serve(h, NoCallback) /\ collected' = collected
    BY <1>5 DEF PayAlready, PaySuccess, PayRefused, PayError
  <2>2. NoCallback.at = "idle"
    BY DEF NoCallback
  <2> QED BY <2>1, <2>2, NoCallbackTyped, ServeTyped DEF HandlersTyped
<1>6. ASSUME NEW o \in Orders,
             \/ CreateOrder(o) \/ CancelOrder(o) \/ ExpireOrder(o) \/ PayOrder(o) \/ Collect(o)
             \/ NotifyRepeated(o) \/ NotifyRejected(o) \/ ReconSkip(o) \/ ReconPay(o)
      PROVE  HandlersTyped'
  BY <1>2, <1>6 DEF CreateOrder, CancelOrder, ExpireOrder, PayOrder, Collect, NotifyRepeated,
      NotifyRejected, ReconSkip, ReconPay
<1>7. CASE \/ ExpireDone \/ ReconStart \/ ReconExpired \/ ReconDone
           \/ Tick \/ Restart \/ UNCHANGED payVars
  BY <1>2, <1>7 DEF ExpireDone, ReconStart, ReconExpired, ReconDone, Tick, Restart, payVars
<1>8. CASE Crash
  BY <1>8, NoCallbackTyped DEF Crash, HandlersTyped, HandlersServeMoney, NoCallback
<1> QED BY <1>3, <1>4, <1>5, <1>6, <1>7, <1>8 DEF PayNext, HandlerStep, ReconStep

LEMMA ClockStep ==
    ASSUME PayTypeInv, [PayNext]_payVars
    PROVE  ClockTyped'
<1>1. ClockTyped /\ MaxAge \in Nat
  BY PayTypeSplit, PaymentAssumption DEF MaxAge
<1>2. CASE Tick
  <2>1. \A o \in Orders : age[o] \in 0..MaxAge
    BY <1>1 DEF ClockTyped
  <2>2. \A o \in Orders :
          (IF status[o] # "absent" /\ age[o] < MaxAge THEN age[o] + 1 ELSE age[o]) \in 0..MaxAge
    BY <1>1, <2>1
  <2>3. age' \in [Orders -> 0..MaxAge]
    BY <1>2, <2>2 DEF Tick
  <2> QED BY <1>2, <2>3 DEF Tick, ClockTyped
<1>3. ASSUME UNCHANGED age, due' \subseteq due PROVE ClockTyped'
  BY <1>1, <1>3 DEF ClockTyped
<1>4. ASSUME NEW o \in Orders,
             \/ CreateOrder(o) \/ CancelOrder(o) \/ ExpireOrder(o) \/ PayOrder(o) \/ Collect(o)
             \/ NotifyRepeated(o) \/ NotifyRejected(o) \/ ReconSkip(o) \/ ReconPay(o)
      PROVE  ClockTyped'
  BY <1>3, <1>4 DEF CreateOrder, CancelOrder, ExpireOrder, PayOrder, Collect, NotifyRepeated,
      NotifyRejected, ReconSkip, ReconPay
<1>5. ASSUME NEW h \in Handlers, NEW o \in Orders, NotifyClaim(h, o) \/ NotifyUnclaimed(h, o)
      PROVE  ClockTyped'
  BY <1>3, <1>5 DEF NotifyClaim, NotifyUnclaimed
<1>6. ASSUME NEW h \in Handlers,
             PayAlready(h) \/ PayRead(h) \/ PaySuccess(h) \/ PayRefused(h) \/ PayError(h)
      PROVE  ClockTyped'
  BY <1>3, <1>6 DEF PayAlready, PayRead, PaySuccess, PayRefused, PayError
<1>7. CASE ExpireDone \/ ReconStart \/ ReconExpired \/ ReconDone \/ Crash \/ Restart
           \/ UNCHANGED payVars
  BY <1>3, <1>7 DEF ExpireDone, ReconStart, ReconExpired, ReconDone, Crash, Restart, payVars
<1> QED BY <1>2, <1>4, <1>5, <1>6, <1>7 DEF PayNext, HandlerStep, ReconStep

LEMMA ReconTypedStep ==
    ASSUME PayTypeInv, [PayNext]_payVars
    PROVE  ReconTyped'
<1>1. ReconTyped
  BY PayTypeSplit
<1>2. \A s, w : Listed(s, w) \subseteq Orders
  BY DEF Listed
<1>3. CASE ReconStart \/ ReconExpired
  BY <1>2, <1>3 DEF ReconStart, ReconExpired, ReconTyped
<1>4. CASE ReconDone \/ Crash
  BY <1>4 DEF ReconDone, Crash, NoRecon, ReconTyped
<1>5. ASSUME NEW o \in Orders, ReconSkip(o) \/ ReconPay(o) PROVE ReconTyped'
  BY <1>1, <1>5 DEF ReconSkip, ReconPay, ReconTyped
<1>6. ASSUME UNCHANGED recon PROVE ReconTyped'
  BY <1>1, <1>6 DEF ReconTyped
<1>7. ASSUME NEW o \in Orders,
             \/ CreateOrder(o) \/ CancelOrder(o) \/ ExpireOrder(o) \/ PayOrder(o) \/ Collect(o)
             \/ NotifyRepeated(o) \/ NotifyRejected(o)
      PROVE  ReconTyped'
  BY <1>6, <1>7 DEF CreateOrder, CancelOrder, ExpireOrder, PayOrder, Collect, NotifyRepeated,
      NotifyRejected
<1>8. ASSUME NEW h \in Handlers, NEW o \in Orders, NotifyClaim(h, o) \/ NotifyUnclaimed(h, o)
      PROVE  ReconTyped'
  BY <1>6, <1>8 DEF NotifyClaim, NotifyUnclaimed
<1>9. ASSUME NEW h \in Handlers,
             PayAlready(h) \/ PayRead(h) \/ PaySuccess(h) \/ PayRefused(h) \/ PayError(h)
      PROVE  ReconTyped'
  BY <1>6, <1>9 DEF PayAlready, PayRead, PaySuccess, PayRefused, PayError
<1>10. CASE ExpireDone \/ Tick \/ Restart \/ UNCHANGED payVars
  BY <1>6, <1>10 DEF ExpireDone, Tick, Restart, payVars
<1> QED BY <1>3, <1>4, <1>5, <1>7, <1>8, <1>9, <1>10 DEF PayNext, HandlerStep, ReconStep

LEMMA CountsStep ==
    ASSUME PayTypeInv, [PayNext]_payVars
    PROVE  CountsTyped'
<1>1. CountsTyped
  BY PayTypeSplit
<1> DEFINE Faulty == faults' = faults \/ \E k \in FaultKinds : Fault(k)
<1>2. ASSUME sent' = sent, up' = up \/ up' \in BOOLEAN, Faulty PROVE CountsTyped'
  BY <1>1, <1>2, FaultTyped DEF CountsTyped
<1>3. ASSUME NEW o \in Orders, Sends(o), up' = up, Faulty PROVE CountsTyped'
  <2>1. sent' \in [Orders -> 0..MaxNotify]
    BY <1>1, <1>3, PaymentAssumption DEF Sends, CountsTyped
  <2> QED BY <1>1, <1>3, <2>1, FaultTyped DEF CountsTyped
<1>4. ASSUME NEW o \in Orders, NotifyRepeated(o) \/ NotifyRejected(o) PROVE CountsTyped'
  <2>1. Faulty
    BY <1>4 DEF NotifyRepeated, NotifyRejected, ReplySuccess, FaultKinds
  <2> HIDE DEF Faulty
  <2> QED BY <1>3, <1>4, <2>1 DEF NotifyRepeated, NotifyRejected
<1>5. ASSUME NEW h \in Handlers, NEW o \in Orders, NotifyClaim(h, o) \/ NotifyUnclaimed(h, o)
      PROVE  CountsTyped'
  <2>1. Faulty
    BY <1>5 DEF NotifyClaim, NotifyUnclaimed, FaultKinds
  <2> HIDE DEF Faulty
  <2> QED BY <1>3, <1>5, <2>1 DEF NotifyClaim, NotifyUnclaimed
<1>6. ASSUME NEW h \in Handlers,
             PayAlready(h) \/ PayRead(h) \/ PaySuccess(h) \/ PayRefused(h) \/ PayError(h)
      PROVE  CountsTyped'
  <2>1. Faulty
    BY <1>6 DEF PayAlready, PayRead, PaySuccess, PayRefused, PayError, ReplySuccess, FaultKinds
  <2> HIDE DEF Faulty
  <2> QED BY <1>2, <1>6, <2>1 DEF PayAlready, PayRead, PaySuccess, PayRefused, PayError
<1>7. ASSUME NEW o \in Orders,
             \/ CreateOrder(o) \/ CancelOrder(o) \/ ExpireOrder(o) \/ PayOrder(o) \/ Collect(o)
             \/ ReconSkip(o) \/ ReconPay(o)
      PROVE  CountsTyped'
  <2>1. Faulty
    BY <1>7 DEF CreateOrder, CancelOrder, ExpireOrder, PayOrder, Collect, ReconSkip, ReconPay,
        FaultKinds
  <2> HIDE DEF Faulty
  <2> QED BY <1>2, <1>7, <2>1 DEF CreateOrder, CancelOrder, ExpireOrder, PayOrder, Collect,
        ReconSkip, ReconPay
<1>8. CASE ExpireDone \/ ReconStart \/ ReconExpired \/ ReconDone \/ UNCHANGED payVars
  BY <1>2, <1>8 DEF ExpireDone, ReconStart, ReconExpired, ReconDone, payVars
<1>9. CASE Tick \/ Crash \/ Restart
  <2>1. Faulty
    BY <1>9 DEF Tick, Crash, Restart, FaultKinds
  <2>2. up' = up \/ up' \in BOOLEAN
    BY <1>9 DEF Tick, Crash, Restart
  <2> HIDE DEF Faulty
  <2> QED BY <1>2, <1>9, <2>1, <2>2 DEF Tick, Crash, Restart
<1> QED BY <1>4, <1>5, <1>6, <1>7, <1>8, <1>9 DEF PayNext, HandlerStep, ReconStep

LEMMA PayTypeStep == ASSUME PayTypeInv, [PayNext]_payVars PROVE PayTypeInv'
<1>1. LedgerTypeOK'
  BY LedgerStep, LedgerTyped DEF PayTypeInv, PayTypeOK
<1> QED BY <1>1, MoneyStep, HandlersStep, ClockStep, ReconTypedStep, CountsStep, PayTypeSplit,
           Zenon DEF PayTypeInv, PayTypeOK, MoneyTyped, HandlersTyped, ClockTyped, ReconTyped,
           CountsTyped, Callback

LEMMA PayTypeInit == PayInit => PayTypeInv
<1> SUFFICES ASSUME PayInit PROVE PayTypeInv
  OBVIOUS
<1>1. LedgerTypeOK
  BY DEF PayInit, LedgerInit, LedgerTypeOK, Status
<1>2. MoneyTyped
  BY DEF PayInit, MoneyTyped
<1>3. HandlersTyped
  BY NoCallbackTyped DEF PayInit, HandlersTyped, HandlersServeMoney, NoCallback
<1>4. ClockTyped
  BY PaymentAssumption DEF PayInit, ClockTyped, MaxAge
<1>5. ReconTyped
  BY DEF PayInit, ReconTyped, NoRecon
<1>6. CountsTyped
  BY PaymentAssumption DEF PayInit, CountsTyped
<1> QED BY <1>1, <1>2, <1>3, <1>4, <1>5, <1>6, PayTypeSplit

\* The types, and with them that nothing is claimed or acked that was not collected,
\* whatever callbacks, crons, faults and crashes do.
THEOREM PayTypeCorrect == PaySpec => []PayTypeOK
<1>1. PayTypeInv => PayTypeOK
  BY DEF PayTypeInv
<1> QED BY <1>1, PayTypeInit, PayTypeStep, PTL DEF PaySpec

-----------------------------------------------------------------------------
(* Money                                                                   *)

\* The payment subsystem implements the ledger: a callback, its retries and
\* duplicates, the reconciliation and a restart together do to an order only what
\* the ledger does.
THEOREM PaymentImplementsLedger == PaySpec => LedgerSpec
<1>1. PayInit => LedgerInit
  BY DEF PayInit
<1> QED BY <1>1, PayTypeInit, PayTypeStep, LedgerStep, PTL DEF PaySpec, LedgerSpec

LEMMA GrantsHaveMoneyStep ==
    ASSUME PayTypeInv, GrantsHaveMoney, [PayNext]_payVars
    PROVE  GrantsHaveMoney'
<1>1. fulfilled \in [Orders -> Nat]
  BY DEF PayTypeInv, PayTypeOK, LedgerTypeOK
<1>2. ASSUME NEW o \in collected, fulfilled' = fulfilled \/ Grant(o), UNCHANGED collected
      PROVE  GrantsHaveMoney'
  BY <1>1, <1>2 DEF GrantsHaveMoney, Grant
<1>3. ASSUME UNCHANGED fulfilled, collected \subseteq collected' PROVE GrantsHaveMoney'
  BY <1>3 DEF GrantsHaveMoney
<1>4. ASSUME NEW h \in Handlers, PaySuccess(h) PROVE GrantsHaveMoney'
  <2>1. handler[h].order \in collected
    BY <1>4, ServedOrder DEF PaySuccess
  <2> QED BY <1>2, <1>4, <2>1 DEF PaySuccess
<1>5. ASSUME NEW o \in Orders, ReconPay(o) PROVE GrantsHaveMoney'
  BY <1>2, <1>5 DEF ReconPay
<1>6. ASSUME NEW o \in Orders,
             \/ CreateOrder(o) \/ CancelOrder(o) \/ ExpireOrder(o) \/ PayOrder(o) \/ Collect(o)
             \/ NotifyRepeated(o) \/ NotifyRejected(o) \/ ReconSkip(o)
      PROVE  GrantsHaveMoney'
  BY <1>3, <1>6 DEF CreateOrder, CancelOrder, ExpireOrder, PayOrder, Collect, NotifyRepeated,
      NotifyRejected, ReconSkip, Place, Cancel, Expire
<1>7. ASSUME NEW h \in Handlers, NEW o \in Orders, NotifyClaim(h, o) \/ NotifyUnclaimed(h, o)
      PROVE  GrantsHaveMoney'
  BY <1>3, <1>7 DEF NotifyClaim, NotifyUnclaimed
<1>8. ASSUME NEW h \in Handlers, PayAlready(h) \/ PayRead(h) \/ PayRefused(h) \/ PayError(h)
      PROVE  GrantsHaveMoney'
  BY <1>3, <1>8 DEF PayAlready, PayRead, PayRefused, PayError
<1>9. CASE \/ ExpireDone \/ ReconStart \/ ReconExpired \/ ReconDone
           \/ Tick \/ Crash \/ Restart \/ UNCHANGED payVars
  BY <1>3, <1>9 DEF ExpireDone, ReconStart, ReconExpired, ReconDone, Tick, Crash, Restart,
      payVars
<1> QED BY <1>4, <1>5, <1>6, <1>7, <1>8, <1>9 DEF PayNext, HandlerStep, ReconStep

\* Any number of callbacks at once, with or without a Redis claim, reconciliation,
\* lost replies and crashes: an order is granted exactly once if it was paid, and only
\* if the gateway has its money.
THEOREM MoneyGrantsOnce == PaySpec => []GrantedOnceForMoney
<1>1. PayInit => GrantsHaveMoney
  BY DEF PayInit, LedgerInit, GrantsHaveMoney
<1>2. PaySpec => []GrantedExactlyWhenPaid
  BY PaymentImplementsLedger, LedgerGrantsOnce, PTL
<1>3. PaySpec => []GrantsHaveMoney
  BY <1>1, PayTypeInit, PayTypeStep, GrantsHaveMoneyStep, PTL DEF PaySpec
<1>4. GrantedExactlyWhenPaid /\ GrantsHaveMoney => GrantedOnceForMoney
  BY DEF GrantsHaveMoney, GrantedOnceForMoney
<1> QED BY <1>2, <1>3, <1>4, PTL

-----------------------------------------------------------------------------
(* Claims                                                                  *)

LinkPlaced == \A o \in link : status[o] # "absent"

\* Every key belongs to one callback, which is served; an order that can still be
\* paid is not claimed without one.
ClaimsHeld ==
    /\ \A h \in Handlers : handler[h].key = TRUE => handler[h].order \in claim
    /\ \A g, h \in Handlers :
           handler[g].key = TRUE /\ handler[h].key = TRUE /\ handler[g].order = handler[h].order
           => g = h
    /\ \A o \in claim :
           status[o] \in Payable => \E h \in Handlers : handler[h].key = TRUE /\ handler[h].order = o

ClaimInv == PayTypeInv /\ LinkPlaced /\ ClaimsHeld

\* No order that exists disappears, and none that is settled can be paid again.
LEMMA LedgerForward ==
    ASSUME LedgerTypeOK, [LedgerNext]_ledgerVars, NEW o \in Orders, status[o] # "absent"
    PROVE  /\ status'[o] # "absent"
           /\ status'[o] \in Payable => status[o] \in Payable
<1> USE DEF LedgerTypeOK, Become
<1>1. ASSUME NEW x \in Orders, Place(x) \/ PlaceFree(x) \/ Pay(x) \/ Cancel(x) \/ Expire(x) \/ Refund(x)
      PROVE  /\ status'[o] # "absent"
             /\ status'[o] \in Payable => status[o] \in Payable
  BY <1>1 DEF Place, PlaceFree, Pay, Cancel, Expire, Refund, Payable
<1>2. CASE UNCHANGED ledgerVars
  BY <1>2 DEF ledgerVars
<1> QED BY <1>1, <1>2 DEF LedgerNext

LEMMA LinkStep ==
    ASSUME PayTypeInv, LinkPlaced, [PayNext]_payVars
    PROVE  LinkPlaced'
<1>1. LedgerTypeOK /\ link \subseteq Orders
  BY DEF PayTypeInv, PayTypeOK
<1>2. \A o \in link : status'[o] # "absent"
  BY <1>1, LedgerStep, LedgerForward DEF LinkPlaced
<1>3. ASSUME NEW o \in Orders, PayOrder(o) PROVE LinkPlaced'
  BY <1>2, <1>3 DEF PayOrder, LinkPlaced
<1>4. ASSUME link' = link PROVE LinkPlaced'
  BY <1>2, <1>4 DEF LinkPlaced
<1>5. ASSUME NEW o \in Orders,
             \/ CreateOrder(o) \/ CancelOrder(o) \/ ExpireOrder(o) \/ Collect(o)
             \/ NotifyRepeated(o) \/ NotifyRejected(o) \/ ReconSkip(o) \/ ReconPay(o)
      PROVE  LinkPlaced'
  BY <1>4, <1>5 DEF CreateOrder, CancelOrder, ExpireOrder, Collect, NotifyRepeated,
      NotifyRejected, ReconSkip, ReconPay
<1>6. ASSUME NEW h \in Handlers, NEW o \in Orders, NotifyClaim(h, o) \/ NotifyUnclaimed(h, o)
      PROVE  LinkPlaced'
  BY <1>4, <1>6 DEF NotifyClaim, NotifyUnclaimed
<1>7. ASSUME NEW h \in Handlers,
             PayAlready(h) \/ PayRead(h) \/ PaySuccess(h) \/ PayRefused(h) \/ PayError(h)
      PROVE  LinkPlaced'
  BY <1>4, <1>7 DEF PayAlready, PayRead, PaySuccess, PayRefused, PayError
<1>8. CASE \/ ExpireDone \/ ReconStart \/ ReconExpired \/ ReconDone
           \/ Tick \/ Crash \/ Restart \/ UNCHANGED payVars
  BY <1>4, <1>8 DEF ExpireDone, ReconStart, ReconExpired, ReconDone, Tick, Crash, Restart,
      payVars
<1> QED BY <1>3, <1>5, <1>6, <1>7, <1>8 DEF PayNext, HandlerStep, ReconStep

\* A callback that ends, or goes without a claim, releases at most its own.
LEMMA ReleaseStep ==
    ASSUME ClaimInv, NEW h \in Handlers,
           handler'[h].key # TRUE,
           \A g \in Handlers \ {h} : handler'[g] = handler[g],
           \A o \in link : status'[o] \in Payable => status[o] \in Payable,
           claim' \subseteq claim,
           \A o \in claim \ claim' : handler[h].key = TRUE /\ handler[h].order = o,
           handler[h].key = TRUE
               => handler[h].order \notin claim' \/ status'[handler[h].order] \notin Payable
    PROVE  ClaimsHeld'
<1>1. claim \subseteq link
  BY DEF ClaimInv, PayTypeInv, PayTypeOK
<1>2. ASSUME NEW g \in Handlers, handler'[g].key = TRUE
      PROVE  g # h /\ handler'[g] = handler[g]
  BY <1>2
<1>3. ASSUME NEW g \in Handlers, handler'[g].key = TRUE PROVE handler'[g].order \in claim'
  <2>1. handler[g].order \in claim /\ handler[g].key = TRUE
    BY <1>2, <1>3 DEF ClaimInv, ClaimsHeld
  <2>2. ~(handler[h].key = TRUE /\ handler[h].order = handler[g].order)
    BY <1>2, <1>3, <2>1 DEF ClaimInv, ClaimsHeld
  <2> QED BY <1>2, <1>3, <2>1, <2>2
<1>4. ASSUME NEW f \in Handlers, NEW g \in Handlers, handler'[f].key = TRUE, handler'[g].key = TRUE,
             handler'[f].order = handler'[g].order
      PROVE  f = g
  <2>1. handler'[f] = handler[f] /\ handler'[g] = handler[g]
    BY <1>2, <1>4
  <2> QED BY <1>4, <2>1 DEF ClaimInv, ClaimsHeld
<1>5. ASSUME NEW o \in claim', status'[o] \in Payable
      PROVE  \E g \in Handlers : handler'[g].key = TRUE /\ handler'[g].order = o
  <2>1. o \in claim /\ status[o] \in Payable
    BY <1>1, <1>5
  <2>2. PICK g \in Handlers : handler[g].key = TRUE /\ handler[g].order = o
    BY <2>1 DEF ClaimInv, ClaimsHeld
  <2>3. g # h
    BY <1>5, <2>2
  <2> QED BY <2>2, <2>3
<1> QED BY <1>3, <1>4, <1>5 DEF ClaimsHeld

LEMMA ClaimStep ==
    ASSUME Faults \cap {"crash", "del"} = {}, ClaimInv, [PayNext]_payVars
    PROVE  ClaimsHeld'
<1>1. /\ handler \in [Handlers -> Callback]
      /\ claim \subseteq link /\ link \subseteq Orders
      /\ PayTypeInv
  BY DEF ClaimInv, PayTypeInv, PayTypeOK, Callback
<1>2. \A o \in link : status'[o] \in Payable => status[o] \in Payable
  BY <1>1, LedgerStep, LedgerForward DEF ClaimInv, LinkPlaced, PayTypeInv, PayTypeOK
<1>3. ASSUME claim' = claim, handler' = handler PROVE ClaimsHeld'
  BY <1>1, <1>2, <1>3 DEF ClaimInv, ClaimsHeld
<1>4. NoCallback.key # TRUE
  BY DEF NoCallback
<1>5. ASSUME NEW h \in Handlers, NEW o \in Orders, NotifyClaim(h, o) PROVE ClaimsHeld'
  <2>1. /\ claim' = claim \cup {o} /\ o \notin claim
        /\ handler'[h].order = o /\ handler'[h].key = TRUE
        /\ \A g \in Handlers \ {h} : handler'[g] = handler[g]
    BY <1>1, <1>5 DEF NotifyClaim, Serve
  <2>2. \A g \in Handlers : handler[g].key = TRUE => handler[g].order \in claim
    BY DEF ClaimInv, ClaimsHeld
  <2>3. handler[h].key # TRUE
    BY <1>4, <1>5 DEF NotifyClaim
  <2>4. ASSUME NEW g \in Handlers, handler'[g].key = TRUE, g # h
        PROVE  handler'[g] = handler[g] /\ handler'[g].order \in claim /\ handler'[g].order # o
    BY <2>1, <2>2, <2>4
  <2>5. \A g \in Handlers : handler'[g].key = TRUE => handler'[g].order \in claim'
    BY <2>1, <2>4
  <2>6. ASSUME NEW f \in Handlers, NEW g \in Handlers, handler'[f].key = TRUE, handler'[g].key = TRUE,
               handler'[f].order = handler'[g].order
        PROVE  f = g
    <3>1. CASE f = h \/ g = h
      BY <2>1, <2>4, <2>6, <3>1
    <3>2. CASE f # h /\ g # h
      <4>1. handler'[f] = handler[f] /\ handler'[g] = handler[g]
        BY <2>1, <3>2
      <4> QED BY <2>6, <4>1 DEF ClaimInv, ClaimsHeld
    <3> QED BY <3>1, <3>2
  <2>7. ASSUME NEW x \in claim', status'[x] \in Payable
        PROVE  \E g \in Handlers : handler'[g].key = TRUE /\ handler'[g].order = x
    <3>1. CASE x = o
      BY <2>1, <3>1
    <3>2. CASE x # o
      <4>1. x \in claim /\ status[x] \in Payable
        BY <1>1, <1>2, <2>1, <2>7, <3>2
      <4>2. PICK g \in Handlers : handler[g].key = TRUE /\ handler[g].order = x
        BY <4>1 DEF ClaimInv, ClaimsHeld
      <4>3. g # h
        BY <2>3, <4>2
      <4> QED BY <2>1, <4>2, <4>3
    <3> QED BY <3>1, <3>2
  <2> QED BY <2>5, <2>6, <2>7 DEF ClaimsHeld
<1>6. ASSUME NEW h \in Handlers, NEW o \in Orders, NotifyUnclaimed(h, o) PROVE ClaimsHeld'
  <2>1. /\ claim' = claim
        /\ handler'[h].key # TRUE /\ handler[h].key # TRUE
        /\ \A g \in Handlers \ {h} : handler'[g] = handler[g]
    BY <1>1, <1>4, <1>6 DEF NotifyUnclaimed, Serve
  <2> QED BY <1>2, <2>1, ReleaseStep
<1>7. ASSUME NEW h \in Handlers, PayRead(h) PROVE ClaimsHeld'
  <2>1. /\ claim' = claim
        /\ \A g \in Handlers : /\ handler'[g].key = handler[g].key
                                /\ handler'[g].order = handler[g].order
    BY <1>1, <1>7 DEF PayRead, Serve, Callback
  <2>2. ASSUME NEW x \in claim', status'[x] \in Payable
        PROVE  \E g \in Handlers : handler'[g].key = TRUE /\ handler'[g].order = x
    <3>1. PICK g \in Handlers : handler[g].key = TRUE /\ handler[g].order = x
      BY <1>1, <1>2, <2>1, <2>2 DEF ClaimInv, ClaimsHeld
    <3> QED BY <2>1, <3>1
  <2> QED BY <2>1, <2>2 DEF ClaimInv, ClaimsHeld
<1>8. ASSUME NEW h \in Handlers, Serve(h, NoCallback)
      PROVE  /\ handler'[h].key # TRUE
             /\ \A g \in Handlers \ {h} : handler'[g] = handler[g]
  BY <1>1, <1>4, <1>8 DEF Serve
<1>9. ASSUME NEW h \in Handlers, PayAlready(h) \/ PaySuccess(h) PROVE ClaimsHeld'
  <2>1. claim' = claim /\ Serve(h, NoCallback)
    BY <1>9 DEF PayAlready, PaySuccess
  <2>2. handler[h].order \in Orders
    BY <1>1, <1>9, ServedOrder DEF PayAlready, PaySuccess
  <2>3. status'[handler[h].order] \notin Payable
    BY <1>1, <1>9, <2>2 DEF PayAlready, PaySuccess, Matches, Become, Payable, PayTypeInv, PayTypeOK,
        LedgerTypeOK
  <2> QED BY <1>2, <1>8, <2>1, <2>3, ReleaseStep
<1>10. ASSUME NEW h \in Handlers, PayRefused(h) \/ PayError(h) PROVE ClaimsHeld'
  <2>1. Serve(h, NoCallback) /\ claim' \in ClaimsAfterError(h)
    BY <1>10 DEF PayRefused, PayError
  <2>2. claim' = IF ~handler[h].key THEN claim ELSE claim \ {handler[h].order}
    BY <2>1, Zenon DEF ClaimsAfterError
  <2>3. handler[h].key \in BOOLEAN
    BY <1>1 DEF Callback
  <2>4. handler[h].key = TRUE => claim' = claim \ {handler[h].order}
    BY <2>2
  <2>5. handler[h].key # TRUE => claim' = claim
    BY <2>2, <2>3, Zenon
  <2>6. \A o \in claim \ claim' : handler[h].key = TRUE /\ handler[h].order = o
    BY <2>4, <2>5
  <2> QED BY <1>2, <1>8, <2>1, <2>4, <2>5, <2>6, ReleaseStep
<1>11. ASSUME NEW o \in Orders,
             \/ CreateOrder(o) \/ CancelOrder(o) \/ ExpireOrder(o) \/ PayOrder(o) \/ Collect(o)
             \/ NotifyRepeated(o) \/ NotifyRejected(o) \/ ReconSkip(o) \/ ReconPay(o)
      PROVE  ClaimsHeld'
  BY <1>3, <1>11 DEF CreateOrder, CancelOrder, ExpireOrder, PayOrder, Collect, NotifyRepeated,
      NotifyRejected, ReconSkip, ReconPay
<1>12. ~Crash
  BY DEF Crash, Fault
<1>13. CASE \/ ExpireDone \/ ReconStart \/ ReconExpired \/ ReconDone
            \/ Tick \/ Restart \/ UNCHANGED payVars
  BY <1>3, <1>13 DEF ExpireDone, ReconStart, ReconExpired, ReconDone, Tick, Restart, payVars
<1> QED BY <1>5, <1>6, <1>7, <1>9, <1>10, <1>11, <1>12, <1>13 DEF PayNext, HandlerStep, ReconStep

\* As long as the panel does not die and Redis deletes what it is told to, the key of
\* a failed attempt never outlives it: the gateway's next callback gets through.
THEOREM ClaimsNeverStrand ==
    ASSUME Faults \cap {"crash", "del"} = {}
    PROVE  PaySpec => []ClaimNeverStrands
<1>1. PayInit => ClaimInv
  <2>1. PayInit => ClaimsHeld /\ LinkPlaced
    BY DEF PayInit, ClaimsHeld, LinkPlaced, NoCallback
  <2> QED BY <2>1, PayTypeInit DEF ClaimInv
<1>2. ClaimInv /\ [PayNext]_payVars => ClaimInv'
  BY PayTypeStep, LinkStep, ClaimStep DEF ClaimInv
<1>3. ClaimInv => ClaimNeverStrands
  BY DEF ClaimInv, ClaimsHeld, ClaimNeverStrands, Serving
<1> QED BY <1>1, <1>2, <1>3, PTL DEF PaySpec
=============================================================================
