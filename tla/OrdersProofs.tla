---------------------------- MODULE OrdersProofs ----------------------------
(***************************************************************************)
(* Proofs about Orders for any number of orders, users, coupons and        *)
(* concurrent requests.                                                    *)
(***************************************************************************)
EXTENDS Orders, FiniteSetTheorems, TLAPS

\* Every request that is not idle and not a free order works on an order.
CallsHaveTargets ==
    \A p \in Procs : call[p].op \notin {"idle", "free"} => call[p].order \in Orders

TypeInv == TypeOK /\ CallsHaveTargets

\* A write outside the domain of a function changes nothing.
LEMMA UpdateTyped ==
    ASSUME NEW S, NEW T, NEW f \in [S -> T], NEW x, NEW v, x \in S => v \in T
    PROVE  [f EXCEPT ![x] = v] \in [S -> T]
<1>1. CASE x \in S BY <1>1
<1>2. CASE x \notin S BY <1>2
<1> QED BY <1>1, <1>2

LEMMA IdleTyped == Idle \in Call
BY OrdersAssumption DEF Idle, Call, CallOps, Status, Ledger!Status

\* A call that moves on to another stage keeps its type, operation and order.
LEMMA StageTyped ==
    ASSUME NEW c \in Call, NEW s \in {"none", "tx", "save", "locked"}, NEW r \in Status
    PROVE  /\ [c EXCEPT !.at = s] \in Call
           /\ [c EXCEPT !.at = s].op = c.op
           /\ [c EXCEPT !.at = s].order = c.order
           /\ [c EXCEPT !.at = s, !.row = r] \in Call
           /\ [c EXCEPT !.at = s, !.row = r].op = c.op
           /\ [c EXCEPT !.at = s, !.row = r].order = c.order
BY DEF Call

\* LockRow is typed.
LEMMA LockTyped ==
    ASSUME TypeInv, NEW p \in Procs, LockRow(p)
    PROVE  /\ call' \in [Procs -> Call]
           /\ CallsHaveTargets'
           /\ lock' \in [Orders -> Procs \cup {None}]
<1>1. call' = [call EXCEPT ![p] = [call[p] EXCEPT !.at = "locked"]]
  BY DEF LockRow, TypeInv, TypeOK
<1>2. call \in [Procs -> Call] /\ lock \in [Orders -> Procs \cup {None}]
  BY DEF TypeInv, TypeOK
<1>3. [call[p] EXCEPT !.at = "locked"] \in Call
      /\ [call[p] EXCEPT !.at = "locked"].op = call[p].op
      /\ [call[p] EXCEPT !.at = "locked"].order = call[p].order
  <2>1. "absent" \in Status /\ call[p] \in Call
    BY <1>2 DEF Status, Ledger!Status
  <2> QED BY <2>1, StageTyped
<1>4. QED
  BY <1>1, <1>2, <1>3 DEF LockRow, TypeInv, CallsHaveTargets

\* So is the return of a request.
LEMMA FinishTyped ==
    ASSUME TypeInv, NEW p \in Procs, Finish(p)
    PROVE  call' \in [Procs -> Call] /\ CallsHaveTargets'
<1>1. call' = [call EXCEPT ![p] = Idle] /\ Idle.op = "idle"
  BY DEF Finish, Idle
<1>2. QED
  BY <1>1, IdleTyped DEF TypeInv, TypeOK, CallsHaveTargets

\* The writes of the commits are typed.
LEMMA GrantTyped ==
    ASSUME TypeInv, NEW o \in Orders
    PROVE  /\ [plan EXCEPT ![terms[o].user] = terms[o].plan] \in [Users -> Plans \cup {None}]
           /\ [plan EXCEPT ![terms[o].user] = None] \in [Users -> Plans \cup {None}]
           /\ [fulfilled EXCEPT ![o] = @ + 1] \in [Orders -> Nat]
<1>1. terms[o].plan \in Plans \cup {None}
  BY DEF TypeInv, TypeOK, Terms, NoTerms
<1>2. plan \in [Users -> Plans \cup {None}]
  BY DEF TypeInv, TypeOK
<1>3. fulfilled \in [Orders -> Nat]
  BY DEF TypeInv, TypeOK
<1> QED BY <1>1, <1>2, <1>3, UpdateTyped

LEMMA CouponTyped ==
    ASSUME TypeInv, NEW o \in Orders
    PROVE  /\ Consumed(CouponOf(o)) \in [Coupons -> Nat]
           /\ Released(CouponOf(o)) \in [Coupons -> Nat]
<1>1. CouponOf(o) \in Coupons \cup {None} /\ used \in [Coupons -> Nat]
  BY DEF CouponOf, TypeInv, TypeOK, Terms, NoTerms
<1> QED BY <1>1 DEF Consumed, Released

\* A request that is not idle and not a free order works on an existing row.
LEMMA Targets ==
    ASSUME TypeInv, NEW p \in Procs, call[p].op \notin {"idle", "free"}
    PROVE  Target(p) \in Orders
BY DEF TypeInv, CallsHaveTargets, Target

\* The step that preserves the types, one case per group of actions.
LEMMA TypeStep == ASSUME TypeInv, [Next]_vars PROVE TypeInv'
<1> USE DEF TypeInv, TypeOK, CallsHaveTargets, Call, CallOps, Terms, Status,
            Ledger!Status, NoEdit
<1>1. CASE CreateSteps
  <2>1. ASSUME NEW o \in Orders, NEW t \in Terms, CreateOrder(o, t) PROVE TypeInv'
    BY <2>1 DEF CreateOrder, Consumed
  <2>2. ASSUME NEW p \in Procs, NEW t \in Terms, FreeIncr(p, t) PROVE TypeInv'
    <3>1. [Idle EXCEPT !.op = "free", !.at = "tx", !.want = t] \in Call
      BY IdleTyped
    <3>2. call' \in [Procs -> Call] /\ CallsHaveTargets'
      BY <2>2, <3>1 DEF FreeIncr
    <3> QED BY <2>2, <3>2 DEF FreeIncr
  <2>3. ASSUME NEW p \in Procs, NEW o \in Orders, FreeCommit(p, o) PROVE TypeInv'
    BY <2>3, IdleTyped DEF FreeCommit, Consumed, Finish, At, Idle, NoTerms
  <2>4. ASSUME NEW p \in Procs, FreeFail(p) PROVE TypeInv'
    <3>1. call' \in [Procs -> Call] /\ CallsHaveTargets'
      BY <2>4, FinishTyped DEF FreeFail
    <3>2. freeCount' \in [Users -> Int]
      <4>1. freeCount' = [freeCount EXCEPT ![call[p].want.user] = freeCount[call[p].want.user] - 1]
        BY <2>4 DEF FreeFail
      <4> QED BY <4>1, UpdateTyped
    <3> QED BY <2>4, <3>1, <3>2 DEF FreeFail
  <2> QED BY <1>1, <2>1, <2>2, <2>3, <2>4 DEF CreateSteps
<1>2. CASE PaySteps
  <2>1. ASSUME NEW p \in Procs, NEW o \in Orders, PayRead(p, o) PROVE TypeInv'
    BY <2>1, IdleTyped DEF PayRead, Begin, Idle, NoTerms
  <2>2. ASSUME NEW p \in Procs, PayUpdate(p) PROVE TypeInv'
    BY <2>2, LockTyped DEF PayUpdate
  <2>3. ASSUME NEW p \in Procs, PayLost(p) PROVE TypeInv'
    BY <2>3, IdleTyped DEF PayLost, Finish, Idle
  <2>4. ASSUME NEW p \in Procs, PayCommit(p) PROVE TypeInv'
    <3>1. Target(p) \in Orders
      BY <2>4, Targets DEF PayCommit, At
    <3>2. call' \in [Procs -> Call] /\ CallsHaveTargets'
      BY <2>4, FinishTyped DEF PayCommit
    <3>3. used' \in [Coupons -> Nat] /\ lock' \in [Orders -> Procs \cup {None}]
      BY <2>4, <3>1, CouponTyped DEF PayCommit, Unlock
    <3>4. plan' \in [Users -> Plans \cup {None}] /\ fulfilled' \in [Orders -> Nat]
      BY <2>4, <3>1, GrantTyped DEF PayCommit
    <3> QED BY <2>4, <3>1, <3>2, <3>3, <3>4 DEF PayCommit
  <2> QED BY <1>2, <2>1, <2>2, <2>3, <2>4 DEF PaySteps
<1>3. CASE CancelSteps
  <2>1. ASSUME NEW p \in Procs, NEW o \in Orders, CancelRead(p, o) PROVE TypeInv'
    BY <2>1, IdleTyped DEF CancelRead, Begin, Idle, NoTerms
  <2>2. ASSUME NEW p \in Procs, CancelCommit(p) PROVE TypeInv'
    BY <2>2, IdleTyped DEF CancelCommit, Finish, Released, Target, CouponOf, At, Idle, NoTerms
  <2> QED BY <1>3, <2>1, <2>2 DEF CancelSteps
<1>4. CASE ExpireSteps
  <2>1. ASSUME NEW o \in Orders, Overdue(o) PROVE TypeInv'
    BY <2>1 DEF Overdue
  <2>2. ASSUME NEW o \in Orders, ExpireOne(o) PROVE TypeInv'
    BY <2>2 DEF ExpireOne, Released, CouponOf, NoTerms
  <2>3. CASE ExpireList
    BY <2>3 DEF ExpireList
  <2> QED BY <1>4, <2>1, <2>2, <2>3 DEF ExpireSteps
<1>5. CASE AdminSteps
  <2>1. ASSUME NEW p \in Procs, NEW o \in Orders, NEW op \in AdminOps, AdminRead(p, op, o)
        PROVE TypeInv'
    BY <2>1, IdleTyped DEF AdminRead, Begin, AdminOps, Idle, NoTerms
  <2>2. ASSUME NEW p \in Procs, AdminReread(p) PROVE TypeInv'
    <3> DEFINE c == [call[p] EXCEPT !.at = "save", !.row = status[Target(p)]]
    <3>1. Target(p) \in Orders /\ status[Target(p)] \in Status /\ call[p] \in Call
      BY <2>2, Targets DEF AdminReread, AdminOps
    <3>2. c \in Call /\ c.op = call[p].op /\ c.order = call[p].order
      <4> HIDE DEF TypeInv, Call, Status
      <4> QED BY <3>1, StageTyped
    <3>3. call' = [call EXCEPT ![p] = c] \/ Finish(p)
      BY <2>2 DEF AdminReread, Finish
    <3> HIDE DEF c
    <3>4. call' \in [Procs -> Call] /\ CallsHaveTargets'
      <4>1. CASE call' = [call EXCEPT ![p] = c]
        BY <4>1, <3>1, <3>2 DEF Target
      <4> QED BY <4>1, <3>3, FinishTyped
    <3> QED BY <2>2, <3>4 DEF AdminReread
  <2>3. ASSUME NEW p \in Procs, AdminSave(p) PROVE TypeInv'
    BY <2>3, LockTyped DEF AdminSave
  <2>4. ASSUME NEW p \in Procs, MarkPaidCommit(p) PROVE TypeInv'
    <3>1. Target(p) \in Orders
      BY <2>4, Targets DEF MarkPaidCommit, At
    <3>2. call' \in [Procs -> Call] /\ CallsHaveTargets'
      BY <2>4, FinishTyped DEF MarkPaidCommit
    <3>3. plan' \in [Users -> Plans \cup {None}] /\ fulfilled' \in [Orders -> Nat]
      BY <2>4, <3>1, GrantTyped DEF MarkPaidCommit
    <3> QED BY <2>4, <3>1, <3>2, <3>3 DEF MarkPaidCommit, Unlock
  <2>5. ASSUME NEW p \in Procs, RefundCommit(p) PROVE TypeInv'
    <3>1. Target(p) \in Orders
      BY <2>5, Targets DEF RefundCommit, At
    <3>2. call' \in [Procs -> Call] /\ CallsHaveTargets'
      BY <2>5, FinishTyped DEF RefundCommit
    <3>3. used' \in [Coupons -> Nat] /\ lock' \in [Orders -> Procs \cup {None}]
      BY <2>5, <3>1, CouponTyped DEF RefundCommit, Unlock
    <3>4. plan' \in [Users -> Plans \cup {None}]
      BY <2>5, <3>1, GrantTyped DEF RefundCommit, PlanAfterRefund
    <3> QED BY <2>5, <3>1, <3>2, <3>3, <3>4 DEF RefundCommit
  <2>6. ASSUME NEW p \in Procs, AdminCancelCommit(p) PROVE TypeInv'
    BY <2>6, IdleTyped DEF AdminCancelCommit, Finish, Released, Target, CouponOf, At, Idle, NoTerms
  <2> QED BY <1>5, <2>1, <2>2, <2>3, <2>4, <2>5, <2>6 DEF AdminSteps
<1>6. CASE CouponSteps
  <2> SUFFICES ASSUME NEW c \in Coupons, ToggleCoupon(c) \/ EditRead(c) \/ EditSave(c)
               PROVE TypeInv'
    BY <1>6 DEF CouponSteps
  <2> QED BY DEF ToggleCoupon, EditRead, EditSave
<1>7. ASSUME NEW p \in Procs, Abort(p) PROVE TypeInv'
  BY <1>7, IdleTyped DEF Abort, LocksWithout, Finish, Idle
<1>8. CASE UNCHANGED vars
  BY <1>8 DEF vars
<1> QED BY <1>1, <1>2, <1>3, <1>4, <1>5, <1>6, <1>7, <1>8 DEF Next

\* Every column keeps its type; in particular DecrUsedSafeTx never takes
\* used_count below 0.
THEOREM TypeCorrect == Spec => []TypeOK
<1>1. Init => TypeInv
  BY IdleTyped DEF Init, TypeInv, TypeOK, CallsHaveTargets, Status, Ledger!Status, NoEdit, Idle
<1>2. TypeInv /\ [Next]_vars => TypeInv'
  BY TypeStep
<1>3. TypeInv => TypeOK
  BY DEF TypeInv
<1> QED BY <1>1, <1>2, <1>3, PTL DEF Spec

-----------------------------------------------------------------------------
(* The refinement, when AdminMarkPaid and AdminCancelOrder stay away: their *)
(* unlocked Save is what breaks it (run race_cancel shows the second).      *)

NoBlindSave == Ops \cap {"markPaid", "adminCancel"} = {}

\* Only the operations of the run are in flight.
NoBlindCalls == \A p \in Procs : call[p].op \notin {"markPaid", "adminCancel"}

\* A payment past its conditional UPDATE holds the row lock, and nobody has moved
\* the order since: that is why it may overwrite the status unconditionally.
PayersHold ==
    \A p \in Procs : At(p, "pay", "locked") =>
        /\ Target(p) \in Orders
        /\ lock[Target(p)] = p
        /\ status[Target(p)] \in Payable

\* AdminRefund writes without a lock, but what it read as paid can only have been
\* refunded since.
RefundersSee ==
    \A p \in Procs : call[p].op = "refund" /\ call[p].at \in {"save", "locked"} =>
        /\ Target(p) \in Orders
        /\ status[Target(p)] \in {"paid", "refunded"}

IInv == TypeInv /\ NoBlindCalls /\ PayersHold /\ RefundersSee

\* Each step of the service is a step of the ledger or leaves it alone.
LEMMA LedgerStep ==
    ASSUME NoBlindSave, IInv, [Next]_vars
    PROVE  [Ledger!LedgerNext]_(Ledger!ledgerVars)
<1> USE DEF Ledger!ledgerVars
<1> SUFFICES \/ UNCHANGED <<status, fulfilled>>
             \/ \E o \in Orders : \/ Ledger!Place(o) \/ Ledger!PlaceFree(o) \/ Ledger!Pay(o)
                                  \/ Ledger!Cancel(o) \/ Ledger!Expire(o) \/ Ledger!Refund(o)
  BY DEF Ledger!LedgerNext
<1> USE DEF Ledger!Become, Ledger!Grant
<1>1. CASE CreateSteps
  <2>1. ASSUME NEW o \in Orders, NEW t \in Terms, CreateOrder(o, t) PROVE Ledger!Place(o)
    BY <2>1 DEF CreateOrder, Ledger!Place
  <2>2. ASSUME NEW p \in Procs, NEW t \in Terms, FreeIncr(p, t)
        PROVE  UNCHANGED <<status, fulfilled>>
    BY <2>2 DEF FreeIncr
  <2>3. ASSUME NEW p \in Procs, NEW o \in Orders, FreeCommit(p, o) PROVE Ledger!PlaceFree(o)
    BY <2>3 DEF FreeCommit, Ledger!PlaceFree
  <2>4. ASSUME NEW p \in Procs, FreeFail(p) PROVE UNCHANGED <<status, fulfilled>>
    BY <2>4 DEF FreeFail
  <2> QED BY <1>1, <2>1, <2>2, <2>3, <2>4 DEF CreateSteps
<1>2. CASE PaySteps
  <2>1. ASSUME NEW p \in Procs, PayCommit(p) PROVE \E o \in Orders : Ledger!Pay(o)
    BY <2>1 DEF PayCommit, IInv, PayersHold, Ledger!Pay, Payable
  <2> QED BY <1>2, <2>1 DEF PaySteps, PayRead, PayUpdate, PayLost
<1>3. CASE CancelSteps
  <2>1. ASSUME NEW p \in Procs, CancelCommit(p)
        PROVE  UNCHANGED <<status, fulfilled>> \/ \E o \in Orders : Ledger!Cancel(o)
    <3>1. Target(p) \in Orders
      BY <2>1, Targets DEF CancelCommit, At, IInv
    <3> QED BY <2>1, <3>1 DEF CancelCommit, StillPending, Ledger!Cancel
  <2> QED BY <1>3, <2>1 DEF CancelSteps, CancelRead
<1>4. CASE ExpireSteps
  BY <1>4 DEF ExpireSteps, Overdue, ExpireList, ExpireOne, StillPending, Ledger!Expire
<1>5. CASE AdminSteps
  <2>1. ASSUME NEW p \in Procs, RefundCommit(p)
        PROVE  UNCHANGED <<status, fulfilled>> \/ \E o \in Orders : Ledger!Refund(o)
    <3>1. Target(p) \in Orders /\ status[Target(p)] \in {"paid", "refunded"}
      BY <2>1 DEF RefundCommit, At, IInv, RefundersSee
    <3>2. CASE status[Target(p)] = "refunded"
      BY <2>1, <3>1, <3>2 DEF RefundCommit, IInv, TypeInv, TypeOK
    <3>3. CASE status[Target(p)] = "paid"
      BY <2>1, <3>1, <3>3 DEF RefundCommit, Ledger!Refund
    <3> QED BY <3>1, <3>2, <3>3
  <2>2. ASSUME NEW p \in Procs PROVE ~MarkPaidCommit(p) /\ ~AdminCancelCommit(p)
    BY DEF MarkPaidCommit, AdminCancelCommit, At, IInv, NoBlindCalls
  <2> QED BY <1>5, <2>1, <2>2 DEF AdminSteps, AdminRead, AdminReread, AdminSave
<1>6. CASE CouponSteps
  BY <1>6 DEF CouponSteps, ToggleCoupon, EditRead, EditSave
<1>7. ASSUME NEW p \in Procs, Abort(p) PROVE UNCHANGED <<status, fulfilled>>
  BY <1>7 DEF Abort
<1>8. CASE UNCHANGED vars
  BY <1>8 DEF vars
<1> QED BY <1>1, <1>2, <1>3, <1>4, <1>5, <1>6, <1>7, <1>8 DEF Next

\* The strengthening is inductive.
LEMMA InvStep == ASSUME NoBlindSave, IInv, [Next]_vars PROVE IInv'
<1> DEFINE Rest == NoBlindCalls' /\ PayersHold' /\ RefundersSee'
<1>0. TypeInv'
  BY TypeStep DEF IInv
<1> SUFFICES Rest
  BY <1>0 DEF IInv
<1>t. /\ call \in [Procs -> Call] /\ status \in [Orders -> Status]
      /\ lock \in [Orders -> Procs \cup {None}] /\ None \notin Procs
  BY OrdersAssumption DEF IInv, TypeInv, TypeOK
<1> USE <1>t DEF IInv, NoBlindCalls, PayersHold, RefundersSee, At, Target
<1>1. CASE CreateSteps
  <2>1. ASSUME NEW o \in Orders, NEW t \in Terms, CreateOrder(o, t) PROVE Rest
    BY <2>1 DEF CreateOrder, Payable, Ledger!Payable
  <2>2. ASSUME NEW p \in Procs, NEW t \in Terms, FreeIncr(p, t) PROVE Rest
    BY <2>2 DEF FreeIncr, Idle
  <2>3. ASSUME NEW p \in Procs, NEW o \in Orders, FreeCommit(p, o) PROVE Rest
    BY <2>3 DEF FreeCommit, Finish, Idle, Payable, Ledger!Payable
  <2>4. ASSUME NEW p \in Procs, FreeFail(p) PROVE Rest
    BY <2>4 DEF FreeFail, Finish, Idle
  <2> QED BY <1>1, <2>1, <2>2, <2>3, <2>4 DEF CreateSteps
<1>2. CASE PaySteps
  <2>1. ASSUME NEW p \in Procs, NEW o \in Orders, PayRead(p, o) PROVE Rest
    BY <2>1 DEF PayRead, Begin, Idle
  <2>2. ASSUME NEW p \in Procs, PayUpdate(p) PROVE Rest
    <3>1. Target(p) \in Orders
      BY <2>2, Targets DEF PayUpdate
    <3> QED BY <2>2, <3>1 DEF PayUpdate, LockRow, StillPayable
  <2>3. ASSUME NEW p \in Procs, PayLost(p) PROVE Rest
    BY <2>3 DEF PayLost, Finish, Idle
  <2>4. ASSUME NEW p \in Procs, PayCommit(p) PROVE Rest
    BY <2>4 DEF PayCommit, Finish, Unlock, Idle, Payable, Ledger!Payable
  <2> QED BY <1>2, <2>1, <2>2, <2>3, <2>4 DEF PaySteps
<1>3. CASE CancelSteps
  <2>1. ASSUME NEW p \in Procs, NEW o \in Orders, CancelRead(p, o) PROVE Rest
    BY <2>1 DEF CancelRead, Begin, Idle
  <2>2. ASSUME NEW p \in Procs, CancelCommit(p) PROVE Rest
    BY <2>2 DEF CancelCommit, Finish, StillPending, Idle
  <2> QED BY <1>3, <2>1, <2>2 DEF CancelSteps
<1>4. CASE ExpireSteps
  BY <1>4 DEF ExpireSteps, Overdue, ExpireList, ExpireOne, StillPending
<1>5. CASE AdminSteps
  <2>1. ASSUME NEW p \in Procs, NEW o \in Orders, NEW op \in AdminOps, AdminRead(p, op, o)
        PROVE  Rest
    BY <2>1, NoBlindSave DEF AdminRead, AdminOps, Begin, Idle, NoBlindSave
  <2>2. ASSUME NEW p \in Procs, AdminReread(p) PROVE Rest
    BY <2>2, Targets DEF AdminReread, AdminOps, AdminMay, Idle
  <2>3. ASSUME NEW p \in Procs, AdminSave(p) PROVE Rest
    BY <2>3 DEF AdminSave, LockRow
  <2>4. ASSUME NEW p \in Procs PROVE ~MarkPaidCommit(p) /\ ~AdminCancelCommit(p)
    BY DEF MarkPaidCommit, AdminCancelCommit
  <2>5. ASSUME NEW p \in Procs, RefundCommit(p) PROVE Rest
    BY <2>5 DEF RefundCommit, Finish, Unlock, Idle, Payable, Ledger!Payable
  <2> QED BY <1>5, <2>1, <2>2, <2>3, <2>4, <2>5 DEF AdminSteps
<1>6. CASE CouponSteps
  BY <1>6 DEF CouponSteps, ToggleCoupon, EditRead, EditSave
<1>7. ASSUME NEW p \in Procs, Abort(p) PROVE Rest
  BY <1>7 DEF Abort, LocksWithout, Finish, Idle
<1>8. CASE UNCHANGED vars
  BY <1>8 DEF vars
<1> QED BY <1>1, <1>2, <1>3, <1>4, <1>5, <1>6, <1>7, <1>8 DEF Next

LEMMA InvInit == Init => IInv
<1> SUFFICES ASSUME Init PROVE IInv
  OBVIOUS
<1>1. TypeInv
  BY IdleTyped DEF Init, TypeInv, TypeOK, CallsHaveTargets, Status, Ledger!Status, NoEdit, Idle
<1>2. \A p \in Procs : call[p].op = "idle"
  BY DEF Init, Idle
<1> QED BY <1>1, <1>2 DEF IInv, NoBlindCalls, PayersHold, RefundersSee, At

\* With PaySuccess, CancelOrder, ExpireOrders, free orders, refunds, coupon
\* administration and crashes interleaved in any way, by any number of requests
\* on any number of orders, the service implements the ledger.
THEOREM Implements == ASSUME NoBlindSave PROVE Spec => ImplementsLedger
<1>1. Init => Ledger!LedgerInit
  BY DEF Init, Ledger!LedgerInit
<1>2. Init => IInv
  BY InvInit
<1>3. IInv /\ [Next]_vars => IInv'
  BY InvStep
<1>4. IInv /\ [Next]_vars => [Ledger!LedgerNext]_(Ledger!ledgerVars)
  BY LedgerStep
<1> QED BY <1>1, <1>2, <1>3, <1>4, PTL DEF Spec, ImplementsLedger, Ledger!LedgerSpec

\* Hence no payment that reaches the service in time or late is granted twice,
\* and none is recorded as paid without its plan being granted.
THEOREM GrantsOnce == ASSUME NoBlindSave PROVE Spec => []GrantedOnce
<1>1. Ledger!LedgerSpec => [](Ledger!LedgerTypeOK /\ Ledger!GrantedExactlyWhenPaid)
  BY Ledger!LedgerGrantsOnce
<1> QED BY <1>1, Implements, PTL DEF ImplementsLedger, GrantedOnce

-----------------------------------------------------------------------------
(* Users and their plans, and their free orders: whatever is in Ops.        *)

PlacedHaveTerms == \A o \in Orders : status[o] # "absent" => terms[o] \in Terms

\* A request works on an order that exists, a free order has its terms to place.
CallsArePlaced ==
    \A p \in Procs :
        /\ call[p].op \notin {"idle", "free"} => status[call[p].order] # "absent"
        /\ call[p].op = "free" => call[p].want \in Terms

PlacedInv == TypeInv /\ PlacedHaveTerms /\ CallsArePlaced

\* What is not the making of an order.
OtherSteps ==
    \/ PaySteps \/ CancelSteps \/ ExpireSteps \/ AdminSteps \/ CouponSteps
    \/ \E p \in Procs : Abort(p)
    \/ UNCHANGED vars

\* The orders that exist stay, and no request becomes one for a free order.
RowsStay ==
    /\ UNCHANGED <<terms, freeCount>>
    /\ \A o \in Orders : status'[o] = "absent" <=> status[o] = "absent"
    /\ \A p \in Procs :
          \/ call'[p].op = "idle"
          \/ call'[p] = call[p]
          \/ /\ call'[p].op \notin {"idle", "free"}
             /\ call'[p].order \in Orders /\ status[call'[p].order] # "absent"

LEMMA OthersKeepRows == ASSUME PlacedInv, OtherSteps PROVE RowsStay
<1>t. /\ call \in [Procs -> Call] /\ status \in [Orders -> Status]
      /\ \A p \in Procs : call[p].op \notin {"idle", "free"} =>
            Target(p) \in Orders /\ status[Target(p)] # "absent"
  BY DEF PlacedInv, TypeInv, TypeOK, CallsHaveTargets, CallsArePlaced, Target
<1> USE <1>t DEF RowsStay
<1>1. CASE PaySteps
  <2>1. ASSUME NEW p \in Procs, NEW o \in Orders, PayRead(p, o) PROVE RowsStay
    BY <2>1 DEF PayRead, Begin, Idle, Payable, Ledger!Payable
  <2>2. ASSUME NEW p \in Procs, PayUpdate(p) PROVE RowsStay
    BY <2>2 DEF PayUpdate, LockRow, At, Target, Call
  <2>3. ASSUME NEW p \in Procs, PayLost(p) PROVE RowsStay
    BY <2>3 DEF PayLost, Finish, Idle
  <2>4. ASSUME NEW p \in Procs, PayCommit(p) PROVE RowsStay
    BY <2>4 DEF PayCommit, Finish, Idle, At
  <2> QED BY <1>1, <2>1, <2>2, <2>3, <2>4 DEF PaySteps
<1>2. CASE CancelSteps
  <2>1. ASSUME NEW p \in Procs, NEW o \in Orders, CancelRead(p, o) PROVE RowsStay
    BY <2>1 DEF CancelRead, Begin, Idle
  <2>2. ASSUME NEW p \in Procs, CancelCommit(p) PROVE RowsStay
    BY <2>2 DEF CancelCommit, Finish, Idle, At
  <2> QED BY <1>2, <2>1, <2>2 DEF CancelSteps
<1>3. CASE ExpireSteps
  BY <1>3 DEF ExpireSteps, Overdue, ExpireList, ExpireOne, StillPending
<1>4. CASE AdminSteps
  <2>1. ASSUME NEW p \in Procs, NEW o \in Orders, NEW op \in AdminOps, AdminRead(p, op, o)
        PROVE  RowsStay
    BY <2>1 DEF AdminRead, AdminOps, AdminMay, Begin, Idle
  <2>2. ASSUME NEW p \in Procs, AdminReread(p) PROVE RowsStay
    BY <2>2 DEF AdminReread, AdminOps, Idle, Target, Call
  <2>3. ASSUME NEW p \in Procs, AdminSave(p) PROVE RowsStay
    BY <2>3 DEF AdminSave, LockRow, Target, Call
  <2>4. ASSUME NEW p \in Procs, MarkPaidCommit(p) \/ RefundCommit(p) \/ AdminCancelCommit(p)
        PROVE  RowsStay
    BY <2>4 DEF MarkPaidCommit, RefundCommit, AdminCancelCommit, Finish, Idle, At
  <2> QED BY <1>4, <2>1, <2>2, <2>3, <2>4 DEF AdminSteps
<1>5. CASE CouponSteps
  BY <1>5 DEF CouponSteps, ToggleCoupon, EditRead, EditSave
<1>6. ASSUME NEW p \in Procs, Abort(p) PROVE RowsStay
  BY <1>6 DEF Abort, Finish, Idle
<1>7. CASE UNCHANGED vars
  BY <1>7 DEF vars
<1> QED BY <1>1, <1>2, <1>3, <1>4, <1>5, <1>6, <1>7 DEF OtherSteps

\* The steps that make orders.
LEMMA MakersKeepPlaced ==
    ASSUME PlacedInv, CreateSteps PROVE PlacedHaveTerms' /\ CallsArePlaced'
<1> USE DEF PlacedInv, PlacedHaveTerms, CallsArePlaced, TypeInv, TypeOK, CallsHaveTargets
<1>1. ASSUME NEW o \in Orders, NEW t \in Terms, CreateOrder(o, t)
      PROVE  PlacedHaveTerms' /\ CallsArePlaced'
  BY <1>1 DEF CreateOrder
<1>2. ASSUME NEW p \in Procs, NEW t \in Terms, FreeIncr(p, t)
      PROVE  PlacedHaveTerms' /\ CallsArePlaced'
  BY <1>2 DEF FreeIncr, Idle, Call
<1>3. ASSUME NEW p \in Procs, NEW o \in Orders, FreeCommit(p, o)
      PROVE  PlacedHaveTerms' /\ CallsArePlaced'
  BY <1>3 DEF FreeCommit, Finish, Idle, At
<1>4. ASSUME NEW p \in Procs, FreeFail(p) PROVE PlacedHaveTerms' /\ CallsArePlaced'
  BY <1>4 DEF FreeFail, Finish, Idle
<1> QED BY <1>1, <1>2, <1>3, <1>4 DEF CreateSteps

LEMMA PlacedStep == ASSUME PlacedInv, [Next]_vars PROVE PlacedInv'
<1>1. TypeInv'
  BY TypeStep DEF PlacedInv
<1>2. CASE CreateSteps
  BY <1>1, <1>2, MakersKeepPlaced DEF PlacedInv
<1>3. CASE OtherSteps
  BY <1>1, <1>3, OthersKeepRows
  DEF PlacedInv, PlacedHaveTerms, CallsArePlaced, RowsStay, TypeInv, CallsHaveTargets
<1> QED BY <1>2, <1>3 DEF Next, OtherSteps

\* A payment, a free order or AdminMarkPaid gives the user a plan in the transaction
\* that makes the order paid; AdminRefund, which takes it, counts the other paid orders
\* in the transaction that makes its own refunded.
LEMMA HeldStep ==
    ASSUME PlacedInv, PlanHeldWhilePaid, [Next]_vars PROVE PlanHeldWhilePaid'
<1>t. /\ status \in [Orders -> Status] /\ plan \in [Users -> Plans \cup {None}]
      /\ terms \in [Orders -> Terms \cup {NoTerms}] /\ None \notin Plans
      /\ \A o \in Orders : status[o] # "absent" => terms[o] \in Terms
      /\ \A p \in Procs : call[p].op \notin {"idle", "free"} =>
            Target(p) \in Orders /\ status[Target(p)] # "absent"
      /\ \A p \in Procs : call[p].op = "free" => call[p].want \in Terms
  BY OrdersAssumption DEF PlacedInv, PlacedHaveTerms, CallsArePlaced, TypeInv, TypeOK,
     CallsHaveTargets, Target
<1>q. ASSUME UNCHANGED <<terms, plan>>,
             \A o \in Orders : status'[o] = "paid" => status[o] = "paid"
      PROVE  PlanHeldWhilePaid'
  BY <1>q DEF PlanHeldWhilePaid
<1>g. ASSUME NEW o \in Orders, status[o] # "absent", terms' = terms,
             plan' = [plan EXCEPT ![terms[o].user] = terms[o].plan],
             status' = [status EXCEPT ![o] = "paid"]
      PROVE  PlanHeldWhilePaid'
  <2>1. terms[o].user \in Users /\ terms[o].plan # None
    BY <1>t, <1>g DEF Terms
  <2> QED BY <1>t, <1>g, <2>1 DEF PlanHeldWhilePaid
<1>1. CASE CreateSteps
  <2>1. ASSUME NEW o \in Orders, NEW t \in Terms, CreateOrder(o, t) PROVE PlanHeldWhilePaid'
    BY <1>t, <2>1 DEF CreateOrder, PlanHeldWhilePaid
  <2>2. ASSUME NEW p \in Procs, NEW o \in Orders, FreeCommit(p, o) PROVE PlanHeldWhilePaid'
    <3> DEFINE t == call[p].want
    <3>1. t \in Terms /\ t.user \in Users /\ t.plan # None
      BY <1>t, <2>2 DEF FreeCommit, At, Terms
    <3>2. /\ status' = [status EXCEPT ![o] = "paid"] /\ terms' = [terms EXCEPT ![o] = t]
          /\ \/ plan' = [plan EXCEPT ![t.user] = t.plan]
             \/ plan[t.user] # None /\ plan' = plan
      BY <2>2 DEF FreeCommit
    <3>3. \A v \in Users : plan[v] # None => plan'[v] # None
      BY <1>t, <3>1, <3>2
    <3>4. plan'[t.user] # None
      BY <1>t, <3>1, <3>2
    <3> HIDE DEF t
    <3>5. ASSUME NEW x \in Orders, status'[x] = "paid" PROVE plan'[terms'[x].user] # None
      <4>1. CASE x = o
        BY <1>t, <3>2, <3>4, <4>1
      <4>2. CASE x # o
        <5>1. status[x] = "paid" /\ terms'[x] = terms[x]
          BY <1>t, <3>2, <3>5, <4>2
        <5>2. terms[x].user \in Users /\ plan[terms[x].user] # None
          BY <1>t, <5>1 DEF PlanHeldWhilePaid, Terms
        <5> QED BY <3>3, <5>1, <5>2
      <4> QED BY <4>1, <4>2
    <3> QED BY <3>5 DEF PlanHeldWhilePaid
  <2> QED BY <1>1, <1>q, <2>1, <2>2 DEF CreateSteps, FreeIncr, FreeFail
<1>2. CASE PaySteps
  <2>1. ASSUME NEW p \in Procs, PayCommit(p) PROVE PlanHeldWhilePaid'
    BY <1>t, <1>g, <2>1 DEF PayCommit, At
  <2> QED BY <1>2, <1>q, <2>1 DEF PaySteps, PayRead, PayUpdate, PayLost
<1>3. CASE CancelSteps
  BY <1>3, <1>t, <1>q DEF CancelSteps, CancelRead, CancelCommit, At
<1>4. CASE ExpireSteps
  BY <1>4, <1>t, <1>q DEF ExpireSteps, Overdue, ExpireList, ExpireOne
<1>5. CASE AdminSteps
  <2>1. ASSUME NEW p \in Procs, MarkPaidCommit(p) PROVE PlanHeldWhilePaid'
    BY <1>t, <1>g, <2>1 DEF MarkPaidCommit, At
  <2>2. ASSUME NEW p \in Procs, RefundCommit(p) PROVE PlanHeldWhilePaid'
    <3> DEFINE o == Target(p)  u == terms[o].user
    <3>1. o \in Orders
      BY <1>t, <2>2 DEF RefundCommit, At
    <3>2. status' = [status EXCEPT ![o] = "refunded"] /\ terms' = terms
      BY <2>2 DEF RefundCommit
    <3>3. CASE plan' = plan
      BY <1>q, <1>t, <3>1, <3>2, <3>3
    <3>4. CASE NoOtherPaid(u, o) /\ plan' = [plan EXCEPT ![u] = None]
      BY <1>t, <3>1, <3>2, <3>4 DEF NoOtherPaid, PlanHeldWhilePaid
    <3> QED BY <2>2, <3>3, <3>4 DEF RefundCommit, PlanAfterRefund
  <2>3. ASSUME NEW p \in Procs, AdminCancelCommit(p) PROVE PlanHeldWhilePaid'
    BY <1>t, <1>q, <2>3 DEF AdminCancelCommit, At
  <2> QED BY <1>5, <1>q, <2>1, <2>2, <2>3 DEF AdminSteps, AdminRead, AdminReread, AdminSave
<1>6. CASE CouponSteps
  BY <1>6, <1>q DEF CouponSteps, ToggleCoupon, EditRead, EditSave
<1>7. ASSUME NEW p \in Procs, Abort(p) PROVE PlanHeldWhilePaid'
  BY <1>7, <1>q DEF Abort
<1>8. CASE UNCHANGED vars
  BY <1>8, <1>q DEF vars
<1> QED BY <1>1, <1>2, <1>3, <1>4, <1>5, <1>6, <1>7, <1>8 DEF Next

LEMMA PlacedInit == Init => PlacedInv
<1>1. Init => TypeInv
  BY IdleTyped DEF Init, TypeInv, TypeOK, CallsHaveTargets, Status, Ledger!Status, NoEdit, Idle
<1> QED BY <1>1 DEF PlacedInv, PlacedHaveTerms, CallsArePlaced, Init, Idle

\* However payments, free orders, refunds, cancellations and AdminMarkPaid interleave,
\* a user with a paid order holds a plan.
THEOREM PlanStaysHeld == Spec => []PlanHeldWhilePaid
<1>1. Init => PlacedInv /\ PlanHeldWhilePaid
  BY PlacedInit DEF Init, PlanHeldWhilePaid
<1>2. PlacedInv /\ PlanHeldWhilePaid /\ [Next]_vars => (PlacedInv /\ PlanHeldWhilePaid)'
  BY PlacedStep, HeldStep
<1> QED BY <1>1, <1>2, PTL DEF Spec
\* A free order under way or placed is counted by its user's counter ...
FreeIsCounted ==
    /\ \A u \in Users : freeCount[u] >= 0
    /\ \A p \in Procs : call[p].op = "free" =>
          call[p].want.coupon \in FullCoupons /\ freeCount[call[p].want.user] >= 1
    /\ \A o \in Orders : status[o] # "absent" /\ CouponOf(o) \in FullCoupons =>
          freeCount[terms[o].user] >= 1

\* ... and there is one of them for a user: the counter lets nobody on while it counts.
OneFreeTry ==
    /\ \A p, q \in Procs : call[p].op = "free" /\ call[q].op = "free"
                           /\ call[p].want.user = call[q].want.user => p = q
    /\ \A p \in Procs, o \in Orders :
          ~ /\ call[p].op = "free"
            /\ status[o] # "absent" /\ CouponOf(o) \in FullCoupons
            /\ call[p].want.user = terms[o].user

FreeInv == FreeIsCounted /\ OneFreeTry /\ FreeOncePerDay

LEMMA FreeStep == ASSUME PlacedInv, FreeInv, [Next]_vars PROVE FreeInv'
<1>t. /\ call \in [Procs -> Call] /\ status \in [Orders -> Status]
      /\ terms \in [Orders -> Terms \cup {NoTerms}] /\ freeCount \in [Users -> Int]
      /\ \A p \in Procs : call[p].op = "free" => call[p].want \in Terms
      /\ \A o \in Orders : status[o] # "absent" => terms[o] \in Terms
  BY DEF PlacedInv, PlacedHaveTerms, CallsArePlaced, TypeInv, TypeOK
<1> USE DEF FreeInv, FreeIsCounted, OneFreeTry, FreeOncePerDay, CouponOf
<1>1. CASE CreateSteps
  <2>1. ASSUME NEW o \in Orders, NEW t \in Terms, CreateOrder(o, t) PROVE FreeInv'
    <3>1. /\ t.coupon \notin FullCoupons /\ status[o] = "absent"
          /\ status' = [status EXCEPT ![o] = "pending"] /\ terms' = [terms EXCEPT ![o] = t]
          /\ call' = call /\ freeCount' = freeCount
      BY <2>1, OrdersAssumption DEF CreateOrder
    <3>2. \A x \in Orders : status'[x] # "absent" /\ terms'[x].coupon \in FullCoupons =>
             x # o /\ status[x] # "absent" /\ terms'[x] = terms[x]
      BY <1>t, <3>1
    <3> QED BY <3>1, <3>2
  <2>2. ASSUME NEW p \in Procs, NEW t \in Terms, FreeIncr(p, t) PROVE FreeInv'
    <3> DEFINE u == t.user
    <3>1. /\ u \in Users /\ t.coupon \in FullCoupons /\ call[p].op # "free"
          /\ freeCount' = [freeCount EXCEPT ![u] = @ + 1]
          /\ UNCHANGED <<status, terms>>
      BY <2>2 DEF FreeIncr, Terms, Idle
    <3>2. \A v \in Users : freeCount'[v] >= freeCount[v] /\ freeCount'[u] >= 1
      BY <1>t, <3>1
    <3>3. FreeIsCounted'
      <4>1. \A v \in Users : freeCount'[v] >= 0
        BY <1>t, <3>1
      <4>2. \A o \in Orders : status'[o] # "absent" /\ terms'[o].coupon \in FullCoupons =>
               freeCount'[terms'[o].user] >= 1
        BY <1>t, <3>1 DEF Terms
      <4>3. \A q \in Procs : call'[q].op = "free" =>
               call'[q] = call[q] \/ call'[q].want = t
        BY <1>t, <2>2 DEF FreeIncr, Call
      <4>4. ASSUME NEW q \in Procs, call'[q].op = "free"
            PROVE  call'[q].want.coupon \in FullCoupons /\ freeCount'[call'[q].want.user] >= 1
        <5>1. CASE call'[q].want = t
          BY <3>1, <3>2, <5>1
        <5>2. CASE call'[q] = call[q]
          <6>1. call[q].want.user \in Users
            BY <1>t, <4>4, <5>2 DEF Terms
          <6> QED BY <1>t, <3>1, <4>4, <5>2, <6>1
        <5> QED BY <4>3, <4>4, <5>1, <5>2
      <4> QED BY <4>1, <4>2, <4>4
    <3>4. CASE ~FreeAllowed(u)
      <4>1. call' = call
        BY <2>2, <3>4 DEF FreeIncr
      <4> QED BY <3>1, <3>3, <4>1
    <3>5. CASE FreeAllowed(u)
      <4>1. freeCount[u] < 1
        BY <1>t, <3>1, <3>5 DEF FreeAllowed
      <4>2. /\ call'[p].op = "free" /\ call'[p].want = t
            /\ \A q \in Procs \ {p} : call'[q] = call[q]
        BY <1>t, <2>2, <3>5 DEF FreeIncr, Call, Idle
      <4>3. \A q \in Procs : call[q].op = "free" => call[q].want.user # u
        BY <1>t, <3>1, <4>1
      <4>4. \A o \in Orders : status[o] # "absent" /\ terms[o].coupon \in FullCoupons =>
               terms[o].user # u
        BY <1>t, <3>1, <4>1
      <4> QED BY <3>1, <3>3, <4>2, <4>3, <4>4
    <3> QED BY <3>4, <3>5
  <2>3. ASSUME NEW p \in Procs, NEW o \in Orders, FreeCommit(p, o) PROVE FreeInv'
    <3> DEFINE t == call[p].want
    <3>1. /\ call[p].op = "free" /\ status[o] = "absent" /\ t \in Terms
          /\ status' = [status EXCEPT ![o] = "paid"] /\ terms' = [terms EXCEPT ![o] = t]
          /\ freeCount' = freeCount
      BY <1>t, <2>3 DEF FreeCommit, At
    <3>2. call'[p].op # "free" /\ \A q \in Procs \ {p} : call'[q] = call[q]
      BY <1>t, <2>3 DEF FreeCommit, Finish, Idle
    <3>3. \A x \in Orders : status'[x] # "absent" =>
             \/ x = o /\ terms'[x] = t
             \/ x # o /\ status[x] # "absent" /\ terms'[x] = terms[x]
      BY <1>t, <3>1
    <3>4. FreeIsCounted'
      BY <3>1, <3>2, <3>3
    <3>5. OneFreeTry'
      <4>1. \A q, r \in Procs : call'[q].op = "free" /\ call'[r].op = "free"
                             /\ call'[q].want.user = call'[r].want.user => q = r
        BY <3>2
      <4>2. ASSUME NEW q \in Procs, NEW x \in Orders, call'[q].op = "free",
                   status'[x] # "absent", terms'[x].coupon \in FullCoupons
            PROVE  call'[q].want.user # terms'[x].user
        BY <3>1, <3>2, <3>3, <4>2
      <4> QED BY <4>1, <4>2
    <3>6. FreeOncePerDay'
      BY <3>1, <3>3
    <3> QED BY <3>4, <3>5, <3>6
  <2>4. ASSUME NEW p \in Procs, FreeFail(p) PROVE FreeInv'
    <3> DEFINE u == call[p].want.user
    <3>1. /\ call[p].op = "free" /\ u \in Users
          /\ freeCount' = [freeCount EXCEPT ![u] = @ - 1] /\ UNCHANGED <<status, terms>>
      BY <1>t, <2>4 DEF FreeFail, At, Terms
    <3>2. call'[p].op # "free" /\ \A q \in Procs \ {p} : call'[q] = call[q]
      BY <1>t, <2>4 DEF FreeFail, Finish, Idle
    <3>3. freeCount'[u] >= 0 /\ \A v \in Users \ {u} : freeCount'[v] = freeCount[v]
      BY <1>t, <3>1
    <3>4. \A q \in Procs : call'[q].op = "free" =>
             call[q].op = "free" /\ call'[q] = call[q] /\ call[q].want.user \in Users \ {u}
      BY <1>t, <3>1, <3>2 DEF Terms
    <3>5. \A x \in Orders : status[x] # "absent" /\ terms[x].coupon \in FullCoupons =>
             terms[x].user \in Users \ {u}
      BY <1>t, <3>1 DEF Terms
    <3>6. FreeIsCounted'
      BY <3>1, <3>3, <3>4, <3>5
    <3> QED BY <3>1, <3>4, <3>6
  <2> QED BY <1>1, <2>1, <2>2, <2>3, <2>4 DEF CreateSteps
<1>2. CASE OtherSteps
  <2>1. /\ UNCHANGED <<terms, freeCount>>
        /\ \A o \in Orders : status'[o] = "absent" <=> status[o] = "absent"
        /\ \A p \in Procs : call'[p].op = "free" => call'[p] = call[p]
    BY <1>2, OthersKeepRows DEF RowsStay
  <2> QED BY <2>1
<1> QED BY <1>1, <1>2 DEF Next, OtherSteps

\* However the attempts of a user interleave, fail or die, one free order a day is made.
THEOREM FreeOnce == Spec => []FreeOncePerDay
<1>1. Init => PlacedInv /\ FreeInv
  BY PlacedInit DEF Init, FreeInv, FreeIsCounted, OneFreeTry, FreeOncePerDay, Idle
<1>2. PlacedInv /\ FreeInv /\ [Next]_vars => (PlacedInv /\ FreeInv)'
  BY PlacedStep, FreeStep
<1> QED BY <1>1, <1>2, PTL DEF Spec, FreeInv
-----------------------------------------------------------------------------
(* The uses of a coupon, when its form is not saved either: the form writes *)
(* back a count it read earlier.                                            *)

NoCouponForm == "editCoupon" \notin Ops

NoOpenForm == \A c \in Coupons : edit[c] = NoEdit

\* An order that a payment has seen expired is never pending again, so the use that
\* PaySuccess takes again is one that the order does not hold.
SeenExpired ==
    \A p \in Procs : call[p].op = "pay" /\ call[p].seen = "expired" =>
        status[call[p].order] \notin {"absent", "pending"}

CouponInv == NoOpenForm /\ SeenExpired /\ CouponNotOvercounted

\* Only order o changes: the holders of a coupon gain it, lose it or stay as they were.
LEMMA HoldersChange ==
    ASSUME NEW c \in Coupons, NEW o \in Orders,
           \A x \in Orders \ {o} : status'[x] = status[x] /\ terms'[x] = terms[x]
    PROVE  /\ Cardinality(LiveWith(c)) \in Nat /\ Cardinality(LiveWith(c)') \in Nat
           /\ o \in LiveWith(c)' \/ o \notin LiveWith(c) =>
                 Cardinality(LiveWith(c)') >= Cardinality(LiveWith(c))
           /\ o \in LiveWith(c)' \ LiveWith(c) =>
                 Cardinality(LiveWith(c)') = Cardinality(LiveWith(c)) + 1
           /\ Cardinality(LiveWith(c)') >= Cardinality(LiveWith(c)) - 1
<1> DEFINE L == LiveWith(c)  M == LiveWith(c)'
<1>1. IsFiniteSet(L) /\ IsFiniteSet(M)
  BY FS_Subset, OrdersAssumption DEF LiveWith
<1>2. M = L \/ M = L \cup {o} \/ M = L \ {o}
  BY DEF LiveWith, CouponOf
<1> HIDE DEF L, M
<1>3. Cardinality(L) \in Nat /\ Cardinality(M) \in Nat
  BY <1>1, FS_CardinalityType
<1>4. CASE M = L
  BY <1>3, <1>4 DEF L, M
<1>5. CASE M = L \cup {o}
  <2>1. Cardinality(M) = IF o \in L THEN Cardinality(L) ELSE Cardinality(L) + 1
    BY <1>1, <1>5, FS_AddElement
  <2> QED BY <1>3, <2>1 DEF L, M
<1>6. CASE M = L \ {o}
  <2>1. Cardinality(M) = IF o \in L THEN Cardinality(L) - 1 ELSE Cardinality(L)
    BY <1>1, <1>6, FS_RemoveElement
  <2>2. o \notin M
    BY <1>6
  <2> QED BY <1>3, <2>1, <2>2 DEF L, M
<1> QED BY <1>2, <1>4, <1>5, <1>6

\* Taking a use with the order that holds it, and giving one back, keeps the bound.
LEMMA Recount ==
    ASSUME TypeInv, CouponNotOvercounted, NEW o \in Orders,
           \A x \in Orders \ {o} : status'[x] = status[x] /\ terms'[x] = terms[x],
           \A c \in Coupons :
              \/ used'[c] = used[c] /\ (o \in LiveWith(c)' \/ o \notin LiveWith(c))
              \/ used'[c] = used[c] + 1 /\ o \in LiveWith(c)' \ LiveWith(c)
              \/ used'[c] = used[c] - 1
              \/ used'[c] = 0
    PROVE  CouponNotOvercounted'
<1> SUFFICES ASSUME NEW c \in Coupons PROVE used'[c] <= Cardinality(LiveWith(c)')
  BY DEF CouponNotOvercounted
<1>1. used[c] \in Nat /\ used[c] <= Cardinality(LiveWith(c))
  BY DEF TypeInv, TypeOK, CouponNotOvercounted
<1> DEFINE n == Cardinality(LiveWith(c))  m == Cardinality(LiveWith(c)')
<1>2. /\ n \in Nat /\ m \in Nat /\ m >= n - 1
      /\ o \in LiveWith(c)' \/ o \notin LiveWith(c) => m >= n
      /\ o \in LiveWith(c)' \ LiveWith(c) => m = n + 1
  BY HoldersChange
<1> HIDE DEF n, m
<1>3. used[c] <= n
  BY <1>1 DEF n
<1>4. used'[c] <= m
  BY <1>1, <1>2, <1>3
<1> QED BY <1>4 DEF m

\* An order leaves with its use.
LEMMA ReleaseCounted ==
    ASSUME TypeInv, CouponNotOvercounted, NEW o \in Orders, NEW s \in Status,
           status' = [status EXCEPT ![o] = s], terms' = terms, used' = Released(CouponOf(o))
    PROVE  CouponNotOvercounted'
<1>1. status \in [Orders -> Status] /\ used \in [Coupons -> Nat] /\ None \notin Coupons
  BY OrdersAssumption DEF TypeInv, TypeOK
<1>2. ASSUME NEW c \in Coupons
      PROVE  \/ used'[c] = used[c] /\ o \notin LiveWith(c)
             \/ used'[c] = used[c] - 1
             \/ used'[c] = 0
  BY <1>1 DEF Released, LiveWith
<1>3. \A x \in Orders \ {o} : status'[x] = status[x] /\ terms'[x] = terms[x]
  BY <1>1
<1> QED BY <1>2, <1>3, Recount

LEMMA CouponStep ==
    ASSUME NoBlindSave, NoCouponForm, IInv, CouponInv, [Next]_vars PROVE CouponInv'
<1>t. /\ TypeInv
      /\ call \in [Procs -> Call] /\ status \in [Orders -> Status]
      /\ terms \in [Orders -> Terms \cup {NoTerms}] /\ used \in [Coupons -> Nat]
      /\ None \notin Coupons
      /\ \A p \in Procs : call[p].op \notin {"idle", "free"} => Target(p) \in Orders
  BY OrdersAssumption DEF IInv, TypeInv, TypeOK, CallsHaveTargets, Target
<1> USE DEF CouponInv
<1>q. ASSUME UNCHANGED <<status, terms, used>> PROVE CouponNotOvercounted'
  BY <1>q DEF CouponNotOvercounted, LiveWith, CouponOf
<1>1. NoOpenForm'
  BY NoCouponForm DEF NoCouponForm, NoOpenForm, Next, vars, CreateSteps, CreateOrder, FreeIncr,
     FreeCommit, FreeFail, PaySteps, PayRead, PayUpdate, PayLost, PayCommit, CancelSteps,
     CancelRead, CancelCommit, ExpireSteps, Overdue, ExpireList, ExpireOne, AdminSteps,
     AdminRead, AdminReread, AdminSave, MarkPaidCommit, RefundCommit, AdminCancelCommit,
     CouponSteps, ToggleCoupon, EditRead, EditSave, Abort
<1>2. CASE CreateSteps
  <2>1. ASSUME NEW o \in Orders, NEW t \in Terms \cup {NoTerms}, NEW s \in {"pending", "paid"},
               status[o] = "absent", status' = [status EXCEPT ![o] = s],
               terms' = [terms EXCEPT ![o] = t], used' = Consumed(t.coupon)
        PROVE  CouponNotOvercounted'
    <3>1. \A x \in Orders \ {o} : status'[x] = status[x] /\ terms'[x] = terms[x]
      BY <1>t, <2>1
    <3>2. ASSUME NEW c \in Coupons
          PROVE  \/ used'[c] = used[c] /\ o \notin LiveWith(c)
                 \/ used'[c] = used[c] + 1 /\ o \in LiveWith(c)' \ LiveWith(c)
      BY <1>t, <2>1 DEF Consumed, LiveWith, CouponOf, NoTerms
    <3> QED BY <1>t, <3>1, <3>2, Recount
  <2>2. ASSUME NEW o \in Orders, NEW t \in Terms, CreateOrder(o, t)
        PROVE  SeenExpired' /\ CouponNotOvercounted'
    BY <1>t, <2>1, <2>2 DEF CreateOrder, SeenExpired, Target
  <2>3. ASSUME NEW p \in Procs, NEW t \in Terms, FreeIncr(p, t)
        PROVE  SeenExpired' /\ CouponNotOvercounted'
    BY <1>t, <1>q, <2>3 DEF FreeIncr, SeenExpired, Idle
  <2>4. ASSUME NEW p \in Procs, NEW o \in Orders, FreeCommit(p, o)
        PROVE  SeenExpired' /\ CouponNotOvercounted'
    <3>1. CouponNotOvercounted'
      <4>1. call[p].want \in Terms \cup {NoTerms}
        BY <1>t DEF Call
      <4> QED BY <2>1, <2>4, <4>1 DEF FreeCommit
    <3>2. SeenExpired'
      BY <1>t, <2>4 DEF FreeCommit, SeenExpired, Finish, Idle
    <3> QED BY <3>1, <3>2
  <2>5. ASSUME NEW p \in Procs, FreeFail(p) PROVE SeenExpired' /\ CouponNotOvercounted'
    BY <1>t, <1>q, <2>5 DEF FreeFail, SeenExpired, Finish, Idle
  <2> QED BY <1>1, <1>2, <2>2, <2>3, <2>4, <2>5 DEF CreateSteps
<1>3. CASE PaySteps
  <2>1. ASSUME NEW p \in Procs, NEW o \in Orders, PayRead(p, o)
        PROVE  SeenExpired' /\ CouponNotOvercounted'
    BY <1>t, <1>q, <2>1 DEF PayRead, SeenExpired, Begin, Idle
  <2>2. ASSUME NEW p \in Procs, PayUpdate(p) PROVE SeenExpired' /\ CouponNotOvercounted'
    BY <1>t, <1>q, <2>2 DEF PayUpdate, LockRow, SeenExpired, Call
  <2>3. ASSUME NEW p \in Procs, PayLost(p) PROVE SeenExpired' /\ CouponNotOvercounted'
    BY <1>t, <1>q, <2>3 DEF PayLost, SeenExpired, Finish, Idle
  <2>4. ASSUME NEW p \in Procs, PayCommit(p) PROVE SeenExpired' /\ CouponNotOvercounted'
    <3> DEFINE o == Target(p)
    <3>1. /\ o \in Orders /\ call[p].op = "pay" /\ status[o] \in {"pending", "expired"}
          /\ status' = [status EXCEPT ![o] = "paid"] /\ terms' = terms
      BY <2>4 DEF PayCommit, At, IInv, PayersHold, Payable, Ledger!Payable
    <3>2. SeenExpired'
      BY <1>t, <2>4, <3>1 DEF PayCommit, SeenExpired, Finish, Idle
    <3>3. ConsumesAgain(p) => status[o] = "expired" /\ CouponOf(o) # None
      BY <3>1 DEF ConsumesAgain, SeenExpired, Target
    <3>4. \A x \in Orders \ {o} : status'[x] = status[x] /\ terms'[x] = terms[x]
      BY <1>t, <3>1
    <3>5. ASSUME NEW c \in Coupons
          PROVE  \/ used'[c] = used[c] /\ (o \in LiveWith(c)' \/ o \notin LiveWith(c))
                 \/ used'[c] = used[c] + 1 /\ o \in LiveWith(c)' \ LiveWith(c)
      <4>1. o \in LiveWith(c)' \/ o \notin LiveWith(c)
        BY <1>t, <3>1 DEF LiveWith, CouponOf
      <4>2. CASE used' = used
        BY <4>1, <4>2
      <4>3. CASE ConsumesAgain(p) /\ used' = Consumed(CouponOf(o))
        BY <1>t, <3>1, <3>3, <4>1, <4>3 DEF Consumed, LiveWith, CouponOf
      <4> QED BY <2>4, <4>2, <4>3 DEF PayCommit
    <3>6. CouponNotOvercounted'
      BY <1>t, <3>1, <3>4, <3>5, Recount
    <3> QED BY <3>2, <3>6
  <2> QED BY <1>1, <1>3, <2>1, <2>2, <2>3, <2>4 DEF PaySteps
<1>4. CASE CancelSteps
  <2>1. ASSUME NEW p \in Procs, NEW o \in Orders, CancelRead(p, o)
        PROVE  SeenExpired' /\ CouponNotOvercounted'
    BY <1>t, <1>q, <2>1 DEF CancelRead, SeenExpired, Begin, Idle
  <2>2. ASSUME NEW p \in Procs, CancelCommit(p) PROVE SeenExpired' /\ CouponNotOvercounted'
    <3>1. Target(p) \in Orders /\ "cancelled" \in Status
      BY <1>t, <2>2 DEF CancelCommit, At, Status, Ledger!Status
    <3>2. SeenExpired'
      <4>1. \A x \in Orders : status'[x] \in {status[x], "cancelled"}
        BY <1>t, <2>2, <3>1 DEF CancelCommit
      <4>2. call'[p] = Idle /\ \A q \in Procs \ {p} : call'[q] = call[q]
        BY <1>t, <2>2 DEF CancelCommit, Finish
      <4>3. ASSUME NEW q \in Procs, call'[q].op = "pay", call'[q].seen = "expired"
            PROVE  status'[call'[q].order] \notin {"absent", "pending"}
        <5>1. q # p /\ call'[q] = call[q]
          BY <4>2, <4>3 DEF Idle
        <5>2. call[q].order \in Orders /\ status[call[q].order] \notin {"absent", "pending"}
          BY <1>t, <4>3, <5>1 DEF SeenExpired, Target
        <5> QED BY <4>1, <5>1, <5>2
      <4> QED BY <4>3 DEF SeenExpired
    <3>3. CouponNotOvercounted'
      BY <1>t, <1>q, <2>2, <3>1, ReleaseCounted DEF CancelCommit
    <3> QED BY <3>2, <3>3
  <2> QED BY <1>1, <1>4, <2>1, <2>2 DEF CancelSteps
<1>5. CASE ExpireSteps
  <2>1. ASSUME NEW o \in Orders, ExpireOne(o) PROVE SeenExpired' /\ CouponNotOvercounted'
    <3>1. "expired" \in Status
      BY DEF Status, Ledger!Status
    <3>2. SeenExpired'
      BY <1>t, <2>1 DEF ExpireOne, SeenExpired, Target
    <3>3. CouponNotOvercounted'
      BY <1>t, <1>q, <2>1, <3>1, ReleaseCounted DEF ExpireOne
    <3> QED BY <3>2, <3>3
  <2>2. ASSUME NEW o \in Orders, Overdue(o) PROVE SeenExpired' /\ CouponNotOvercounted'
    BY <1>q, <2>2 DEF Overdue, SeenExpired
  <2>3. CASE ExpireList
    BY <1>1, <1>q, <2>3 DEF ExpireList, SeenExpired
  <2> QED BY <1>1, <1>5, <2>1, <2>2, <2>3 DEF ExpireSteps
<1>6. CASE AdminSteps
  <2>1. ASSUME NEW p \in Procs, NEW o \in Orders, NEW op \in AdminOps, AdminRead(p, op, o)
        PROVE  SeenExpired' /\ CouponNotOvercounted'
    BY <1>t, <1>q, <2>1 DEF AdminRead, AdminOps, SeenExpired, Begin, Idle
  <2>2. ASSUME NEW p \in Procs, AdminReread(p) PROVE SeenExpired' /\ CouponNotOvercounted'
    BY <1>t, <1>q, <2>2 DEF AdminReread, AdminOps, SeenExpired, Idle, Call
  <2>3. ASSUME NEW p \in Procs, AdminSave(p) PROVE SeenExpired' /\ CouponNotOvercounted'
    BY <1>t, <1>q, <2>3 DEF AdminSave, LockRow, SeenExpired, Call
  <2>4. ASSUME NEW p \in Procs PROVE ~MarkPaidCommit(p) /\ ~AdminCancelCommit(p)
    BY DEF MarkPaidCommit, AdminCancelCommit, At, IInv, NoBlindCalls
  <2>5. ASSUME NEW p \in Procs, RefundCommit(p) PROVE SeenExpired' /\ CouponNotOvercounted'
    <3>1. Target(p) \in Orders /\ "refunded" \in Status
      BY <1>t, <2>5 DEF RefundCommit, At, Status, Ledger!Status
    <3>2. SeenExpired'
      BY <1>t, <2>5, <3>1 DEF RefundCommit, SeenExpired, Finish, Idle
    <3>3. CouponNotOvercounted'
      BY <1>t, <2>5, <3>1, ReleaseCounted DEF RefundCommit
    <3> QED BY <3>2, <3>3
  <2> QED BY <1>1, <1>6, <2>1, <2>2, <2>3, <2>4, <2>5 DEF AdminSteps
<1>7. CASE CouponSteps
  <2>1. ASSUME NEW c \in Coupons, ToggleCoupon(c) \/ EditRead(c)
        PROVE  SeenExpired' /\ CouponNotOvercounted'
    BY <1>q, <2>1 DEF ToggleCoupon, EditRead, SeenExpired
  <2>2. ASSUME NEW c \in Coupons PROVE ~EditSave(c)
    BY DEF EditSave, NoOpenForm
  <2> QED BY <1>1, <1>7, <2>1, <2>2 DEF CouponSteps
<1>8. ASSUME NEW p \in Procs, Abort(p) PROVE SeenExpired' /\ CouponNotOvercounted'
  BY <1>t, <1>q, <1>8 DEF Abort, SeenExpired, Finish, Idle
<1>9. CASE UNCHANGED vars
  BY <1>1, <1>q, <1>9 DEF vars, SeenExpired
<1> QED BY <1>1, <1>2, <1>3, <1>4, <1>5, <1>6, <1>7, <1>8, <1>9 DEF Next

\* However creation, payment, cancellation, expiry and refund interleave, a coupon is
\* never counted more often than orders hold it.
THEOREM CouponsAddUp == ASSUME NoBlindSave, NoCouponForm PROVE Spec => []CouponNotOvercounted
<1>1. Init => CouponInv
  <2> SUFFICES ASSUME Init PROVE CouponInv
    OBVIOUS
  <2>1. NoOpenForm /\ SeenExpired
    BY DEF Init, NoOpenForm, SeenExpired, Idle
  <2>2. ASSUME NEW c \in Coupons PROVE used[c] <= Cardinality(LiveWith(c))
    <3>1. LiveWith(c) = {} /\ used[c] = 0
      BY DEF Init, LiveWith
    <3> QED BY <3>1, FS_EmptySet
  <2> QED BY <2>1, <2>2 DEF CouponInv, CouponNotOvercounted
<1>2. IInv /\ CouponInv /\ [Next]_vars => (IInv /\ CouponInv)'
  BY InvStep, CouponStep
<1> QED BY InvInit, <1>1, <1>2, PTL DEF Spec, CouponInv
=============================================================================
