------------------------- MODULE SubscriptionProofs -------------------------
(***************************************************************************)
(* Proofs about Subscription for any plans, orders, bounds and forms.      *)
(***************************************************************************)
EXTENDS Subscription, FiniteSetTheorems, TLAPS

-----------------------------------------------------------------------------
(* What the operations on a row return                                     *)

\* An order that was placed has a plan of the catalogue.
OrdersHavePlans == \A o \in Orders : order[o].st # "none" => order[o].plan \in Plans

LEMMA PurchaseTyped ==
    ASSUME NEW u \in UserRow, NEW p \in Plans, NEW t \in Nat, NEW renew \in BOOLEAN
    PROVE  SetUserPlan(u, p, t, renew) \in UserRow
<1>1. Quota[p] \in Nat /\ Days[p] \in Nat
  BY EntitlementAssumption
<1>2. CASE ~renew /\ u.plan \notin {None, p} /\ Unexpired(u, t)
  BY <1>2 DEF SetUserPlan
<1>3. CASE ~(~renew /\ u.plan \notin {None, p} /\ Unexpired(u, t))
  <2> DEFINE again == renew /\ Renews(u, p, t)
             base == IF again THEN u.exp ELSE t
             limit == IF again /\ u.limit > u.used
                      THEN u.limit - u.used + Quota[p] ELSE Quota[p]
             exp == IF Days[p] = 0 THEN Never ELSE base + Days[p]
  <2>1. base \in Nat
    BY DEF Renews, Unexpired, UserRow, Dates
  <2>2. limit \in Nat
    BY <1>1 DEF UserRow
  <2>3. exp \in Dates
    BY <1>1, <2>1 DEF Dates
  <2>4. Reactivated(u) \in UserStatus
    BY DEF Reactivated, UserRow, UserStatus
  <2>5. SetUserPlan(u, p, t, renew)
          = [plan |-> p, limit |-> limit, used |-> IF again THEN u.used ELSE 0,
             exp |-> exp, status |-> Reactivated(u)]
    BY <1>3 DEF SetUserPlan
  <2> HIDE DEF limit, exp, again
  <2> QED BY <2>2, <2>3, <2>4, <2>5 DEF UserRow
<1> QED BY <1>2, <1>3

LEMMA RefundTyped ==
    ASSUME NEW u \in UserRow, NEW p \in Plans, NEW t \in Nat, NEW others \in BOOLEAN
    PROVE  RefundRow(u, p, t, others) \in UserRow
<1>1. Quota[p] \in Nat /\ Days[p] \in Nat
  BY EntitlementAssumption
<1>2. Emptied(u) \in UserRow
  BY DEF Emptied, NewUser, UserRow, UserStatus, Dates
<1>3. RolledBack(u, p, t) \in UserRow
  <2> DEFINE exp == IF Days[p] = 0 \/ u.exp = Never THEN u.exp ELSE AtLeast(u.exp - Days[p], t)
             limit == IF Quota[p] = 0 THEN u.limit ELSE AtLeast(u.limit - Quota[p], u.used)
  <2>1. exp \in Dates
    BY <1>1 DEF AtLeast, UserRow, Dates
  <2>2. limit \in Nat
    BY <1>1 DEF AtLeast, UserRow
  <2>3. RolledBack(u, p, t) = [u EXCEPT !.exp = exp, !.limit = limit]
    BY DEF RolledBack
  <2> HIDE DEF exp, limit
  <2> QED BY <2>1, <2>2, <2>3 DEF UserRow
<1> QED BY <1>2, <1>3 DEF RefundRow

LEMMA MarkTyped == ASSUME NEW u \in UserRow PROVE MarkExhausted(u) \in UserRow
BY DEF MarkExhausted, UserRow, UserStatus

LEMMA ActiveTyped ==
    ASSUME NEW u \in UserRow
    PROVE  [u EXCEPT !.used = 0, !.status = "active"] \in UserRow
BY DEF UserRow, UserStatus

LEMMA EditTyped ==
    ASSUME NEW u \in UserRow, NEW f \in FormFields, now \in Nat
    PROVE  Edited(u, f) \in UserRow
<1>1. IF f.limit = Keep THEN u.limit \in Nat ELSE f.limit \in Nat
  BY DEF FormFields, UserRow
<1>2. (IF f.days = Keep THEN u.exp ELSE IF f.days = 0 THEN Never ELSE now + f.days) \in Dates
  BY DEF FormFields, UserRow, Dates
<1>3. (IF f.plan = Keep THEN u.plan ELSE f.plan) \in Plans \cup {None}
  BY DEF FormFields, UserRow
<1> QED BY <1>1, <1>2, <1>3 DEF Edited, UserRow

-----------------------------------------------------------------------------
(* Types                                                                   *)

SubTypeInv == SubTypeOK /\ OrdersHavePlans

LEMMA PlaceTyped ==
    ASSUME SubTypeInv, NEW o \in Orders, NEW p \in Plans,
           order' = [order EXCEPT ![o] = [st |-> "paid", plan |-> p]]
    PROVE  /\ order' \in [Orders -> [st : {"none", "paid", "refunded"}, plan : Plans \cup {None}]]
           /\ OrdersHavePlans'
<1>1. [st |-> "paid", plan |-> p]
        \in [st : {"none", "paid", "refunded"}, plan : Plans \cup {None}]
  BY DEF SubTypeInv, SubTypeOK
<1> QED BY <1>1 DEF SubTypeInv, SubTypeOK, OrdersHavePlans

LEMMA RowTyped ==
    ASSUME SubTypeInv, user' \in UserRow, UNCHANGED <<now, order, edit>>,
           login' \in BOOLEAN, picked' \in BOOLEAN
    PROVE  SubTypeInv'
<1> USE DEF SubTypeInv, SubTypeOK
<1>1. now' \in 0..MaxNow /\ order' = order /\ edit' = edit
  OBVIOUS
<1>2. OrdersHavePlans'
  BY <1>1 DEF OrdersHavePlans
<1> QED BY <1>1, <1>2

LEMMA SubTypeInit == SubInit => SubTypeInv
<1> SUFFICES ASSUME SubInit PROVE SubTypeInv
  OBVIOUS
<1>1. user \in UserRow
  BY DEF SubInit, NewUser, UserRow, UserStatus, Dates
<1>2. order \in [Orders -> [st : {"none", "paid", "refunded"}, plan : Plans \cup {None}]]
  BY SubscriptionAssumption DEF SubInit, NoOrder
<1>3. edit \subseteq UserRow /\ Cardinality(edit) <= 1
  BY FS_EmptySet DEF SubInit
<1>4. OrdersHavePlans
  BY DEF SubInit, NoOrder, OrdersHavePlans
<1>5. now \in 0..MaxNow
  BY SubscriptionAssumption DEF SubInit
<1>6. login \in BOOLEAN /\ picked \in BOOLEAN
  BY Zenon DEF SubInit
<1> QED BY <1>1, <1>2, <1>3, <1>4, <1>5, <1>6, Zenon DEF SubTypeInv, SubTypeOK

LEMMA SubTypeStep == ASSUME SubTypeInv, [SubNext]_subVars PROVE SubTypeInv'
<1>1. now \in Nat /\ user \in UserRow /\ login \in BOOLEAN /\ picked \in BOOLEAN
  BY SubscriptionAssumption DEF SubTypeInv, SubTypeOK
<1>2. ASSUME NEW o \in Orders, NEW p \in Plans, Buy(o, p) \/ BuyFree(o, p) PROVE SubTypeInv'
  <2>1. CASE Buy(o, p)
    <3>1. user' \in UserRow
      <4>1. SetUserPlan(user, p, now, TRUE) \in UserRow
        BY <1>1, PurchaseTyped
      <4> QED BY <2>1, <4>1 DEF Buy
    <3> QED BY <2>1, <3>1, PlaceTyped DEF Buy, SubTypeInv, SubTypeOK
  <2>2. CASE BuyFree(o, p)
    <3>1. user' \in UserRow
      <4>1. SetUserPlan(user, p, now, FALSE) \in UserRow
        BY <1>1, PurchaseTyped
      <4> QED BY <2>2, <4>1 DEF BuyFree
    <3> QED BY <2>2, <3>1, PlaceTyped DEF BuyFree, SubTypeInv, SubTypeOK
  <2> QED BY <1>2, <2>1, <2>2
<1>3. ASSUME NEW o \in Orders, Refund(o) PROVE SubTypeInv'
  <2>1. order[o].plan \in Plans
    BY <1>3 DEF Refund, SubTypeInv, OrdersHavePlans
  <2>2. user' \in UserRow
    <3>1. RefundRow(user, order[o].plan, now, Paid \ {o} # {}) \in UserRow
      BY <1>1, <2>1, RefundTyped, Zenon
    <3> QED BY <1>1, <1>3, <3>1, Zenon DEF Refund
  <2> QED BY <1>3, <2>2 DEF Refund, SubTypeInv, SubTypeOK, OrdersHavePlans
<1>4. ASSUME NEW p \in Plans, Activate(p) PROVE SubTypeInv'
  <2>1. SetUserPlan(user, p, now, TRUE) \in UserRow
    BY <1>1, PurchaseTyped
  <2> QED BY <1>1, <1>4, <2>1, RowTyped DEF Activate
<1>5. CASE Use
  <2>1. [user EXCEPT !.used = @ + 1] \in UserRow
    BY <1>1 DEF UserRow
  <2>2. user' \in UserRow
    BY <1>5, <2>1, MarkTyped DEF Use
  <2> QED BY <1>1, <1>5, <2>2, RowTyped DEF Use
<1>6. CASE Tick
  BY <1>6, SubscriptionAssumption DEF Tick, SubTypeInv, SubTypeOK, OrdersHavePlans
<1>7. CASE ExpireOverdueUsers
  <2>1. user' \in UserRow
    BY <1>1, <1>7 DEF ExpireOverdueUsers, UserRow, UserStatus
  <2> QED BY <1>1, <1>7, <2>1, RowTyped DEF ExpireOverdueUsers
<1>8. CASE MarkAllTrafficExhausted
  BY <1>1, <1>8, MarkTyped, RowTyped DEF MarkAllTrafficExhausted
<1>9. CASE CycleRestore
  <2>1. user' \in UserRow
    BY <1>1, <1>9 DEF CycleRestore, UserRow, UserStatus
  <2> QED BY <1>1, <1>9, <2>1, RowTyped DEF CycleRestore
<1>10. CASE CyclePick
  <2>1. picked' \in BOOLEAN
    BY <1>10 DEF CyclePick
  <2> QED BY <1>1, <1>10, <2>1, RowTyped DEF CyclePick
<1>11. CASE CycleReset
  <2>1. user' \in UserRow
    BY <1>1, <1>11, ActiveTyped DEF CycleReset
  <2>2. picked' \in BOOLEAN
    BY <1>11 DEF CycleReset
  <2> QED BY <1>1, <1>11, <2>1, <2>2, RowTyped DEF CycleReset
<1>12. CASE Disable \/ Enable
  <2>1. user' \in UserRow
    BY <1>1, <1>12 DEF Disable, Enable, UserRow, UserStatus
  <2> QED BY <1>1, <1>12, <2>1, RowTyped DEF Disable, Enable
<1>13. CASE ResetTraffic
  BY <1>1, <1>13, ActiveTyped, RowTyped DEF ResetTraffic
<1>14. CASE LoginRead \/ LoginMark
  <2>1. user' \in UserRow
    BY <1>1, <1>14 DEF LoginRead, LoginMark, UserRow, UserStatus
  <2>2. login' \in BOOLEAN
    BY <1>14 DEF LoginRead, LoginMark
  <2> QED BY <1>1, <1>14, <2>1, <2>2, RowTyped DEF LoginRead, LoginMark
<1>15. ASSUME NEW f \in Forms, EditRead(f) PROVE SubTypeInv'
  <2>1. Edited(user, f) \in UserRow
    BY <1>1, EditTyped, SubscriptionAssumption
  <2>2. edit' \subseteq UserRow
    BY <1>15, <2>1 DEF EditRead
  <2>3. Cardinality(edit') = 1
    BY <1>15, FS_Singleton, Zenon DEF EditRead
  <2> QED BY <1>15, <2>2, <2>3 DEF EditRead, SubTypeInv, SubTypeOK, OrdersHavePlans
<1>16. CASE EditSave
  <2>1. edit' = {} /\ Cardinality(edit') = 0
    BY <1>16, FS_EmptySet DEF EditSave
  <2> QED BY <1>16, <2>1 DEF EditSave, SubTypeInv, SubTypeOK, OrdersHavePlans
<1>17. CASE UNCHANGED subVars
  BY <1>1, <1>17, RowTyped DEF subVars
<1> QED BY <1>2, <1>3, <1>4, <1>5, <1>6, <1>7, <1>8, <1>9, <1>10, <1>11, <1>12, <1>13,
           <1>14, <1>15, <1>16, <1>17 DEF SubNext

\* Every column keeps its type whatever is bought, refunded, reported or saved: the
\* subtractions of setUserPlan and AdminRefund never take a quota or a date below 0.
THEOREM SubTypeCorrect == SubSpec => []SubTypeOK
<1>1. SubTypeInv => SubTypeOK
  BY DEF SubTypeInv
<1> QED BY <1>1, SubTypeInit, SubTypeStep, PTL DEF SubSpec

-----------------------------------------------------------------------------
(* Exhausted                                                               *)

UsedUp(u) == u.status = "traffic_exhausted" => u.limit > 0 /\ u.used >= u.limit

\* The rows read by an edit form are saved later: they have to carry a mark and
\* counters that go together, too.
ExhaustedInv == SubTypeInv /\ UsedUp(user) /\ \A u \in edit : UsedUp(u)

LEMMA PurchaseUsedUp ==
    ASSUME NEW u \in UserRow, NEW p, NEW t, NEW renew, UsedUp(u)
    PROVE  UsedUp(SetUserPlan(u, p, t, renew))
BY DEF SetUserPlan, Reactivated, UsedUp

\* A rollback takes no more of the limit than is unused, and so nothing of a limit
\* that is used up.
LEMMA RefundUsedUp ==
    ASSUME NEW u \in UserRow, NEW p \in Plans, NEW t, NEW others, UsedUp(u)
    PROVE  UsedUp(RefundRow(u, p, t, others))
<1>1. Quota[p] \in Nat
  BY EntitlementAssumption
<1>2. UsedUp(Emptied(u))
  BY DEF Emptied, NewUser, UsedUp
<1>3. UsedUp(RolledBack(u, p, t))
  <2> DEFINE w == RolledBack(u, p, t)
             limit == IF Quota[p] = 0 THEN u.limit ELSE AtLeast(u.limit - Quota[p], u.used)
  <2>1. w.status = u.status /\ w.used = u.used /\ w.limit = limit
    BY DEF RolledBack, UserRow
  <2>2. u.limit \in Nat /\ u.used \in Nat
    BY DEF UserRow
  <2>3. u.limit > 0 /\ u.used >= u.limit => limit > 0 /\ u.used >= limit
    BY <1>1, <2>2 DEF AtLeast
  <2> HIDE DEF w, limit
  <2>4. UsedUp(w)
    BY <2>1, <2>3 DEF UsedUp
  <2> QED BY <2>4 DEF w
<1> QED BY <1>2, <1>3 DEF RefundRow

LEMMA MarkUsedUp == ASSUME NEW u \in UserRow, UsedUp(u) PROVE UsedUp(MarkExhausted(u))
BY DEF MarkExhausted, Exhausted, UsedUp, UserRow

LEMMA EditUsedUp ==
    ASSUME NEW u \in UserRow, NEW f, f.limit = Keep, UsedUp(u)
    PROVE  UsedUp(Edited(u, f))
BY DEF Edited, UsedUp, UserRow

LEMMA ExhaustedStep ==
    ASSUME \A f \in Forms : f.limit = Keep, ExhaustedInv, [SubNext]_subVars
    PROVE  ExhaustedInv'
<1>1. SubTypeInv'
  BY SubTypeStep DEF ExhaustedInv
<1>2. user \in UserRow /\ UsedUp(user) /\ \A u \in edit : UsedUp(u)
  BY DEF ExhaustedInv, SubTypeInv, SubTypeOK
<1>3. SUFFICES UsedUp(user)' /\ (\A u \in edit : UsedUp(u))'
  BY <1>1 DEF ExhaustedInv
<1>4. ASSUME NEW o \in Orders, NEW p \in Plans, Buy(o, p) \/ BuyFree(o, p)
      PROVE  UsedUp(user') /\ edit' = edit
  BY <1>2, <1>4, PurchaseUsedUp DEF Buy, BuyFree
<1>5. ASSUME NEW o \in Orders, Refund(o) PROVE UsedUp(user') /\ edit' = edit
  <2>1. order[o].plan \in Plans
    BY <1>5 DEF Refund, ExhaustedInv, SubTypeInv, OrdersHavePlans
  <2>2. UsedUp(RefundRow(user, order[o].plan, now, Paid \ {o} # {}))
    BY <1>2, <2>1, RefundUsedUp, Zenon
  <2> QED BY <1>2, <1>5, <2>2, Zenon DEF Refund
<1>6. ASSUME NEW p \in Plans, Activate(p) PROVE UsedUp(user') /\ edit' = edit
  BY <1>2, <1>6, PurchaseUsedUp DEF Activate
<1>7. CASE Use
  <2>1. [user EXCEPT !.used = @ + 1] \in UserRow /\ UsedUp([user EXCEPT !.used = @ + 1])
    BY <1>2 DEF UserRow, UsedUp
  <2> QED BY <1>2, <1>7, <2>1, MarkUsedUp DEF Use
<1>8. CASE Tick \/ LoginRead \/ CyclePick \/ UNCHANGED subVars
  BY <1>2, <1>8 DEF Tick, LoginRead, CyclePick, subVars
<1>9. CASE MarkAllTrafficExhausted
  BY <1>2, <1>9, MarkUsedUp DEF MarkAllTrafficExhausted
<1>10. CASE ExpireOverdueUsers \/ LoginMark \/ Disable
  BY <1>2, <1>10 DEF ExpireOverdueUsers, LoginMark, Disable, UserRow, UsedUp
<1>11. CASE CycleRestore \/ Enable
  BY <1>2, <1>11 DEF CycleRestore, Enable, UserRow, UsedUp
<1>12. CASE CycleReset \/ ResetTraffic
  BY <1>2, <1>12 DEF CycleReset, ResetTraffic, UserRow, UsedUp
<1>13. ASSUME NEW f \in Forms, EditRead(f)
       PROVE  UsedUp(user') /\ \A u \in edit' : UsedUp(u)
  BY <1>2, <1>13, EditUsedUp DEF EditRead
<1>14. CASE EditSave
  BY <1>2, <1>14 DEF EditSave
<1> QED BY <1>2, <1>4, <1>5, <1>6, <1>7, <1>8, <1>9, <1>10, <1>11, <1>12, <1>13, <1>14
        DEF SubNext

\* As long as the forms leave the limit alone, nobody is ever kept off the nodes as
\* exhausted with traffic left, whatever is bought, refunded, reset, disabled or
\* saved in between.
THEOREM ExhaustedCorrect ==
    ASSUME \A f \in Forms : f.limit = Keep
    PROVE  SubSpec => []ExhaustedIsUsedUp
<1>1. SubInit => ExhaustedInv
  BY SubTypeInit DEF SubInit, NewUser, UsedUp, ExhaustedInv
<1>2. ExhaustedInv /\ [SubNext]_subVars => ExhaustedInv'
  BY ExhaustedStep
<1>3. ExhaustedInv => ExhaustedIsUsedUp
  BY DEF ExhaustedInv, UsedUp, ExhaustedIsUsedUp
<1> QED BY <1>1, <1>2, <1>3, PTL DEF SubSpec

-----------------------------------------------------------------------------
(* Expired                                                                 *)

TimeIsUp(u, t) == u.status = "expired" => u.plan = None \/ ~Unexpired(u, t)

ExpiredInv == SubTypeInv /\ TimeIsUp(user, now) /\ login = FALSE /\ edit = {}

LEMMA RefundTimeIsUp ==
    ASSUME NEW u \in UserRow, NEW p \in Plans, NEW t \in Nat, NEW others, TimeIsUp(u, t)
    PROVE  TimeIsUp(RefundRow(u, p, t, others), t)
<1>1. Days[p] \in Nat /\ Never \notin Nat
  BY EntitlementAssumption
<1>2. TimeIsUp(Emptied(u), t)
  BY DEF Emptied, NewUser, TimeIsUp
<1>3. TimeIsUp(RolledBack(u, p, t), t)
  <2> DEFINE w == RolledBack(u, p, t)
             exp == IF Days[p] = 0 \/ u.exp = Never THEN u.exp ELSE AtLeast(u.exp - Days[p], t)
  <2>1. w.status = u.status /\ w.plan = u.plan /\ w.exp = exp
    BY DEF RolledBack, UserRow
  <2>2. u.exp \in Nat \cup {Never}
    BY DEF UserRow, Dates
  <2>3. u.exp = Never \/ ~(u.exp > t) => exp = Never \/ ~(exp > t)
    BY <1>1, <2>2 DEF AtLeast
  <2> HIDE DEF w, exp
  <2>4. TimeIsUp(w, t)
    BY <2>1, <2>3 DEF TimeIsUp, Unexpired
  <2> QED BY <2>4 DEF w
<1> QED BY <1>2, <1>3 DEF RefundRow

LEMMA ExpiredStep ==
    ASSUME Ops \cap {"login", "edit"} = {}, ExpiredInv, [SubNext]_subVars
    PROVE  ExpiredInv'
<1>1. SubTypeInv'
  BY SubTypeStep DEF ExpiredInv
<1>2. user \in UserRow /\ now \in Nat /\ TimeIsUp(user, now) /\ login = FALSE /\ edit = {}
  BY SubscriptionAssumption DEF ExpiredInv, SubTypeInv, SubTypeOK
<1>3. login' = FALSE /\ edit' = {}
  BY <1>2 DEF SubNext, subVars, Buy, BuyFree, Refund, Activate, Use, Tick, ExpireOverdueUsers,
      MarkAllTrafficExhausted, CycleRestore, CyclePick, CycleReset, Disable, Enable,
      ResetTraffic, LoginRead, LoginMark, EditRead, EditSave
<1>4. SUFFICES TimeIsUp(user', now')
  BY <1>1, <1>3 DEF ExpiredInv
<1>5. ASSUME NEW p \in Plans, NEW renew,
             user' = SetUserPlan(user, p, now, renew), now' = now
      PROVE  TimeIsUp(user', now')
  BY <1>2, <1>5 DEF SetUserPlan, Reactivated, TimeIsUp
<1>6. ASSUME NEW o \in Orders, Refund(o) PROVE TimeIsUp(user', now')
  <2>1. order[o].plan \in Plans
    BY <1>6 DEF Refund, ExpiredInv, SubTypeInv, OrdersHavePlans
  <2>2. TimeIsUp(RefundRow(user, order[o].plan, now, Paid \ {o} # {}), now)
    BY <1>2, <2>1, RefundTimeIsUp, Zenon
  <2> QED BY <1>2, <1>6, <2>2, Zenon DEF Refund
<1>7. CASE Use \/ MarkAllTrafficExhausted
  BY <1>2, <1>7 DEF Use, MarkAllTrafficExhausted, MarkExhausted, UserRow, TimeIsUp, Unexpired
<1>8. CASE Tick
  BY <1>2, <1>8 DEF Tick, TimeIsUp, Unexpired, UserRow, Dates
<1>9. CASE ExpireOverdueUsers
  BY <1>2, <1>9 DEF ExpireOverdueUsers, Overdue, TimeIsUp, Unexpired, UserRow, Dates
<1>10. CASE CycleRestore \/ Disable \/ Enable
  BY <1>2, <1>10 DEF CycleRestore, Disable, Enable, UserRow, TimeIsUp
<1>11. CASE CycleReset \/ ResetTraffic
  BY <1>2, <1>11 DEF CycleReset, ResetTraffic, UserRow, TimeIsUp
<1>12. CASE CyclePick \/ UNCHANGED subVars
  BY <1>2, <1>12 DEF CyclePick, subVars
<1>13. CASE LoginRead \/ LoginMark \/ EditSave \/ \E f \in Forms : EditRead(f)
  BY <1>2, <1>13 DEF LoginRead, LoginMark, EditSave, EditRead
<1>14. ASSUME NEW o \in Orders, NEW p \in Plans, Buy(o, p) \/ BuyFree(o, p)
       PROVE  TimeIsUp(user', now')
  BY <1>5, <1>14 DEF Buy, BuyFree
<1>15. ASSUME NEW p \in Plans, Activate(p) PROVE TimeIsUp(user', now')
  BY <1>5, <1>15 DEF Activate
<1> QED BY <1>6, <1>7, <1>8, <1>9, <1>10, <1>11, <1>12, <1>13, <1>14, <1>15 DEF SubNext

\* Without the two saves of stale values (the goroutine of Login and the edit form,
\* which break it), nobody whose time is
\* running is ever marked expired.
THEOREM ExpiredCorrect ==
    ASSUME Ops \cap {"login", "edit"} = {}
    PROVE  SubSpec => []ExpiredHasExpired
<1>1. SubInit => ExpiredInv
  BY SubTypeInit DEF SubInit, NewUser, TimeIsUp, ExpiredInv
<1>2. ExpiredInv /\ [SubNext]_subVars => ExpiredInv'
  BY ExpiredStep
<1>3. ExpiredInv => ExpiredHasExpired
  BY DEF ExpiredInv, TimeIsUp, ExpiredHasExpired
<1> QED BY <1>1, <1>2, <1>3, PTL DEF SubSpec

-----------------------------------------------------------------------------
(* Disabled                                                                *)

LEMMA DisabledStep ==
    ASSUME SubTypeInv, [SubNext]_subVars, user.status = "disabled", ~StatusWritten
    PROVE  user'.status = "disabled"
<1>1. user \in UserRow
  BY DEF SubTypeInv, SubTypeOK
<1>2. ASSUME NEW p, NEW renew, user' = SetUserPlan(user, p, now, renew)
      PROVE  user'.status = "disabled"
  BY <1>2 DEF SetUserPlan, Reactivated
<1>3. ASSUME NEW o \in Orders, NEW p \in Plans, Buy(o, p) \/ BuyFree(o, p)
      PROVE  user'.status = "disabled"
  BY <1>2, <1>3 DEF Buy, BuyFree
<1>4. ASSUME NEW p \in Plans, Activate(p) PROVE user'.status = "disabled"
  BY <1>2, <1>4 DEF Activate
<1>5. CASE Use
  BY <1>1, <1>5 DEF Use, MarkExhausted, Exhausted, UserRow
<1>6. CASE Disable
  BY <1>1, <1>6 DEF Disable, UserRow
<1>7. CASE Tick \/ CyclePick \/ LoginRead \/ (\E f \in Forms : EditRead(f)) \/ UNCHANGED subVars
  BY <1>7 DEF Tick, CyclePick, LoginRead, EditRead, subVars
<1>8. ~ExpireOverdueUsers /\ ~MarkAllTrafficExhausted /\ ~CycleRestore
  BY DEF ExpireOverdueUsers, Overdue, MarkAllTrafficExhausted, Exhausted, CycleRestore
<1> QED BY <1>3, <1>4, <1>5, <1>6, <1>7, <1>8 DEF SubNext, StatusWritten

\* Whatever the row went through, no payment, renewal, gift, report or five-minute cron
\* job brings back an account the administrator has disabled.
THEOREM DisabledCorrect == SubSpec => DisabledStays
<1>1. SubTypeInv /\ [SubNext]_subVars
      => [user.status = "disabled" /\ ~StatusWritten => user'.status = "disabled"]_subVars
  BY DisabledStep
<1> QED BY <1>1, SubTypeInit, SubTypeStep, PTL DEF SubSpec, DisabledStays

-----------------------------------------------------------------------------
(* Time                                                                    *)

Standing(p) == {o \in Paid : order[o].plan = p}

\* An order that is placed or refunded changes the days paid for by its plan's days.
LEMMA PaidNumbers ==
    ASSUME SubTypeInv, NEW p \in Plans
    PROVE  /\ IsFiniteSet(Standing(p)) /\ Cardinality(Standing(p)) \in Nat
           /\ DaysPaid(p) = Days[p] * Cardinality(Standing(p)) /\ DaysPaid(p) \in Nat
           /\ Days[p] \in Nat
<1>1. IsFiniteSet(Standing(p))
  <2>1. Standing(p) \subseteq Orders /\ IsFiniteSet(Orders)
    BY SubscriptionAssumption DEF Standing, Paid
  <2> QED BY <2>1, FS_Subset
<1>2. Cardinality(Standing(p)) \in Nat /\ Days[p] \in Nat
  BY <1>1, FS_CardinalityType, EntitlementAssumption
<1>3. DaysPaid(p) = Days[p] * Cardinality(Standing(p))
  BY DEF DaysPaid, Standing
<1>4. \A c, d \in Nat : d * c \in Nat
  OBVIOUS
<1> QED BY <1>1, <1>2, <1>3, <1>4

LEMMA OneMore == \A c, d \in Nat : d * (c + 1) = d * c + d
OBVIOUS

LEMMA DaysPlaced ==
    ASSUME SubTypeInv, NEW o \in Orders, NEW p \in Plans, order[o].st = "none",
           order' = [order EXCEPT ![o] = [st |-> "paid", plan |-> p]]
    PROVE  /\ DaysPaid(p)' = DaysPaid(p) + Days[p]
           /\ \A q \in Plans \ {p} : DaysPaid(q)' = DaysPaid(q)
<1>1. /\ order'[o] = [st |-> "paid", plan |-> p]
      /\ \A r \in Orders \ {o} : order'[r] = order[r]
  BY DEF SubTypeInv, SubTypeOK
<1>2. \A q \in Plans \ {p} : Standing(q)' = Standing(q)
  BY <1>1 DEF Standing, Paid
<1>3. Standing(p)' = Standing(p) \cup {o} /\ o \notin Standing(p)
  BY <1>1 DEF Standing, Paid
<1>4. Cardinality(Standing(p)') = Cardinality(Standing(p)) + 1
  BY <1>3, PaidNumbers, FS_AddElement
<1>5. DaysPaid(p)' = Days[p] * Cardinality(Standing(p)')
  BY DEF DaysPaid, Standing, Paid
<1>6. DaysPaid(p)' = DaysPaid(p) + Days[p]
  BY <1>4, <1>5, PaidNumbers, OneMore
<1>7. \A q \in Plans \ {p} : DaysPaid(q)' = DaysPaid(q)
  BY <1>2 DEF DaysPaid, Standing, Paid
<1> QED BY <1>6, <1>7

LEMMA DaysRefunded ==
    ASSUME SubTypeInv, NEW o \in Orders, order[o].st = "paid",
           order' = [order EXCEPT ![o].st = "refunded"]
    PROVE  LET p == order[o].plan IN
           /\ p \in Plans
           /\ DaysPaid(p)' \in Nat /\ DaysPaid(p)' = DaysPaid(p) - Days[p]
           /\ \A q \in Plans \ {p} : DaysPaid(q)' = DaysPaid(q)
<1> DEFINE p == order[o].plan
<1>0. p \in Plans
  BY DEF SubTypeInv, OrdersHavePlans
<1>1. /\ order'[o].st = "refunded"
      /\ \A r \in Orders \ {o} : order'[r] = order[r]
  BY DEF SubTypeInv, SubTypeOK
<1>2. \A q \in Plans \ {p} : Standing(q)' = Standing(q)
  BY <1>1 DEF Standing, Paid
<1>3. Standing(p)' = Standing(p) \ {o} /\ o \in Standing(p)
  BY <1>1 DEF Standing, Paid
<1> HIDE DEF p
<1>4. /\ Cardinality(Standing(p)') \in Nat
      /\ Cardinality(Standing(p)) = Cardinality(Standing(p)') + 1
  <2>1. IsFiniteSet(Standing(p)') /\ Cardinality(Standing(p)') = Cardinality(Standing(p)) - 1
    BY <1>0, <1>3, PaidNumbers, FS_RemoveElement
  <2> QED BY <1>0, <2>1, PaidNumbers, FS_CardinalityType
<1>5. DaysPaid(p)' = Days[p] * Cardinality(Standing(p)')
  BY DEF DaysPaid, Standing, Paid, p
<1>6. DaysPaid(p) = DaysPaid(p)' + Days[p]
  BY <1>0, <1>4, <1>5, PaidNumbers, OneMore
<1>7. DaysPaid(p)' \in Nat
  <2>1. \A c, d \in Nat : d * c \in Nat
    OBVIOUS
  <2> QED BY <1>0, <1>4, <1>5, <2>1, PaidNumbers
<1>8. \A q \in Plans \ {p} : DaysPaid(q)' = DaysPaid(q)
  BY <1>2 DEF DaysPaid, Standing, Paid
<1> QED BY <1>0, <1>6, <1>7, <1>8, PaidNumbers DEF p

PaidFor(u, t, days) == u.exp # Never /\ u.exp <= t + days
TimePaid == user.plan # None => PaidFor(user, now, DaysPaid(user.plan))
TimeInv == SubTypeInv /\ edit = {} /\ TimePaid

\* What a purchase leaves is paid for if the row was: by what was paid before and the days
\* of the plan.
LEMMA PurchasePaid ==
    ASSUME NEW u \in UserRow, NEW p \in Plans, NEW t \in Nat, NEW renew \in BOOLEAN,
           NEW paid \in Nat, Days[p] > 0, u.plan = p => PaidFor(u, t, paid)
    PROVE  LET w == SetUserPlan(u, p, t, renew) IN
           w = u \/ (w.plan = p /\ PaidFor(w, t, paid + Days[p]))
<1>1. Days[p] \in Nat /\ Never \notin Int
  BY EntitlementAssumption
<1>2. CASE ~renew /\ u.plan \notin {None, p} /\ Unexpired(u, t)
  BY <1>2 DEF SetUserPlan
<1>3. CASE ~(~renew /\ u.plan \notin {None, p} /\ Unexpired(u, t))
  <2> DEFINE base == IF renew /\ Renews(u, p, t) THEN u.exp ELSE t
             w == SetUserPlan(u, p, t, renew)
  <2>1. w.plan = p /\ w.exp = base + Days[p]
    BY <1>1, <1>3 DEF SetUserPlan
  <2>2. base \in Nat /\ base <= t + paid
    <3>1. CASE renew /\ Renews(u, p, t)
      <4>1. u.plan = p /\ u.exp # Never /\ u.exp <= t + paid
        BY <3>1 DEF Renews, PaidFor
      <4> QED BY <3>1, <4>1 DEF UserRow, Dates
    <3>2. CASE ~(renew /\ Renews(u, p, t))
      BY <3>2
    <3> QED BY <3>1, <3>2
  <2> HIDE DEF base, w
  <2>3. PaidFor(w, t, paid + Days[p])
    BY <1>1, <2>1, <2>2 DEF PaidFor
  <2> QED BY <2>1, <2>3 DEF w
<1> QED BY <1>2, <1>3

LEMMA RollbackPaid ==
    ASSUME NEW u \in UserRow, NEW p \in Plans, NEW t \in Nat, NEW paid \in Nat, NEW left \in Nat,
           PaidFor(u, t, paid), left = paid - Days[p]
    PROVE  RolledBack(u, p, t).plan = u.plan /\ PaidFor(RolledBack(u, p, t), t, left)
<1>1. Days[p] \in Nat /\ Never \notin Int
  BY EntitlementAssumption
<1> DEFINE exp == IF Days[p] = 0 \/ u.exp = Never THEN u.exp ELSE AtLeast(u.exp - Days[p], t)
           w == RolledBack(u, p, t)
<1>2. w.plan = u.plan /\ w.exp = exp
  BY DEF RolledBack, UserRow
<1>3. u.exp \in Nat /\ u.exp <= t + paid
  BY DEF UserRow, Dates, PaidFor
<1>4. exp # Never /\ exp <= t + left
  <2>1. u.exp # Never
    BY <1>1, <1>3
  <2> QED BY <1>1, <1>3, <2>1 DEF AtLeast
<1> HIDE DEF exp, w
<1>5. PaidFor(w, t, left)
  BY <1>2, <1>4 DEF PaidFor
<1> QED BY <1>2, <1>5 DEF w

LEMMA TimeStep ==
    ASSUME Ops \cap {"activate", "fault", "edit"} = {}, \A p \in Plans : Days[p] > 0,
           TimeInv, [SubNext]_subVars
    PROVE  TimeInv'
<1>1. SubTypeInv /\ SubTypeInv' /\ edit = {}
  BY SubTypeStep DEF TimeInv
<1>t. /\ user \in UserRow /\ now \in Nat /\ None \notin Plans /\ Never \notin Int
      /\ user.plan # None => user.plan \in Plans
      /\ order \in [Orders -> [st : {"none", "paid", "refunded"}, plan : Plans \cup {None}]]
  BY <1>1, SubscriptionAssumption, EntitlementAssumption DEF SubTypeInv, SubTypeOK, UserRow
<1>2. edit' = {}
  BY <1>1 DEF SubNext, subVars, Buy, BuyFree, Refund, Activate, Use, Tick, ExpireOverdueUsers,
      MarkAllTrafficExhausted, CycleRestore, CyclePick, CycleReset, Disable, Enable,
      ResetTraffic, LoginRead, LoginMark, EditRead, EditSave
<1>3. SUFFICES TimePaid'
  BY <1>1, <1>2 DEF TimeInv
<1>4. ASSUME UNCHANGED <<now, order>>, user'.plan = user.plan, user'.exp = user.exp
      PROVE  TimePaid'
  BY <1>4 DEF TimePaid, TimeInv, PaidFor, DaysPaid, Paid
<1>5. ASSUME NEW o \in Orders, NEW p \in Plans, Buy(o, p) \/ BuyFree(o, p) PROVE TimePaid'
  <2>1. PICK renew \in BOOLEAN : user' = SetUserPlan(user, p, now, renew)
    BY <1>5, Zenon DEF Buy, BuyFree
  <2>2. /\ order[o].st = "none" /\ now' = now
        /\ order' = [order EXCEPT ![o] = [st |-> "paid", plan |-> p]]
    BY <1>5 DEF Buy, BuyFree
  <2>3. /\ DaysPaid(p)' = DaysPaid(p) + Days[p]
        /\ \A q \in Plans \ {p} : DaysPaid(q)' = DaysPaid(q)
    BY <1>1, <2>2, DaysPlaced
  <2>4. Days[p] \in Nat /\ \A q \in Plans : DaysPaid(q) \in Nat
    BY <1>1, PaidNumbers
  <2>5. user' = user \/ (user'.plan = p /\ PaidFor(user', now, DaysPaid(p) + Days[p]))
    <3>1. user.plan = p => PaidFor(user, now, DaysPaid(p))
      BY <1>t DEF TimeInv, TimePaid
    <3> QED BY <1>t, <2>1, <2>4, <3>1, PurchasePaid
  <2>6. CASE user' = user
    <3>1. SUFFICES ASSUME user.plan # None PROVE PaidFor(user, now, DaysPaid(user.plan)')
      BY <2>2, <2>6 DEF TimePaid, DaysPaid
    <3>2. user.plan \in Plans /\ PaidFor(user, now, DaysPaid(user.plan))
      BY <1>t, <3>1 DEF TimeInv, TimePaid
    <3>3. DaysPaid(user.plan)' \in Nat /\ DaysPaid(user.plan) <= DaysPaid(user.plan)'
      <4>1. CASE user.plan = p
        <5>1. DaysPaid(user.plan)' = DaysPaid(p) + Days[p]
          BY <2>3, <2>6, <4>1 DEF DaysPaid
        <5> QED BY <2>4, <4>1, <5>1
      <4>2. CASE user.plan # p
        <5>1. DaysPaid(user.plan)' = DaysPaid(user.plan)
          BY <2>3, <2>6, <3>2, <4>2 DEF DaysPaid
        <5> QED BY <2>4, <3>2, <5>1
      <4> QED BY <4>1, <4>2
    <3>4. user.exp \in Nat
      BY <1>t, <3>2 DEF PaidFor, UserRow, Dates
    <3> QED BY <1>t, <2>4, <3>2, <3>3, <3>4 DEF PaidFor
  <2>7. CASE user'.plan = p /\ PaidFor(user', now, DaysPaid(p) + Days[p])
    <3>1. DaysPaid(user.plan)' = DaysPaid(p) + Days[p]
      BY <2>3, <2>7 DEF DaysPaid
    <3> QED BY <2>2, <2>7, <3>1 DEF TimePaid, PaidFor
  <2> QED BY <2>5, <2>6, <2>7
<1>6. ASSUME NEW o \in Orders, Refund(o) PROVE TimePaid'
  <2> DEFINE p == order[o].plan
  <2>1. /\ order[o].st = "paid" /\ now' = now
        /\ order' = [order EXCEPT ![o].st = "refunded"]
    BY <1>6 DEF Refund
  <2>2. user' = RefundRow(user, p, now, Paid \ {o} # {})
    BY <1>6 DEF Refund
  <2>3. /\ p \in Plans
        /\ DaysPaid(p)' \in Nat /\ DaysPaid(p)' = DaysPaid(p) - Days[p]
        /\ \A q \in Plans \ {p} : DaysPaid(q)' = DaysPaid(q)
    BY <1>1, <2>1, DaysRefunded
  <2>c. order'[o].plan = p
    BY <1>t, <2>1
  <2> HIDE DEF p
  <2>4. CASE user.plan # p
    <3>1. user' = user
      BY <2>2, <2>4 DEF RefundRow
    <3>2. user.plan # None => DaysPaid(user.plan)' = DaysPaid(user.plan)
      <4>1. SUFFICES ASSUME user.plan # None PROVE DaysPaid(user.plan)' = DaysPaid(user.plan)
        OBVIOUS
      <4>2. user.plan \in Plans \ {p}
        BY <1>t, <2>4, <4>1
      <4> QED BY <2>3, <3>1, <4>2 DEF DaysPaid
    <3> QED BY <2>1, <3>1, <3>2 DEF TimePaid, TimeInv, PaidFor
  <2>5. CASE user.plan = p /\ Paid \ {o} = {}
    BY <2>2, <2>5 DEF RefundRow, Emptied, NewUser, TimePaid
  <2>6. CASE user.plan = p /\ Paid \ {o} # {}
    <3>1. user' = RolledBack(user, p, now)
      BY <2>2, <2>6 DEF RefundRow
    <3>2. PaidFor(user, now, DaysPaid(p)) /\ DaysPaid(p) \in Nat
      BY <1>1, <1>t, <2>3, <2>6, PaidNumbers DEF TimeInv, TimePaid
    <3>3. user'.plan = p /\ PaidFor(user', now, DaysPaid(p) - Days[p])
      BY <1>t, <2>3, <2>6, <3>1, <3>2, RollbackPaid
    <3>4. order'[o].plan = user'.plan
      BY <2>c, <3>3
    <3>5. DaysPaid(p)' = DaysPaid(user.plan)'
      <4>1. DaysPaid(order[o].plan)' = DaysPaid(user.plan)'
        BY <3>4 DEF DaysPaid
      <4> QED BY <4>1 DEF p
    <3> QED BY <2>1, <2>3, <3>3, <3>5 DEF TimePaid, PaidFor
  <2> QED BY <2>4, <2>5, <2>6
<1>7. CASE Tick
  <2>1. now' = now + 1 /\ user' = user /\ order' = order
    BY <1>7 DEF Tick
  <2>2. SUFFICES ASSUME user.plan # None PROVE PaidFor(user, now + 1, DaysPaid(user.plan))
    BY <2>1 DEF TimePaid, DaysPaid, Paid, PaidFor
  <2>3. PaidFor(user, now, DaysPaid(user.plan)) /\ DaysPaid(user.plan) \in Nat
    BY <1>1, <1>t, <2>2, PaidNumbers DEF TimeInv, TimePaid
  <2> QED BY <1>t, <2>3 DEF PaidFor, UserRow, Dates
<1>8. CASE Use \/ MarkAllTrafficExhausted
  <2>1. user'.plan = user.plan /\ user'.exp = user.exp /\ UNCHANGED <<now, order>>
    BY <1>t, <1>8 DEF Use, MarkAllTrafficExhausted, MarkExhausted, UserRow
  <2> QED BY <1>4, <2>1
<1>9. CASE \/ ExpireOverdueUsers \/ CycleRestore \/ CycleReset \/ Disable \/ Enable
           \/ ResetTraffic \/ LoginMark
  <2>1. user'.plan = user.plan /\ user'.exp = user.exp /\ UNCHANGED <<now, order>>
    BY <1>t, <1>9 DEF ExpireOverdueUsers, CycleRestore, CycleReset, Disable, Enable,
        ResetTraffic, LoginMark, UserRow
  <2> QED BY <1>4, <2>1
<1>10. CASE CyclePick \/ LoginRead \/ UNCHANGED subVars
  BY <1>4, <1>10 DEF CyclePick, LoginRead, subVars
<1>11. ASSUME NEW p \in Plans, Activate(p) PROVE TimePaid'
  BY <1>11 DEF Activate
<1>12. CASE EditSave \/ \E f \in Forms : EditRead(f)
  BY <1>1, <1>12 DEF EditSave, EditRead
<1> QED BY <1>5, <1>6, <1>7, <1>8, <1>9, <1>10, <1>11, <1>12 DEF SubNext

\* With plans of limited duration, and without gifts by hand, edit forms and refunds whose
\* count of the other paid orders fails, nobody ever has more time left than the standing
\* orders of the running plan have paid for.
THEOREM TimeIsPaidFor ==
    ASSUME Ops \cap {"activate", "fault", "edit"} = {}, \A p \in Plans : Days[p] > 0
    PROVE  SubSpec => []NeverMoreTimeThanPaid
<1>1. SubInit => TimeInv
  BY SubTypeInit DEF SubInit, NewUser, TimePaid, TimeInv
<1>2. TimeInv /\ [SubNext]_subVars => TimeInv'
  BY TimeStep
<1>3. TimeInv => NeverMoreTimeThanPaid
  BY DEF TimeInv, TimePaid, PaidFor, NeverMoreTimeThanPaid
<1> QED BY <1>1, <1>2, <1>3, PTL DEF SubSpec
=============================================================================
