---------------------------- MODULE OrderLedger ----------------------------
(***************************************************************************)
(* What the order subsystem promises, with no database, no transactions    *)
(* and no concurrency: the life of an order and the number of times the    *)
(* plan it bought was granted.  Module Orders, which models the code's     *)
(* reads, row locks and commits, is shown to implement this one; module    *)
(* Payment is built on top of this one.                                    *)
(***************************************************************************)
EXTENDS Naturals, TLAPS

CONSTANT Orders

VARIABLES
    status,     \* status[o]: the status column of order o
    fulfilled   \* fulfilled[o]: how many times the plan of o was granted

ledgerVars == <<status, fulfilled>>

\* "absent" is a row that does not exist yet.
Status == {"absent", "pending", "paid", "expired", "cancelled", "refunded"}

\* The statuses PaySuccess accepts: money that arrives late is still honoured.
Payable == {"pending", "expired"}

LedgerTypeOK ==
    /\ status \in [Orders -> Status]
    /\ fulfilled \in [Orders -> Nat]

LedgerInit ==
    /\ status = [o \in Orders |-> "absent"]
    /\ fulfilled = [o \in Orders |-> 0]

Become(o, s) == status' = [status EXCEPT ![o] = s]
Grant(o) == fulfilled' = [fulfilled EXCEPT ![o] = @ + 1]

-----------------------------------------------------------------------------
\* CreateOrder with something left to pay.
Place(o) ==
    /\ status[o] = "absent"
    /\ Become(o, "pending")
    /\ UNCHANGED fulfilled

\* CreateOrder with a coupon that covers the price.
PlaceFree(o) ==
    /\ status[o] = "absent"
    /\ Become(o, "paid")
    /\ Grant(o)

\* PaySuccess: the status and the grant move together.
Pay(o) ==
    /\ status[o] \in Payable
    /\ Become(o, "paid")
    /\ Grant(o)

Cancel(o) ==
    /\ status[o] = "pending"
    /\ Become(o, "cancelled")
    /\ UNCHANGED fulfilled

Expire(o) ==
    /\ status[o] = "pending"
    /\ Become(o, "expired")
    /\ UNCHANGED fulfilled

Refund(o) ==
    /\ status[o] = "paid"
    /\ Become(o, "refunded")
    /\ UNCHANGED fulfilled

LedgerNext ==
    \E o \in Orders :
        Place(o) \/ PlaceFree(o) \/ Pay(o) \/ Cancel(o) \/ Expire(o) \/ Refund(o)

LedgerSpec == LedgerInit /\ [][LedgerNext]_ledgerVars

-----------------------------------------------------------------------------
\* The promise as a state predicate: an order was granted exactly once if its
\* money is or was in (paid, refunded), and never otherwise.
GrantedExactlyWhenPaid ==
    \A o \in Orders :
        fulfilled[o] = IF status[o] \in {"paid", "refunded"} THEN 1 ELSE 0

\* The promise follows from the legal transitions alone: whatever implements the
\* ledger grants no order twice and none for nothing.
THEOREM LedgerGrantsOnce == LedgerSpec => [](LedgerTypeOK /\ GrantedExactlyWhenPaid)
<1> DEFINE Inv == LedgerTypeOK /\ GrantedExactlyWhenPaid
<1>1. LedgerInit => Inv
  BY DEF LedgerInit, LedgerTypeOK, GrantedExactlyWhenPaid, Status
<1>2. Inv /\ [LedgerNext]_ledgerVars => Inv'
  <2> SUFFICES ASSUME Inv, [LedgerNext]_ledgerVars PROVE Inv'
    OBVIOUS
  <2> USE DEF LedgerTypeOK, GrantedExactlyWhenPaid, Status, Become, Grant
  <2>1. ASSUME NEW o \in Orders, Place(o) PROVE Inv'
    BY <2>1 DEF Place
  <2>2. ASSUME NEW o \in Orders, PlaceFree(o) PROVE Inv'
    BY <2>2 DEF PlaceFree
  <2>3. ASSUME NEW o \in Orders, Pay(o) PROVE Inv'
    BY <2>3 DEF Pay, Payable
  <2>4. ASSUME NEW o \in Orders, Cancel(o) PROVE Inv'
    BY <2>4 DEF Cancel
  <2>5. ASSUME NEW o \in Orders, Expire(o) PROVE Inv'
    BY <2>5 DEF Expire
  <2>6. ASSUME NEW o \in Orders, Refund(o) PROVE Inv'
    BY <2>6 DEF Refund
  <2>7. CASE UNCHANGED ledgerVars
    BY <2>7 DEF ledgerVars
  <2> QED BY <2>1, <2>2, <2>3, <2>4, <2>5, <2>6, <2>7 DEF LedgerNext
<1> QED BY <1>1, <1>2, PTL DEF LedgerSpec
=============================================================================
