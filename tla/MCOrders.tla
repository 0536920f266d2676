------------------------------ MODULE MCOrders ------------------------------
(***************************************************************************)
(* Instances of Orders for TLC.  A cfg picks the operations of the run with *)
(* Ops; the sets below are the mixes the README explains.                  *)
(***************************************************************************)
EXTENDS Orders, TLC

\* A coupon for the whole price is unlimited, others have one use.
OneUse == [c \in Coupons |-> IF c \in FullCoupons THEN 0 ELSE 1]

\* max_uses = 2.
TwoUses == [c \in Coupons |-> 2]

\* Requests and orders are interchangeable.
Symmetry == Permutations(Procs) \cup Permutations(Orders)
=============================================================================
