----------------------------- MODULE MCPayment -----------------------------
(* Instances of Payment for TLC. *)
EXTENDS Payment, TLC

Interchangeable == Permutations(Handlers) \cup Permutations(Orders)
=============================================================================
