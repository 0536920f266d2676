--------------------------- MODULE MCSubscription ---------------------------
(* Instances of Subscription for TLC: p1 short, p2 long, p3 unlimited. *)
EXTENDS Subscription, TLC

CONSTANTS p1, p2, p3

QuotaOf == [p \in Plans |-> CASE p = p1 -> 2 [] p = p2 -> 3 [] OTHER -> 0]
DaysOf == QuotaOf
SymmetricOrders == Permutations(Orders)

\* Forms: a remark only; also no date, or one day from now.
Blank == [limit |-> Keep, days |-> Keep, plan |-> Keep]
RemarkOnly == {Blank}
Dates01 == {Blank, [Blank EXCEPT !.days = 0], [Blank EXCEPT !.days = 1]}
=============================================================================
