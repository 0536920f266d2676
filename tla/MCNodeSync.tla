---------------------------- MODULE MCNodeSync ----------------------------
(* Instances of NodeSync for TLC. *)
EXTENDS NodeSync, TLC
Upto(n, operations) == [ops |-> operations, changes |-> n]

\* Every operation and fault together with those it may race.  In the last three cases the
\* conditions of ListIsServed do not hold; they serve the other properties.
Changing == {Upto(3, {"grant", "revoke", "stale", "ping", "crash"}),
             Upto(3, {"lapse", "revoke", "redis", "xray"}),
             Upto(3, {"pay", "edit", "grant", "query"}),
             Upto(3, {"grant", "revoke", "edit"}),
             Upto(3, {"edit", "load", "crash", "pay"}),
             Upto(3, {"delete", "edit", "stale"}),
             Upto(3, {"rotate", "redeploy", "graceEnds", "edit"}),
             Upto(5, {"xray"}),
             Upto(3, {"pay", "lapse", "crash"}),
             Upto(3, {"grant", "lapse", "redis"}),
             Upto(2, {"down", "lost", "grant", "edit"})}
=============================================================================
