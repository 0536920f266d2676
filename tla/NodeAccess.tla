---------------------------- MODULE NodeAccess ----------------------------
(***************************************************************************)
(* What a node promises about the customers it serves, with no tokens,     *)
(* heartbeats, caches or restarts: it serves a list that was the panel's   *)
(* list at the moment it was fetched, or the list it served last, or       *)
(* nobody.  Module NodeSync, which models the panel's handlers and the      *)
(* agent's goroutines, is shown to implement this one.                      *)
(***************************************************************************)
CONSTANTS
    Users,      \* customers whose plan is bound to the node
    Threads,    \* whoever may be fetching at a time
    None        \* no list

VARIABLES
    listed,     \* the customers the panel would hand out now
    fetched,    \* fetched[t]: the list t has got and not put into use yet
    last,       \* the last list put into use, None before the first
    served      \* the list in use, None while the proxy is stopped

accessVars == <<listed, fetched, last, served>>

Lists == SUBSET Users

AccessTypeOK ==
    /\ listed \in Lists
    /\ fetched \in [Threads -> Lists \cup {None}]
    /\ last \in Lists \cup {None}
    /\ served \in Lists \cup {None}

AccessInit ==
    /\ listed \in Lists
    /\ fetched = [t \in Threads |-> None]
    /\ last = None
    /\ served = None

ListChanges ==
    /\ listed' \in Lists
    /\ UNCHANGED <<fetched, last, served>>

\* An empty list is never handed out.
Fetch(t) ==
    /\ listed # {}
    /\ fetched' = [fetched EXCEPT ![t] = listed]
    /\ UNCHANGED <<listed, last, served>>

\* The panel did not answer: fall back on the last list.
Reuse(t) ==
    /\ last # None
    /\ fetched' = [fetched EXCEPT ![t] = last]
    /\ UNCHANGED <<listed, last, served>>

\* The proxy is restarted with the new list, or does not come up with it.
PutToUse(t) ==
    /\ fetched[t] # None
    /\ last' = fetched[t]
    /\ served' \in {fetched[t], None}
    /\ fetched' = [fetched EXCEPT ![t] = None]
    /\ UNCHANGED listed

Stop ==
    /\ served' = None
    /\ UNCHANGED <<listed, fetched, last>>

\* The agent's process ends and forgets everything.
Forget ==
    /\ fetched' = [t \in Threads |-> None]
    /\ last' = None
    /\ served' = None
    /\ UNCHANGED listed

AccessNext ==
    \/ ListChanges \/ Stop \/ Forget
    \/ \E t \in Threads : Fetch(t) \/ Reuse(t) \/ PutToUse(t)

AccessSpec == AccessInit /\ [][AccessNext]_accessVars
=============================================================================
