------------------------------ MODULE Tickets ------------------------------
(***************************************************************************)
(* One support ticket.  A reply reads the ticket, adds its line and then   *)
(* writes a status derived from what it read; closing is one update that   *)
(* looks at nothing.  No step locks the row, none is in a transaction.     *)
(***************************************************************************)
EXTENDS Naturals, Sequences, SequencesExt

CONSTANTS
    Agents,        \* requests that run at a time
    MaxReplies,    \* bound: replies
    TicketFaults   \* bound: failing statements

ASSUME TicketAssumption == MaxReplies \in Nat /\ TicketFaults \in Nat

VARIABLES
    ticket,        \* status, last_reply_by
    thread,        \* reply_type of the replies
    answering,     \* answering[a]: a request, who it is from and the status it has read
    ticketFaults   \* failures so far

ticketVars == <<ticket, thread, answering, ticketFaults>>

Sides == {"user", "admin"}
TicketStatus == {"open", "replied", "closed"}
Resting == [at |-> "idle", from |-> "user", seen |-> "open"]

TicketTypeOK ==
    /\ ticket \in [status : TicketStatus, lastReplyBy : Sides]
    /\ thread \in Seq(Sides)
    /\ answering \in [Agents -> [at : {"idle", "add", "status", "close"}, from : Sides,
                                 seen : TicketStatus]]
    /\ ticketFaults \in 0..TicketFaults

\* CreateTicket; a failure to store the first line is dropped.
TicketInit ==
    /\ ticket = [status |-> "open", lastReplyBy |-> "user"]
    /\ thread \in {<<"user">>, <<>>}
    /\ answering = [a \in Agents |-> Resting]
    /\ ticketFaults = 0

\* Only an open ticket takes replies; the name of the replier is looked up after that.
ReplyReads(a, side) ==
    /\ answering[a] = Resting
    /\ ticket.status # "closed" /\ Len(thread) < MaxReplies
    /\ answering' = [answering EXCEPT ![a] =
                        [at |-> "add", from |-> side, seen |-> ticket.status]]
    /\ UNCHANGED <<ticket, thread, ticketFaults>>

AddReply(a) ==
    /\ answering[a].at = "add"
    /\ thread' = Append(thread, answering[a].from)
    /\ answering' = [answering EXCEPT ![a].at = "status"]
    /\ UNCHANGED <<ticket, ticketFaults>>

\* The reply of an administrator answers, the reply of the customer asks again.
StatusKept(a) == IF answering[a].from = "admin" THEN "replied" ELSE answering[a].seen
StatusAfter(a) ==
    IF answering[a].from = "admin" THEN "replied"
    ELSE IF answering[a].seen = "replied" THEN "open" ELSE answering[a].seen

UpdateTicketStatus(a) ==
    /\ answering[a].at = "status"
    /\ ticket' = [status |-> StatusAfter(a), lastReplyBy |-> answering[a].from]
    /\ answering' = [answering EXCEPT ![a] = Resting]
    /\ UNCHANGED <<thread, ticketFaults>>

\* A failed AddReply is an error, a failed UpdateTicketStatus is ignored.
ReplyFails(a) ==
    /\ answering[a].at \in {"add", "status"} /\ ticketFaults < TicketFaults
    /\ ticketFaults' = ticketFaults + 1
    /\ answering' = [answering EXCEPT ![a] = Resting]
    /\ UNCHANGED <<ticket, thread>>

CloseReads(a) ==
    /\ answering[a] = Resting /\ ticket.status # "closed"
    /\ answering' = [answering EXCEPT ![a] = [Resting EXCEPT !.at = "close"]]
    /\ UNCHANGED <<ticket, thread, ticketFaults>>

CloseTicket(a) ==
    /\ answering[a].at = "close"
    /\ ticket' = [ticket EXCEPT !.status = "closed"]
    /\ answering' = [answering EXCEPT ![a] = Resting]
    /\ UNCHANGED <<thread, ticketFaults>>

TicketNext ==
    \E a \in Agents :
        \/ \E side \in Sides : ReplyReads(a, side)
        \/ AddReply(a) \/ UpdateTicketStatus(a) \/ ReplyFails(a)
        \/ CloseReads(a) \/ CloseTicket(a)

TicketSpec == TicketInit /\ [][TicketNext]_ticketVars

-----------------------------------------------------------------------------
(* Correctness                                                             *)

\* Whatever replies overlap, fail or are overtaken by a close: a ticket that is not closed
\* is marked as answered exactly if the side that wrote its mark last is the administrator's.
AnsweredByAdmin ==
    ticket.status # "closed" =>
        (ticket.status = "replied" <=> ticket.lastReplyBy = "admin")
=============================================================================
