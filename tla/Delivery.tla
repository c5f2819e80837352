------------------------------ MODULE Delivery ------------------------------
(***************************************************************************)
(* What receiving promises the application of a Client, whatever tasks and *)
(* channels it is made of: every connection is a queue of messages, which  *)
(* are moved one by one, oldest first, to a single place where the         *)
(* application takes them.  Messages are given up only by a connection     *)
(* that fails, or after close().                                           *)
(***************************************************************************)
EXTENDS Integers, Sequences

CONSTANT Conns

VARIABLES
    closed,    \* close() was called
    arrived,   \* number of messages that arrived on each connection
    queue,     \* those not delivered yet, oldest first
    status,    \* "open", "ended" or "failed"
    inbox      \* what the application can take: at most one message

vars == <<closed, arrived, queue, status, inbox>>

Init ==
    /\ closed = FALSE
    /\ arrived = [c \in Conns |-> 0]
    /\ queue = [c \in Conns |-> <<>>]
    /\ status = [c \in Conns |-> "open"]
    /\ inbox = <<>>

\* A message comes in; a connection that is not open loses it.
Arrive(c) ==
    /\ arrived' = [arrived EXCEPT ![c] = @ + 1]
    /\ queue' = [queue EXCEPT ![c] =
                   IF status[c] = "open" THEN Append(@, arrived[c] + 1) ELSE @]
    /\ UNCHANGED <<closed, status, inbox>>

\* The oldest message of an open connection is handed over.
Deliver(c) ==
    /\ status[c] = "open"
    /\ queue[c] # <<>>
    /\ inbox = <<>>
    /\ inbox' = << <<c, Head(queue[c])>> >>
    /\ queue' = [queue EXCEPT ![c] = Tail(@)]
    /\ UNCHANGED <<closed, arrived, status>>

Take ==
    /\ inbox # <<>>
    /\ inbox' = <<>>
    /\ UNCHANGED <<closed, arrived, queue, status>>

Close ==
    /\ closed' = TRUE
    /\ UNCHANGED <<arrived, queue, status, inbox>>

\* Only a closed client discards a message of a connection that is open.
Discard(c) ==
    /\ closed
    /\ queue[c] # <<>>
    /\ queue' = [queue EXCEPT ![c] = Tail(@)]
    /\ UNCHANGED <<closed, arrived, status, inbox>>

\* A connection ends when everything is delivered, or the client is closed.
End(c) ==
    /\ status[c] = "open"
    /\ queue[c] = <<>> \/ closed
    /\ status' = [status EXCEPT ![c] = "ended"]
    /\ queue' = [queue EXCEPT ![c] = <<>>]
    /\ UNCHANGED <<closed, arrived, inbox>>

Fail(c) ==
    /\ status[c] = "open"
    /\ status' = [status EXCEPT ![c] = "failed"]
    /\ queue' = [queue EXCEPT ![c] = <<>>]
    /\ UNCHANGED <<closed, arrived, inbox>>

Next ==
    \/ Take \/ Close
    \/ \E c \in Conns :
         Arrive(c) \/ Deliver(c) \/ Discard(c) \/ End(c) \/ Fail(c)

Spec == Init /\ [][Next]_vars
=============================================================================
