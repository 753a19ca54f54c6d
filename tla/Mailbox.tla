------------------------------ MODULE Mailbox ------------------------------
(***************************************************************************)
(* What a WSConn promises to the goroutines that Send on it, with no       *)
(* channel, context or write loop in sight: a bounded queue whose messages *)
(* go to the client one at a time, in the order they were posted and each  *)
(* sender's in the order it made them, until the connection breaks; from   *)
(* then on the client gets nothing.  WSConn, the goroutines of             *)
(* src/internal/ws/connection.go, implements this specification.           *)
(***************************************************************************)
EXTENDS Naturals, SequencesExt

CONSTANTS
    Senders,    \* who posts
    Numbers,    \* how a sender numbers its messages
    Cap         \* messages that may wait

VARIABLES queue, delivered, broken

vars == <<queue, delivered, broken>>

Init == queue = <<>> /\ delivered = <<>> /\ broken = FALSE

\* The n-th message of p comes after all that p posted before.
Post(p, n) ==
    /\ ~broken
    /\ Len(queue) < Cap
    /\ \A m \in ToSet(delivered \o queue) : m[1] = p => m[2] < n
    /\ queue' = Append(queue, <<p, n>>)
    /\ UNCHANGED <<delivered, broken>>

Deliver ==
    /\ ~broken /\ queue # <<>>
    /\ delivered' = Append(delivered, Head(queue))
    /\ queue' = Tail(queue)
    /\ UNCHANGED broken

Break ==
    /\ ~broken
    /\ broken' = TRUE
    /\ queue' = <<>>
    /\ UNCHANGED delivered

Next == (\E p \in Senders, n \in Numbers : Post(p, n)) \/ Deliver \/ Break

Spec == Init /\ [][Next]_vars
=============================================================================
