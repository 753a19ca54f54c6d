------------------------------- MODULE WSConn -------------------------------
(***************************************************************************)
(* One WSConn of src/internal/ws/connection.go: a bounded channel that any *)
(* goroutine may Send to, the writeLoop goroutine that drains it to the    *)
(* socket, and Close, which anybody may call, more than once.              *)
(*                                                                         *)
(* The actions are Go's.  A select takes any of its ready cases.  A sender *)
(* that finds none parks in the channel's FIFO of waiting senders; the     *)
(* next receive moves its message into the buffer, and cancelling the      *)
(* context wakes every parked sender at once.  A send on a closed channel  *)
(* panics.  sync.Once runs Close's three steps once; later callers wait    *)
(* for the first.                                                          *)
(***************************************************************************)
EXTENDS Naturals, SequencesExt

CONSTANTS
    Senders,    \* goroutines that Send: this socket's handler, the others', the sweeper
    Cap,        \* capacity of sendCh, 64 in the code
    MaxSends    \* bound: Send calls of each sender

ASSUME CapAssumption == Cap \in Nat \ {0}
ASSUME MaxSendsAssumption == MaxSends \in Nat

VARIABLES
    sendCh,     \* the channel's buffer
    chClosed,   \* close(sendCh) has run
    parked,     \* the senders blocked in Send, in order of arrival
    cancelled,  \* ctx is done
    once,       \* how far Close has come: "new", "cancelled", "closed", "done"
    socketOpen, \* c can still carry a frame
    writer,     \* writeLoop: "select", "writing", "failed" (in its own Close), "done"
    inflight,   \* the message writeLoop is writing, as a sequence of at most one
    calls,      \* Send calls each sender has made
    panicked,   \* the senders whose Send panicked
    accepted,   \* history: the messages Send put in the channel, in order
    written     \* history: the messages written to the socket, in order

channel == <<sendCh, chClosed, parked, accepted>>
vars == <<sendCh, chClosed, parked, cancelled, once, socketOpen, writer, inflight,
          calls, panicked, accepted, written>>

\* The n-th message of sender p.
Message == Senders \X (1 .. MaxSends)

TypeOK ==
    /\ sendCh \in Seq(Message) /\ Len(sendCh) <= Cap
    /\ chClosed \in BOOLEAN /\ cancelled \in BOOLEAN /\ socketOpen \in BOOLEAN
    /\ parked \in Seq(Senders)
    /\ once \in {"new", "cancelled", "closed", "done"}
    /\ writer \in {"select", "writing", "failed", "done"}
    /\ inflight \in Seq(Message) /\ Len(inflight) = (IF writer = "writing" THEN 1 ELSE 0)
    /\ calls \in [Senders -> 0 .. MaxSends]
    /\ panicked \in SUBSET Senders
    /\ accepted \in Seq(Message) /\ written \in Seq(Message)

Init ==
    /\ sendCh = <<>> /\ chClosed = FALSE /\ parked = <<>>
    /\ cancelled = FALSE /\ once = "new" /\ socketOpen = TRUE
    /\ writer = "select" /\ inflight = <<>>
    /\ calls = [p \in Senders |-> 0] /\ panicked = {}
    /\ accepted = <<>> /\ written = <<>>

-----------------------------------------------------------------------------
(* Send: a select of "put in the channel" and "the context is done" *)

IsFree(p) == ~Contains(parked, p) /\ p \notin panicked /\ calls[p] < MaxSends

\* The call p is about to make; every Send of p counts.
Calls(p) == IsFree(p) /\ calls' = [calls EXCEPT ![p] = @ + 1]

\* An operator named Bug... is a faulty version of the one after it; no action uses
\* it, it stands for a bug the checks must find.
BugUnbounded(p) ==
    /\ Calls(p)
    /\ ~chClosed
    /\ sendCh' = Append(sendCh, <<p, calls'[p]>>)
    /\ accepted' = Append(accepted, <<p, calls'[p]>>)
    /\ UNCHANGED <<chClosed, parked, cancelled, once, socketOpen, writer, inflight, panicked, written>>

BugDropOldest(p) ==
    /\ Calls(p)
    /\ ~chClosed
    /\ sendCh' = Append(IF Len(sendCh) < Cap THEN sendCh ELSE Tail(sendCh), <<p, calls'[p]>>)
    /\ accepted' = Append(accepted, <<p, calls'[p]>>)
    /\ UNCHANGED <<chClosed, parked, cancelled, once, socketOpen, writer, inflight, panicked, written>>

SendQueued(p) ==
    /\ Calls(p)
    /\ ~chClosed /\ Len(sendCh) < Cap
    /\ sendCh' = Append(sendCh, <<p, calls'[p]>>)
    /\ accepted' = Append(accepted, <<p, calls'[p]>>)
    /\ UNCHANGED <<chClosed, parked, cancelled, once, socketOpen, writer, inflight, panicked, written>>

SendRefused(p) ==
    /\ Calls(p)
    /\ cancelled
    /\ UNCHANGED <<channel, cancelled, once, socketOpen, writer, inflight, panicked, written>>

SendParks(p) ==
    /\ Calls(p)
    /\ ~chClosed /\ Len(sendCh) = Cap /\ ~cancelled
    /\ parked' = Append(parked, p)
    /\ UNCHANGED <<sendCh, chClosed, cancelled, once, socketOpen, writer, inflight,
                   panicked, accepted, written>>

\* With the channel closed both cases are ready, and the select may take the send.
SendPanics(p) ==
    /\ Calls(p)
    /\ chClosed
    /\ panicked' = panicked \union {p}
    /\ UNCHANGED <<channel, cancelled, once, socketOpen, writer, inflight, written>>

-----------------------------------------------------------------------------
(* Close: once.Do(cancel; close(sendCh); c.Close) *)

BugCloseWithoutCancel ==
    /\ once = "new"
    /\ once' = "cancelled"
    /\ UNCHANGED <<channel, cancelled, socketOpen, writer, inflight, calls, panicked, written>>

BugCloseOnlySocket ==
    /\ once = "new"
    /\ once' = "closed"
    /\ UNCHANGED <<channel, cancelled, socketOpen, writer, inflight, calls, panicked, written>>

\* cancel() wakes the parked senders: their Send returns "connection closed".
Cancel ==
    /\ once = "new"
    /\ once' = "cancelled"
    /\ cancelled' = TRUE
    /\ parked' = <<>>
    /\ UNCHANGED <<sendCh, chClosed, socketOpen, writer, inflight, calls, panicked, accepted, written>>

\* close(sendCh): a sender parked at this moment would panic.
CloseChannel ==
    /\ once = "cancelled"
    /\ once' = "closed"
    /\ chClosed' = TRUE
    /\ parked' = <<>>
    /\ panicked' = panicked \union ToSet(parked)
    /\ UNCHANGED <<sendCh, cancelled, socketOpen, writer, inflight, calls, accepted, written>>

CloseSocket ==
    /\ once = "closed"
    /\ once' = "done"
    /\ socketOpen' = FALSE
    /\ UNCHANGED <<channel, cancelled, writer, inflight, calls, panicked, written>>

\* The peer leaves, or the handler's own read fails and closes the socket.
SocketDies ==
    /\ socketOpen
    /\ socketOpen' = FALSE
    /\ UNCHANGED <<channel, cancelled, once, writer, inflight, calls, panicked, written>>

-----------------------------------------------------------------------------
(* writeLoop: a select of "receive" and "the context is done" *)

\* A receive makes room for the first parked sender, whose Send returns.
Receive ==
    /\ writer = "select" /\ sendCh # <<>>
    /\ writer' = "writing"
    /\ inflight' = <<Head(sendCh)>>
    /\ IF parked = <<>>
       THEN sendCh' = Tail(sendCh) /\ UNCHANGED <<parked, accepted>>
       ELSE LET m == <<Head(parked), calls[Head(parked)]>> IN
            /\ sendCh' = Append(Tail(sendCh), m)
            /\ accepted' = Append(accepted, m)
            /\ parked' = Tail(parked)
    /\ UNCHANGED <<chClosed, cancelled, once, socketOpen, calls, panicked, written>>

\* The channel is closed and drained, or the context is done, with or without messages left.
WriterStops ==
    /\ writer = "select"
    /\ cancelled \/ (chClosed /\ sendCh = <<>>)
    /\ writer' = "done"
    /\ UNCHANGED <<channel, cancelled, once, socketOpen, inflight, calls, panicked, written>>

WriteSucceeds ==
    /\ writer = "writing" /\ socketOpen
    /\ writer' = "select"
    /\ written' = written \o inflight
    /\ inflight' = <<>>
    /\ UNCHANGED <<channel, cancelled, once, socketOpen, calls, panicked>>

BugFailWithoutClose ==
    /\ writer = "writing"
    /\ writer' = "done"
    /\ inflight' = <<>>
    /\ socketOpen' = FALSE
    /\ UNCHANGED <<channel, cancelled, once, calls, panicked, written>>

BugFailedWriteGoesOn ==
    /\ writer = "writing"
    /\ writer' = "select"
    /\ inflight' = <<>>
    /\ UNCHANGED <<channel, cancelled, once, socketOpen, calls, panicked, written>>

\* A broken socket, or a peer that does not read for 5 s.  A Write cut short closes it.
WriteFails ==
    /\ writer = "writing"
    /\ writer' = "failed"
    /\ inflight' = <<>>
    /\ socketOpen' = FALSE
    /\ UNCHANGED <<channel, cancelled, once, calls, panicked, written>>

\* w.Close() inside writeLoop: the first call does the work, another waits for it.
WriterCloses ==
    \/ writer = "failed" /\ Cancel
    \/ /\ writer = "failed" /\ once = "done"
       /\ writer' = "done"
       /\ UNCHANGED <<channel, cancelled, once, socketOpen, inflight, calls, panicked, written>>

-----------------------------------------------------------------------------
Writer == Receive \/ WriterStops \/ WriteSucceeds \/ WriteFails \/ WriterCloses
Closing == CloseChannel \/ CloseSocket

Next ==
    \/ \E p \in Senders : SendQueued(p) \/ SendRefused(p) \/ SendParks(p) \/ SendPanics(p)
    \/ Cancel          \* Register, the sweeper or the end of the handler calls Close
    \/ SocketDies
    \/ Closing
    \/ Writer

Spec == Init /\ [][Next]_vars

\* The goroutine that writes and the one inside Close are scheduled; a write ends
\* within its 5 s.  Nobody has to Send, to Close, or to leave.
FairSpec == Spec /\ WF_vars(Writer) /\ WF_vars(Closing)

-----------------------------------------------------------------------------
Running == writer \in {"select", "writing"}

\* Nothing a Send has queued is lost, repeated or overtaken while writeLoop runs:
\* what is written, being written and buffered is what was accepted, in that order
\* (connection.go:74, :89, :104).  Afterwards what was written is still a prefix.
InOrder ==
    /\ IsPrefix(written, accepted)
    /\ Running => accepted = written \o inflight \o sendCh

\* The goroutines, the channel and the context are one mailbox of Cap + 1 messages (the
\* one being written has left the buffer), which breaks when writeLoop leaves its loop:
\* no interleaving of parked senders, receives and Close delivers a message twice, late
\* or out of its sender's order (:73-83, :88-116).
MB == INSTANCE Mailbox WITH
        Senders <- Senders,
        Numbers <- 1 .. MaxSends,
        Cap <- Cap + 1,
        queue <- IF Running THEN inflight \o sendCh ELSE <<>>,
        delivered <- written,
        broken <- ~Running
ImplementsMailbox == MB!Spec

\* Of what Send has reported as queued, at most a full buffer and the message being
\* written never reach the socket: writeLoop ends at its first failed write, and from
\* then on the buffer only fills up, however long the handlers go on sending
\* (connection.go:39, :74, :103-116).
LossIsBounded == Len(accepted) <= Len(written) + Cap + 1

\* A Send blocks only on a full buffer of a connection nobody has begun to close, and
\* each goroutine once: close(sendCh) finds nobody waiting to send on it, because the
\* context is cancelled first (connection.go:48-49).
ParkedOnlyWhenFull ==
    parked # <<>> => /\ Len(sendCh) = Cap
                     /\ once = "new"
                     /\ IsInjective(parked)
                     /\ ToSet(parked) \intersect panicked = {}

\* A blocked Send returns, whatever the peer does: a slow or vanished client cannot
\* hold the goroutine that broadcasts to it (:103-115).
SendReturns == \A p \in Senders : Contains(parked, p) ~> ~Contains(parked, p)

\* Close ends writeLoop: no goroutine is left behind (:123-125).
CloseEndsWriter == once # "new" ~> writer = "done"

\* errors.New("connection closed") (:80-82): a Send on a closed connection returns an
\* error.  It does not always: see SendPanics.
SendNeverPanics == panicked = {}
=============================================================================
