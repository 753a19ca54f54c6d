---------------------------- MODULE WSConnProofs ----------------------------
(***************************************************************************)
(* WSConn for any number of senders, any capacity and any number of calls: *)
(* its types, the order of its messages, who may be blocked, and that it   *)
(* implements Mailbox.                                                     *)
(***************************************************************************)
EXTENDS WSConn, SequenceTheorems, TLAPS

-----------------------------------------------------------------------------
(* Prefixes *)

\* s is a prefix of t when t has s's elements at s's places.
LEMMA PrefixPointwise ==
    ASSUME NEW S, NEW s \in Seq(S), NEW t \in Seq(S)
    PROVE  IsPrefix(s, t) <=> /\ Len(s) <= Len(t)
                              /\ \A i \in 1 .. Len(s) : s[i] = t[i]
<1>1. SubSeq(s, 1, Len(s)) = s
    BY SubSeqFull
<1>2. ASSUME Len(s) <= Len(t)
      PROVE  /\ SubSeq(t, 1, Len(s)) \in Seq(S)
             /\ Len(SubSeq(t, 1, Len(s))) = Len(s)
             /\ \A i \in 1 .. Len(s) : SubSeq(t, 1, Len(s))[i] = t[i]
    <2>1. Len(s) \in Nat /\ Len(t) \in Nat
        BY LenProperties
    <2>2. \A i \in 1 .. Len(s) : t[i] \in S
        BY <1>2, <2>1, ElementOfSeq
    <2> QED
        BY <2>1, <2>2, SubSeqProperties
<1>3. ASSUME Len(s) <= Len(t), \A i \in 1 .. Len(s) : s[i] = t[i]
      PROVE  s = SubSeq(t, 1, Len(s))
    BY <1>2, <1>3, SeqEqual
<1> QED
    BY <1>1, <1>2, <1>3 DEF IsPrefix

\* A sequence is a prefix of what begins with it.
LEMMA PrefixOfConcat ==
    ASSUME NEW S, NEW s \in Seq(S), NEW u \in Seq(S)
    PROVE  IsPrefix(s, s \o u)
<1>1. Len(s) \in Nat /\ Len(u) \in Nat
    BY LenProperties
<1>2. /\ s \o u \in Seq(S)
      /\ Len(s \o u) = Len(s) + Len(u)
      /\ \A i \in 1 .. Len(s) + Len(u) :
            (s \o u)[i] = IF i <= Len(s) THEN s[i] ELSE u[i - Len(s)]
    BY ConcatProperties
<1>3. Len(s) <= Len(s \o u) /\ \A i \in 1 .. Len(s) : s[i] = (s \o u)[i]
    BY <1>1, <1>2
<1> QED
    BY <1>2, <1>3, PrefixPointwise

\* It stays a prefix when the longer sequence grows.
LEMMA PrefixOfAppend ==
    ASSUME NEW S, NEW s \in Seq(S), NEW t \in Seq(S), NEW e \in S, IsPrefix(s, t)
    PROVE  IsPrefix(s, Append(t, e))
<1>1. Len(s) \in Nat /\ Len(t) \in Nat
    BY LenProperties
<1>2. /\ Append(t, e) \in Seq(S)
      /\ Len(Append(t, e)) = Len(t) + 1
      /\ \A i \in 1 .. Len(t) : Append(t, e)[i] = t[i]
    BY AppendProperties
<1>3. Len(s) <= Len(t) /\ \A i \in 1 .. Len(s) : s[i] = t[i]
    BY PrefixPointwise
<1>4. Len(s) <= Len(Append(t, e)) /\ \A i \in 1 .. Len(s) : s[i] = Append(t, e)[i]
    BY <1>1, <1>2, <1>3
<1> QED
    BY <1>2, <1>4, PrefixPointwise

-----------------------------------------------------------------------------
(* The inductive invariant *)

\* How far Close has come decides the context, the channel and the socket.
CloseInOrder ==
    /\ cancelled <=> once # "new"
    /\ chClosed <=> once \in {"closed", "done"}

\* What was accepted from a sender it has called Send for, and a parked sender's
\* call is not accepted yet.
Numbered ==
    /\ \A p \in Senders : Contains(parked, p) => calls[p] > 0
    /\ \A i \in 1 .. Len(accepted) :
          /\ accepted[i][2] <= calls[accepted[i][1]]
          /\ Contains(parked, accepted[i][1]) => accepted[i][2] < calls[accepted[i][1]]

\* What was accepted and not written is in the buffer, but for one message.
AtMostOneLost == Len(accepted) <= Len(written) + 1 + Len(sendCh)

CInv == TypeOK /\ InOrder /\ AtMostOneLost /\ ParkedOnlyWhenFull /\ CloseInOrder /\ Numbered

-----------------------------------------------------------------------------
(* Types *)

\* The message of the call p makes is one.
LEMMA CallIsAMessage ==
    ASSUME TypeOK, NEW p \in Senders, Calls(p)
    PROVE  /\ calls[p] \in 0 .. MaxSends
           /\ calls[p] < MaxSends
           /\ calls'[p] = calls[p] + 1
           /\ <<p, calls'[p]>> \in Message
           /\ calls' \in [Senders -> 0 .. MaxSends]
           /\ ~Contains(parked, p)
BY MaxSendsAssumption DEF TypeOK, Calls, IsFree, Message

\* The sender parked first is one, and its message is one; the others stay in order.
LEMMA FirstParked ==
    ASSUME TypeOK, parked # <<>>
    PROVE  /\ Head(parked) \in Senders
           /\ parked[1] = Head(parked)
           /\ Contains(parked, Head(parked))
           /\ Tail(parked) \in Seq(Senders)
           /\ Len(Tail(parked)) = Len(parked) - 1
           /\ Len(parked) \in Nat \ {0}
           /\ \A i \in 1 .. Len(parked) - 1 : Tail(parked)[i] = parked[i + 1]
<1>1. parked \in Seq(Senders)
    BY DEF TypeOK
<1>2. Len(parked) \in Nat \ {0}
    BY <1>1, EmptySeq
<1>3. /\ Head(parked) \in Senders
      /\ Tail(parked) \in Seq(Senders)
      /\ Len(Tail(parked)) = Len(parked) - 1
      /\ \A i \in 1 .. Len(Tail(parked)) : Tail(parked)[i] = parked[i + 1]
    BY <1>1, HeadTailProperties
<1>4. parked[1] = Head(parked)
    BY <1>1, <1>2
<1> QED
    BY <1>2, <1>3, <1>4 DEF Contains

\* What Receive does to the buffer, the senders and the history.
LEMMA ReceiveEffect ==
    ASSUME TypeOK, Receive
    PROVE  /\ Head(sendCh) \in Message
           /\ Tail(sendCh) \in Seq(Message)
           /\ Len(Tail(sendCh)) = Len(sendCh) - 1
           /\ Len(sendCh) \in 1 .. Cap
           /\ inflight = <<>>
           /\ inflight' = <<Head(sendCh)>> /\ inflight' \in Seq(Message) /\ Len(inflight') = 1
<1>1. sendCh \in Seq(Message) /\ sendCh # <<>> /\ Len(sendCh) <= Cap
    BY DEF TypeOK, Receive
<1>2. /\ Head(sendCh) \in Message
      /\ Tail(sendCh) \in Seq(Message)
      /\ Len(Tail(sendCh)) = Len(sendCh) - 1
    BY <1>1, HeadTailProperties
<1>3. Len(sendCh) \in 1 .. Cap
    BY <1>1, EmptySeq, CapAssumption
<1>4. inflight \in Seq(Message) /\ Len(inflight) = 0
    BY DEF TypeOK, Receive
<1>5. inflight = <<>>
    BY <1>4, EmptySeq
<1>6. inflight' = <<Head(sendCh)>>
    BY DEF Receive
<1>7. inflight' \in Seq(Message) /\ Len(inflight') = 1
    BY <1>2, <1>6
<1> QED
    BY <1>2, <1>3, <1>5, <1>6, <1>7

\* When a receive lets the first parked sender in, its message is the next accepted.
LEMMA LetIn ==
    ASSUME TypeOK, Numbered, Receive, parked # <<>>
    PROVE  LET p == Head(parked)
               m == <<p, calls[p]>>
           IN /\ p \in Senders /\ calls[p] \in 1 .. MaxSends
              /\ m \in Message
              /\ sendCh' = Append(Tail(sendCh), m)
              /\ accepted' = Append(accepted, m)
              /\ parked' = Tail(parked)
<1>1. Head(parked) \in Senders /\ Contains(parked, Head(parked))
    BY FirstParked
<1>2. calls[Head(parked)] \in 1 .. MaxSends
    BY <1>1, MaxSendsAssumption DEF TypeOK, Numbered
<1> QED
    BY <1>1, <1>2 DEF Receive, Message

\* The types hold after every step.
LEMMA TypeStep ==
    ASSUME TypeOK, Numbered, [Next]_vars
    PROVE  TypeOK'
<1>1. ASSUME NEW p \in Senders, SendQueued(p)
      PROVE  TypeOK'
    <2>1. Calls(p)
        BY <1>1 DEF SendQueued
    <2>2. <<p, calls'[p]>> \in Message /\ calls' \in [Senders -> 0 .. MaxSends]
        BY <2>1, CallIsAMessage
    <2>3. sendCh' \in Seq(Message) /\ Len(sendCh') = Len(sendCh) + 1
        BY <1>1, <2>2, AppendProperties DEF SendQueued, TypeOK
    <2>4. accepted' \in Seq(Message)
        BY <1>1, <2>2, AppendProperties DEF SendQueued, TypeOK
    <2>5. Len(sendCh) \in Nat /\ Len(sendCh) < Cap
        BY <1>1, LenProperties DEF TypeOK, SendQueued
    <2>6. Len(sendCh') <= Cap
        BY <2>3, <2>5, CapAssumption
    <2> QED
        BY <1>1, <2>2, <2>3, <2>4, <2>6 DEF SendQueued, TypeOK
<1>2. ASSUME NEW p \in Senders, SendRefused(p) \/ SendParks(p) \/ SendPanics(p)
      PROVE  TypeOK'
    <2>1. Calls(p)
        BY <1>2 DEF SendRefused, SendParks, SendPanics
    <2>2. calls' \in [Senders -> 0 .. MaxSends]
        BY <2>1, CallIsAMessage
    <2>3. Append(parked, p) \in Seq(Senders)
        BY AppendProperties DEF TypeOK
    <2> QED
        BY <1>2, <2>2, <2>3 DEF SendRefused, SendParks, SendPanics, TypeOK, channel
<1>3. CASE Cancel
    BY <1>3 DEF Cancel, TypeOK
<1>4. CASE CloseChannel
    <2>1. ToSet(parked) \subseteq Senders
        BY DEF TypeOK, ToSet
    <2> QED
        BY <1>4, <2>1 DEF CloseChannel, TypeOK
<1>5. CASE CloseSocket \/ SocketDies
    BY <1>5 DEF CloseSocket, SocketDies, TypeOK, channel
<1>6. CASE Receive
    <2>1. /\ Tail(sendCh) \in Seq(Message) /\ Len(Tail(sendCh)) = Len(sendCh) - 1
          /\ Len(sendCh) \in 1 .. Cap
          /\ inflight' \in Seq(Message) /\ Len(inflight') = 1
        BY <1>6, ReceiveEffect
    <2>2. CASE parked = <<>>
        <3>1. /\ sendCh' \in Seq(Message) /\ Len(sendCh') <= Cap
              /\ parked' = parked /\ accepted' = accepted
            BY <1>6, <2>1, <2>2, CapAssumption DEF Receive
        <3> QED
            BY <1>6, <2>1, <3>1 DEF Receive, TypeOK
    <2>3. CASE parked # <<>>
        <3> DEFINE m == <<Head(parked), calls[Head(parked)]>>
        <3>1. /\ m \in Message
              /\ sendCh' = Append(Tail(sendCh), m)
              /\ accepted' = Append(accepted, m)
              /\ parked' = Tail(parked)
            BY <1>6, <2>3, LetIn
        <3> HIDE DEF m
        <3>2. sendCh' \in Seq(Message) /\ Len(sendCh') = Len(Tail(sendCh)) + 1
            BY <2>1, <3>1, AppendProperties
        <3>3. accepted' \in Seq(Message)
            BY <3>1, AppendProperties DEF TypeOK
        <3>4. parked' \in Seq(Senders)
            BY <2>3, <3>1, FirstParked
        <3>5. Len(sendCh') <= Cap
            BY <2>1, <3>2, CapAssumption
        <3> QED
            BY <1>6, <2>1, <3>2, <3>3, <3>4, <3>5 DEF Receive, TypeOK
    <2> QED
        BY <2>2, <2>3
<1>7. CASE WriteSucceeds
    <2>1. written \o inflight \in Seq(Message)
        BY ConcatProperties DEF TypeOK
    <2> QED
        BY <1>7, <2>1, EmptySeq DEF WriteSucceeds, TypeOK, channel
<1>8. CASE WriterStops \/ WriteFails \/ WriterCloses
    BY <1>8, EmptySeq DEF WriterStops, WriteFails, WriterCloses, Cancel, TypeOK, channel
<1>9. CASE UNCHANGED vars
    BY <1>9 DEF vars, TypeOK
<1> QED
    BY <1>1, <1>2, <1>3, <1>4, <1>5, <1>6, <1>7, <1>8, <1>9 DEF Next, Writer, Closing

-----------------------------------------------------------------------------
(* The rest of the invariant *)

\* The context is done from Close's first step on, the channel closed from its second.
LEMMA CloseStep ==
    ASSUME TypeOK, CloseInOrder, [Next]_vars
    PROVE  CloseInOrder'
<1> USE DEF TypeOK, CloseInOrder
<1>1. ASSUME NEW p \in Senders, SendQueued(p) \/ SendRefused(p) \/ SendParks(p) \/ SendPanics(p)
      PROVE  CloseInOrder'
    BY <1>1 DEF SendQueued, SendRefused, SendParks, SendPanics, channel
<1>2. CASE Cancel \/ SocketDies \/ Closing
    BY <1>2 DEF Cancel, SocketDies, Closing, CloseChannel, CloseSocket, channel
<1>3. CASE Writer
    BY <1>3 DEF Writer, Receive, WriterStops, WriteSucceeds, WriteFails, WriterCloses, Cancel, channel
<1>4. CASE UNCHANGED vars
    BY <1>4 DEF vars
<1> QED
    BY <1>1, <1>2, <1>3, <1>4 DEF Next

\* Who is in a queue after one more has joined it, and after the first has left it.
LEMMA JoinsQueue ==
    ASSUME TypeOK, NEW p \in Senders
    PROVE  /\ Append(parked, p) \in Seq(Senders)
           /\ Append(parked, p) # <<>>
           /\ \A q : Contains(Append(parked, p), q) <=> Contains(parked, q) \/ q = p
           /\ IsInjective(parked) /\ ~Contains(parked, p) => IsInjective(Append(parked, p))
<1>1. Len(parked) \in Nat /\ DOMAIN parked = 1 .. Len(parked)
    BY LenProperties DEF TypeOK
<1>2. /\ Append(parked, p) \in Seq(Senders)
      /\ Append(parked, p) # <<>>
      /\ Len(Append(parked, p)) = Len(parked) + 1
      /\ \A i \in 1 .. Len(parked) : Append(parked, p)[i] = parked[i]
      /\ Append(parked, p)[Len(parked) + 1] = p
    BY AppendProperties DEF TypeOK
<1>3. DOMAIN Append(parked, p) = 1 .. Len(parked) + 1
    BY <1>2, LenProperties
<1> QED
    BY <1>1, <1>2, <1>3 DEF Contains, IsInjective

LEMMA LeavesQueue ==
    ASSUME TypeOK, parked # <<>>, IsInjective(parked)
    PROVE  /\ Tail(parked) \in Seq(Senders)
           /\ \A q : Contains(Tail(parked), q) => Contains(parked, q) /\ q # Head(parked)
           /\ IsInjective(Tail(parked))
<1>1. Len(parked) \in Nat \ {0} /\ DOMAIN parked = 1 .. Len(parked)
    BY FirstParked, LenProperties DEF TypeOK
<1>2. /\ Tail(parked) \in Seq(Senders)
      /\ Len(Tail(parked)) = Len(parked) - 1
      /\ \A i \in 1 .. Len(parked) - 1 : Tail(parked)[i] = parked[i + 1]
      /\ parked[1] = Head(parked)
    BY FirstParked
<1>3. DOMAIN Tail(parked) = 1 .. Len(parked) - 1
    BY <1>2, LenProperties
<1> QED
    BY <1>1, <1>2, <1>3 DEF Contains, IsInjective

\* Being in the queue, said with a set.
LEMMA ContainsIsToSet ==
    ASSUME NEW S, NEW s \in Seq(S)
    PROVE  \A q : Contains(s, q) <=> q \in ToSet(s)
BY LenProperties DEF Contains, ToSet

\* Senders wait only for a full buffer, once each, and Close finds none.
LEMMA ParkedStep ==
    ASSUME TypeOK, ParkedOnlyWhenFull, CloseInOrder, Numbered, [Next]_vars
    PROVE  ParkedOnlyWhenFull'
<1>1. ASSUME parked' = <<>>
      PROVE  ParkedOnlyWhenFull'
    BY <1>1 DEF ParkedOnlyWhenFull
<1>2. ASSUME parked' = parked, Len(sendCh') = Len(sendCh), once' = once, panicked' = panicked
      PROVE  ParkedOnlyWhenFull'
    BY <1>2 DEF ParkedOnlyWhenFull
<1>3. ASSUME NEW p \in Senders, SendQueued(p)
      PROVE  ParkedOnlyWhenFull'
    <2>1. Len(sendCh) \in Nat /\ Len(sendCh) < Cap
        BY <1>3, LenProperties DEF SendQueued, TypeOK
    <2>2. parked = <<>>
        BY <2>1, CapAssumption DEF ParkedOnlyWhenFull
    <2> QED
        BY <1>1, <1>3, <2>2 DEF SendQueued
<1>4. ASSUME NEW p \in Senders, SendRefused(p)
      PROVE  ParkedOnlyWhenFull'
    BY <1>2, <1>4 DEF SendRefused, channel
<1>5. ASSUME NEW p \in Senders, SendParks(p)
      PROVE  ParkedOnlyWhenFull'
    <2>1. /\ parked' = Append(parked, p)
          /\ Len(sendCh') = Cap
          /\ once' = "new" /\ once = "new"
          /\ panicked' = panicked
        BY <1>5 DEF SendParks, CloseInOrder
    <2>2. ~Contains(parked, p) /\ p \notin panicked
        BY <1>5 DEF SendParks, Calls, IsFree
    <2>3. parked \in Seq(Senders)
        BY DEF TypeOK
    <2>4. IsInjective(parked) /\ ToSet(parked) \intersect panicked = {}
        <3>1. CASE parked # <<>>
            BY <3>1 DEF ParkedOnlyWhenFull
        <3>2. CASE parked = <<>>
            BY <3>2 DEF IsInjective, ToSet
        <3> QED
            BY <3>1, <3>2
    <2>5. /\ Append(parked, p) \in Seq(Senders)
          /\ IsInjective(Append(parked, p))
          /\ \A q : Contains(Append(parked, p), q) <=> Contains(parked, q) \/ q = p
        BY <2>2, <2>4, JoinsQueue
    <2>6. ToSet(Append(parked, p)) \intersect panicked = {}
        BY <2>2, <2>3, <2>4, <2>5, ContainsIsToSet
    <2> QED
        BY <2>1, <2>5, <2>6 DEF ParkedOnlyWhenFull
<1>6. ASSUME NEW p \in Senders, SendPanics(p)
      PROVE  ParkedOnlyWhenFull'
    <2>1. parked' = parked /\ once # "new"
        BY <1>6 DEF SendPanics, channel, CloseInOrder
    <2> QED
        BY <1>1, <2>1 DEF ParkedOnlyWhenFull
<1>7. CASE Cancel \/ CloseChannel
    BY <1>1, <1>7 DEF Cancel, CloseChannel
<1>8. CASE CloseSocket
    <2>1. parked' = parked /\ once # "new"
        BY <1>8 DEF CloseSocket, channel
    <2> QED
        BY <1>1, <2>1 DEF ParkedOnlyWhenFull
<1>9. CASE SocketDies \/ WriterStops \/ WriteSucceeds \/ WriteFails \/ UNCHANGED vars
    BY <1>2, <1>9 DEF SocketDies, WriterStops, WriteSucceeds, WriteFails, vars, channel
<1>10. CASE WriterCloses
    BY <1>1, <1>2, <1>10 DEF WriterCloses, Cancel, channel
<1>11. CASE Receive
    <2>1. CASE parked = <<>>
        BY <1>1, <1>11, <2>1 DEF Receive
    <2>2. CASE parked # <<>>
        <3> DEFINE m == <<Head(parked), calls[Head(parked)]>>
        <3>1. /\ Len(sendCh) = Cap /\ once = "new" /\ IsInjective(parked)
              /\ ToSet(parked) \intersect panicked = {}
            BY <2>2 DEF ParkedOnlyWhenFull
        <3>2. m \in Message /\ sendCh' = Append(Tail(sendCh), m) /\ parked' = Tail(parked)
            BY <1>11, <2>2, LetIn
        <3> HIDE DEF m
        <3>3. Tail(sendCh) \in Seq(Message) /\ Len(Tail(sendCh)) = Len(sendCh) - 1
            BY <1>11, ReceiveEffect
        <3>4. Len(sendCh') = Cap
            BY <3>1, <3>2, <3>3, AppendProperties, CapAssumption
        <3>5. /\ Tail(parked) \in Seq(Senders)
              /\ IsInjective(Tail(parked))
              /\ \A q : Contains(Tail(parked), q) => Contains(parked, q)
            BY <2>2, <3>1, LeavesQueue
        <3>6. parked \in Seq(Senders)
            BY DEF TypeOK
        <3>7. ToSet(Tail(parked)) \intersect panicked = {}
            BY <3>1, <3>5, <3>6, ContainsIsToSet
        <3>8. once' = once /\ panicked' = panicked
            BY <1>11 DEF Receive
        <3> QED
            BY <3>1, <3>2, <3>4, <3>5, <3>7, <3>8 DEF ParkedOnlyWhenFull
    <2> QED
        BY <2>1, <2>2
<1> QED
    BY <1>3, <1>4, <1>5, <1>6, <1>7, <1>8, <1>9, <1>10, <1>11 DEF Next, Writer, Closing

\* An accepted message names its sender and its call.
LEMMA AcceptedIsAMessage ==
    ASSUME TypeOK
    PROVE  /\ Len(accepted) \in Nat
           /\ \A i \in 1 .. Len(accepted) :
                 accepted[i][1] \in Senders /\ accepted[i][2] \in 1 .. MaxSends
<1>1. accepted \in Seq(Message)
    BY DEF TypeOK
<1>2. \A i \in 1 .. Len(accepted) : accepted[i] \in Message
    BY <1>1, ElementOfSeq
<1> QED
    BY <1>1, <1>2, LenProperties DEF Message

\* The numbers go on when message m = <<p, calls'[p]>> is accepted.
LEMMA NumberedByAppend ==
    ASSUME TypeOK, Numbered, NEW p \in Senders, NEW n \in 1 .. MaxSends,
           accepted' = Append(accepted, <<p, n>>),
           calls' \in [Senders -> 0 .. MaxSends],
           n <= calls'[p],
           \A q \in Senders : calls[q] <= calls'[q],
           \A q \in Senders : Contains(parked', q) => Contains(parked, q) /\ q # p
    PROVE  Numbered'
<1>1. /\ Len(accepted) \in Nat
      /\ \A i \in 1 .. Len(accepted) :
            accepted[i][1] \in Senders /\ accepted[i][2] \in 1 .. MaxSends
    BY AcceptedIsAMessage
<1>2. <<p, n>> \in Message
    BY DEF Message
<1>3. /\ Len(accepted') = Len(accepted) + 1
      /\ \A i \in 1 .. Len(accepted) : accepted'[i] = accepted[i]
      /\ accepted'[Len(accepted) + 1] = <<p, n>>
    BY <1>2, AppendProperties DEF TypeOK
<1>4. \A q \in Senders : calls[q] \in 0 .. MaxSends /\ calls'[q] \in 0 .. MaxSends
    BY DEF TypeOK
<1>5. \A q \in Senders : Contains(parked', q) => calls'[q] > 0
    BY <1>4, MaxSendsAssumption DEF Numbered
<1>6. ASSUME NEW i \in 1 .. Len(accepted')
      PROVE  /\ accepted'[i][2] <= calls'[accepted'[i][1]]
             /\ Contains(parked', accepted'[i][1]) => accepted'[i][2] < calls'[accepted'[i][1]]
    <2>1. CASE i \in 1 .. Len(accepted)
        <3>1. accepted'[i] = accepted[i] /\ accepted[i][1] \in Senders /\ accepted[i][2] \in Nat
            BY <1>1, <1>3, <2>1
        <3>2. /\ accepted[i][2] <= calls[accepted[i][1]]
              /\ Contains(parked, accepted[i][1]) => accepted[i][2] < calls[accepted[i][1]]
            BY <2>1 DEF Numbered
        <3>3. calls[accepted[i][1]] <= calls'[accepted[i][1]]
            BY <3>1
        <3> QED
            BY <1>4, <3>1, <3>2, <3>3, MaxSendsAssumption
    <2>2. CASE i = Len(accepted) + 1
        BY <1>3, <2>2
    <2> QED
        BY <1>1, <1>3, <2>1, <2>2
<1> QED
    BY <1>5, <1>6 DEF Numbered

\* They go on when a call is not accepted.
LEMMA NumberedByCall ==
    ASSUME TypeOK, Numbered,
           accepted' = accepted,
           calls' \in [Senders -> 0 .. MaxSends],
           \A q \in Senders : calls[q] <= calls'[q],
           \A q \in Senders : Contains(parked', q) => Contains(parked, q) \/ calls[q] < calls'[q]
    PROVE  Numbered'
<1>1. /\ Len(accepted) \in Nat
      /\ \A i \in 1 .. Len(accepted) :
            accepted[i][1] \in Senders /\ accepted[i][2] \in 1 .. MaxSends
    BY AcceptedIsAMessage
<1>2. \A q \in Senders : calls[q] \in 0 .. MaxSends /\ calls'[q] \in 0 .. MaxSends
    BY DEF TypeOK
<1>3. \A q \in Senders : Contains(parked', q) => calls'[q] > 0
    BY <1>2, MaxSendsAssumption DEF Numbered
<1>4. ASSUME NEW i \in 1 .. Len(accepted)
      PROVE  /\ accepted[i][2] <= calls'[accepted[i][1]]
             /\ Contains(parked', accepted[i][1]) => accepted[i][2] < calls'[accepted[i][1]]
    <2>1. accepted[i][1] \in Senders /\ accepted[i][2] \in 1 .. MaxSends
        BY <1>1
    <2>2. /\ accepted[i][2] <= calls[accepted[i][1]]
          /\ Contains(parked, accepted[i][1]) => accepted[i][2] < calls[accepted[i][1]]
        BY DEF Numbered
    <2> QED
        BY <1>2, <2>1, <2>2, MaxSendsAssumption
<1> QED
    BY <1>3, <1>4 DEF Numbered

\* Every step keeps the numbers in step with the calls.
LEMMA NumberedStep ==
    ASSUME TypeOK, TypeOK', ParkedOnlyWhenFull, Numbered, [Next]_vars
    PROVE  Numbered'
<1>1. /\ calls \in [Senders -> 0 .. MaxSends] /\ calls' \in [Senders -> 0 .. MaxSends]
      /\ \A q \in Senders : calls[q] \in 0 .. MaxSends
    BY DEF TypeOK
<1>2. ASSUME accepted' = accepted, calls' = calls, parked' = parked \/ parked' = <<>>
      PROVE  Numbered'
    <2>1. \A q \in Senders : Contains(parked', q) => Contains(parked, q)
        BY <1>2 DEF Contains
    <2>2. \A q \in Senders : calls[q] <= calls'[q]
        BY <1>1, <1>2, MaxSendsAssumption
    <2> QED
        BY <1>1, <1>2, <2>1, <2>2, NumberedByCall
<1>3. ASSUME NEW p \in Senders, Calls(p)
      PROVE  /\ \A q \in Senders : calls[q] <= calls'[q]
             /\ calls[p] < calls'[p]
    <2>1. calls' = [calls EXCEPT ![p] = @ + 1]
        BY <1>3 DEF Calls
    <2> QED
        BY <1>1, <2>1, MaxSendsAssumption
<1>4. ASSUME NEW p \in Senders, SendQueued(p)
      PROVE  Numbered'
    <2>1. Calls(p) /\ accepted' = Append(accepted, <<p, calls'[p]>>) /\ parked' = parked
        BY <1>4 DEF SendQueued
    <2>2. calls'[p] \in 1 .. MaxSends /\ ~Contains(parked, p)
        BY <2>1, CallIsAMessage DEF Message
    <2>3. \A q \in Senders : Contains(parked', q) => Contains(parked, q) /\ q # p
        BY <2>1, <2>2
    <2>4. \A q \in Senders : calls[q] <= calls'[q]
        BY <1>3, <2>1
    <2>5. PICK n \in 1 .. MaxSends : n = calls'[p]
        BY <2>2
    <2>6. accepted' = Append(accepted, <<p, n>>) /\ n <= calls'[p]
        BY <2>1, <2>5, MaxSendsAssumption
    <2> QED
        BY <1>1, <2>3, <2>4, <2>6, NumberedByAppend
<1>5. ASSUME NEW p \in Senders, SendRefused(p) \/ SendPanics(p)
      PROVE  Numbered'
    <2>1. Calls(p) /\ accepted' = accepted /\ parked' = parked
        BY <1>5 DEF SendRefused, SendPanics, channel
    <2> QED
        BY <1>1, <1>3, <2>1, NumberedByCall
<1>6. ASSUME NEW p \in Senders, SendParks(p)
      PROVE  Numbered'
    <2>1. Calls(p) /\ accepted' = accepted /\ parked' = Append(parked, p)
        BY <1>6 DEF SendParks
    <2>2. \A q \in Senders : Contains(parked', q) => Contains(parked, q) \/ calls[q] < calls'[q]
        BY <1>3, <2>1, JoinsQueue
    <2> QED
        BY <1>1, <1>3, <2>1, <2>2, NumberedByCall
<1>7. CASE Cancel \/ SocketDies \/ Closing
    BY <1>2, <1>7 DEF Cancel, SocketDies, Closing, CloseChannel, CloseSocket, channel
<1>8. CASE Receive
    <2>1. CASE parked = <<>>
        BY <1>2, <1>8, <2>1 DEF Receive
    <2>2. CASE parked # <<>>
        <3> DEFINE p == Head(parked)
        <3>1. /\ p \in Senders /\ calls[p] \in 1 .. MaxSends
              /\ accepted' = Append(accepted, <<p, calls[p]>>)
              /\ parked' = Tail(parked)
            BY <1>8, <2>2, LetIn
        <3>2. calls' = calls
            BY <1>8 DEF Receive
        <3>3. \A q \in Senders : Contains(parked', q) => Contains(parked, q) /\ q # p
            BY <2>2, <3>1, LeavesQueue DEF ParkedOnlyWhenFull
        <3> HIDE DEF p
        <3>4. (\A q \in Senders : calls[q] <= calls'[q]) /\ calls[p] <= calls'[p]
            BY <1>1, <3>1, <3>2, MaxSendsAssumption
        <3> QED
            BY <1>1, <3>1, <3>3, <3>4, NumberedByAppend
    <2> QED
        BY <2>1, <2>2
<1>9. CASE WriterStops \/ WriteSucceeds \/ WriteFails \/ WriterCloses \/ UNCHANGED vars
    BY <1>2, <1>9 DEF WriterStops, WriteSucceeds, WriteFails, WriterCloses, Cancel, vars, channel
<1> QED
    BY <1>4, <1>5, <1>6, <1>7, <1>8, <1>9 DEF Next, Writer

-----------------------------------------------------------------------------
(* The order of the messages *)

\* Appending to the end of a concatenation appends to its last part.
LEMMA AppendToConcat ==
    ASSUME NEW S, NEW s \in Seq(S), NEW t \in Seq(S), NEW e \in S
    PROVE  s \o Append(t, e) = Append(s \o t, e)
<1>1. <<e>> \in Seq(S) /\ s \o t \in Seq(S)
    BY ConcatProperties
<1>2. Append(t, e) = t \o <<e>> /\ Append(s \o t, e) = (s \o t) \o <<e>>
    BY <1>1, AppendIsConcat
<1> QED
    BY <1>1, <1>2, ConcatAssociative

\* A sequence is its head and its tail.
LEMMA HeadThenTail ==
    ASSUME NEW S, NEW s \in Seq(S), s # <<>>
    PROVE  <<Head(s)>> \o Tail(s) = s
<1>1. Len(s) \in Nat \ {0} /\ s[1] = Head(s)
    BY EmptySeq
<1>2. /\ <<Head(s)>> \in Seq(S) /\ Len(<<Head(s)>>) = 1 /\ <<Head(s)>>[1] = Head(s)
      /\ Tail(s) \in Seq(S) /\ Len(Tail(s)) = Len(s) - 1
      /\ \A i \in 1 .. Len(Tail(s)) : Tail(s)[i] = s[i + 1]
    BY HeadTailProperties
<1>3. /\ <<Head(s)>> \o Tail(s) \in Seq(S)
      /\ Len(<<Head(s)>> \o Tail(s)) = 1 + Len(Tail(s))
      /\ \A i \in 1 .. 1 + Len(Tail(s)) : (<<Head(s)>> \o Tail(s))[i] =
              IF i <= 1 THEN <<Head(s)>>[i] ELSE Tail(s)[i - 1]
    BY <1>2, ConcatProperties
<1>4. \A i \in 1 .. Len(s) : (<<Head(s)>> \o Tail(s))[i] = s[i]
    BY <1>1, <1>2, <1>3
<1> QED
    BY <1>1, <1>2, <1>3, <1>4, SeqEqual

\* The queue writeLoop still has: what it is writing and what is buffered.
Queue == inflight \o sendCh

LEMMA QueueIsMessages ==
    ASSUME TypeOK
    PROVE  /\ inflight \in Seq(Message) /\ sendCh \in Seq(Message)
           /\ written \in Seq(Message) /\ accepted \in Seq(Message)
           /\ Queue \in Seq(Message)
           /\ written \o inflight \in Seq(Message)
           /\ Len(Queue) = Len(inflight) + Len(sendCh)
           /\ (written \o inflight) \o sendCh = written \o Queue
<1>1. /\ inflight \in Seq(Message) /\ sendCh \in Seq(Message)
      /\ written \in Seq(Message) /\ accepted \in Seq(Message)
    BY DEF TypeOK
<1>2. Queue \in Seq(Message) /\ Len(Queue) = Len(inflight) + Len(sendCh)
    BY <1>1, ConcatProperties DEF Queue
<1>3. written \o inflight \in Seq(Message)
    BY <1>1, ConcatProperties
<1>4. (written \o inflight) \o sendCh = written \o Queue
    BY <1>1, ConcatAssociative DEF Queue
<1> QED
    BY <1>1, <1>2, <1>3, <1>4

\* What each step does to the queue.
LEMMA QueuedAtTheEnd ==
    ASSUME TypeOK, NEW p \in Senders, SendQueued(p)
    PROVE  Queue' = Append(Queue, <<p, calls'[p]>>)
<1>1. Calls(p) /\ sendCh' = Append(sendCh, <<p, calls'[p]>>) /\ inflight' = inflight
    BY DEF SendQueued
<1>2. <<p, calls'[p]>> \in Message
    BY <1>1, CallIsAMessage
<1> QED
    BY <1>1, <1>2, AppendToConcat, QueueIsMessages DEF Queue

LEMMA ReceiveKeepsQueue ==
    ASSUME TypeOK, Receive, parked = <<>>
    PROVE  Queue' = Queue
<1>1. inflight = <<>> /\ inflight' = <<Head(sendCh)>> /\ sendCh' = Tail(sendCh) /\ sendCh # <<>>
    BY ReceiveEffect DEF Receive
<1>2. sendCh \in Seq(Message)
    BY DEF TypeOK
<1>3. <<Head(sendCh)>> \o Tail(sendCh) = sendCh /\ <<>> \o sendCh = sendCh
    BY <1>1, <1>2, HeadThenTail, ConcatEmptySeq
<1> QED
    BY <1>1, <1>3 DEF Queue

LEMMA ReceiveLetsIn ==
    ASSUME TypeOK, Numbered, Receive, parked # <<>>
    PROVE  Queue' = Append(Queue, <<Head(parked), calls[Head(parked)]>>)
<1> DEFINE m == <<Head(parked), calls[Head(parked)]>>
<1>1. m \in Message /\ sendCh' = Append(Tail(sendCh), m)
    BY LetIn
<1> HIDE DEF m
<1>2. /\ inflight = <<>> /\ inflight' = <<Head(sendCh)>> /\ inflight' \in Seq(Message)
      /\ Tail(sendCh) \in Seq(Message) /\ sendCh # <<>>
    BY ReceiveEffect DEF Receive
<1>3. sendCh \in Seq(Message)
    BY DEF TypeOK
<1>4. <<Head(sendCh)>> \o Tail(sendCh) = sendCh /\ <<>> \o sendCh = sendCh
    BY <1>2, <1>3, HeadThenTail, ConcatEmptySeq
<1>5. <<Head(sendCh)>> \o Append(Tail(sendCh), m) = Append(<<Head(sendCh)>> \o Tail(sendCh), m)
    BY <1>1, <1>2, AppendToConcat
<1>6. Queue' = Append(Queue, m)
    BY <1>1, <1>2, <1>4, <1>5 DEF Queue
<1> QED
    BY <1>6 DEF m

LEMMA WriteTakesTheFirst ==
    ASSUME TypeOK, WriteSucceeds
    PROVE  /\ Queue # <<>>
           /\ Head(Queue) \in Message
           /\ inflight = <<Head(Queue)>>
           /\ Queue' = Tail(Queue) /\ Queue' = sendCh
           /\ written' = Append(written, Head(Queue))
<1>1. /\ inflight \in Seq(Message) /\ Len(inflight) = 1
      /\ inflight' = <<>> /\ sendCh' = sendCh /\ written' = written \o inflight
      /\ sendCh \in Seq(Message) /\ written \in Seq(Message)
    BY DEF TypeOK, WriteSucceeds, channel
<1>2. /\ Queue \in Seq(Message) /\ Len(Queue) = 1 + Len(sendCh) /\ Len(sendCh) \in Nat
      /\ \A i \in 1 .. 1 + Len(sendCh) :
            Queue[i] = IF i <= 1 THEN inflight[i] ELSE sendCh[i - 1]
    <2>1. Len(sendCh) \in Nat /\ Len(inflight) = 1
        BY <1>1, LenProperties
    <2>2. /\ Queue \in Seq(Message)
          /\ Len(Queue) = Len(inflight) + Len(sendCh)
          /\ \A i \in 1 .. Len(inflight) + Len(sendCh) :
                Queue[i] = IF i <= Len(inflight) THEN inflight[i] ELSE sendCh[i - Len(inflight)]
        BY <1>1, ConcatProperties DEF Queue
    <2> QED
        BY <2>1, <2>2
<1>3. Queue # <<>>
    BY <1>2, EmptySeq
<1>4. /\ Head(Queue) \in Message /\ Tail(Queue) \in Seq(Message)
      /\ Len(Tail(Queue)) = Len(Queue) - 1
      /\ \A i \in 1 .. Len(Tail(Queue)) : Tail(Queue)[i] = Queue[i + 1]
    BY <1>2, <1>3, HeadTailProperties
<1>5. Head(Queue) = inflight[1]
    BY <1>2, <1>3
<1>6. inflight = <<inflight[1]>>
    <2>1. inflight[1] \in Message
        <3>1. 1 \in 1 .. Len(inflight)
            BY <1>1
        <3> QED
            BY <1>1, <3>1, ElementOfSeq
    <2>2. <<inflight[1]>> \in Seq(Message) /\ Len(<<inflight[1]>>) = 1
        BY <2>1
    <2> QED
        BY <1>1, <2>2, SeqEqual
<1>7. \A i \in 1 .. Len(sendCh) : Tail(Queue)[i] = sendCh[i]
    BY <1>2, <1>4
<1>8. Tail(Queue) = sendCh
    BY <1>1, <1>2, <1>4, <1>7, SeqEqual
<1>9. <<>> \o sendCh = sendCh
    BY <1>1, ConcatEmptySeq
<1>10. Queue' = sendCh
    BY <1>1, <1>9 DEF Queue
<1>11. written' = Append(written, Head(Queue))
    <2>1. Append(written, Head(Queue)) = written \o <<Head(Queue)>>
        BY <1>1, <1>4, AppendIsConcat
    <2> QED
        BY <1>1, <1>5, <1>6, <2>1
<1> QED
    BY <1>3, <1>4, <1>5, <1>6, <1>8, <1>10, <1>11

\* Every step keeps what was accepted in order.
LEMMA OrderStep ==
    ASSUME TypeOK, Numbered, InOrder, [Next]_vars
    PROVE  InOrder'
<1> DEFINE Accounted == Running => accepted = written \o Queue
<1>1. /\ IsPrefix(written, accepted) /\ Accounted
      /\ written \in Seq(Message) /\ accepted \in Seq(Message) /\ Queue \in Seq(Message)
    BY QueueIsMessages DEF InOrder
<1>2. ASSUME TypeOK', IsPrefix(written, accepted)', Accounted'
      PROVE  InOrder'
    <2>1. (written' \o inflight') \o sendCh' = written' \o Queue'
        <3>1. inflight' \in Seq(Message) /\ sendCh' \in Seq(Message) /\ written' \in Seq(Message)
            BY <1>2 DEF TypeOK
        <3>2. (written' \o inflight') \o sendCh' = written' \o (inflight' \o sendCh')
            BY <3>1, ConcatAssociative
        <3> QED
            BY <3>2 DEF Queue
    <2> QED
        BY <1>2, <2>1 DEF InOrder
<1>3. TypeOK'
    BY TypeStep
<1>4. ASSUME accepted' = accepted, written' = written, Running' => Running /\ Queue' = Queue
      PROVE  InOrder'
    BY <1>1, <1>2, <1>3, <1>4
<1>5. ASSUME NEW m \in Message, accepted' = Append(accepted, m), written' = written,
             Running' = Running, Queue' = Append(Queue, m)
      PROVE  InOrder'
    <2>1. IsPrefix(written, Append(accepted, m))
        BY <1>1, PrefixOfAppend
    <2>2. written \o Append(Queue, m) = Append(written \o Queue, m)
        BY <1>1, AppendToConcat
    <2> QED
        BY <1>1, <1>2, <1>3, <1>5, <2>1, <2>2
<1>6. ASSUME NEW p \in Senders, SendQueued(p)
      PROVE  InOrder'
    <2>1. <<p, calls'[p]>> \in Message
        BY <1>6, CallIsAMessage DEF SendQueued
    <2>2. Queue' = Append(Queue, <<p, calls'[p]>>)
        BY <1>6, QueuedAtTheEnd
    <2>3. PICK m \in Message : m = <<p, calls'[p]>>
        BY <2>1
    <2>4. /\ accepted' = Append(accepted, m) /\ written' = written
          /\ Running' = Running /\ Queue' = Append(Queue, m)
        BY <1>6, <2>2, <2>3 DEF SendQueued, Running
    <2> QED
        BY <1>5, <2>4
<1>7. ASSUME NEW p \in Senders, SendRefused(p) \/ SendParks(p) \/ SendPanics(p)
      PROVE  InOrder'
    BY <1>4, <1>7 DEF SendRefused, SendParks, SendPanics, channel, Running, Queue
<1>8. CASE Cancel \/ SocketDies \/ Closing
    BY <1>4, <1>8 DEF Cancel, SocketDies, Closing, CloseChannel, CloseSocket, channel, Running, Queue
<1>9. CASE Receive
    <2>1. written' = written /\ Running /\ Running'
        BY <1>9 DEF Receive, Running
    <2>2. CASE parked = <<>>
        BY <1>4, <1>9, <2>1, <2>2, ReceiveKeepsQueue DEF Receive
    <2>3. CASE parked # <<>>
        <3>1. <<Head(parked), calls[Head(parked)]>> \in Message
            BY <1>9, <2>3, LetIn
        <3>2. PICK m \in Message : m = <<Head(parked), calls[Head(parked)]>>
            BY <3>1
        <3>3. accepted' = Append(accepted, m)
            BY <1>9, <2>3, <3>2, LetIn
        <3>4. Queue' = Append(Queue, m)
            BY <1>9, <2>3, <3>2, ReceiveLetsIn
        <3> QED
            BY <1>5, <2>1, <3>3, <3>4
    <2> QED
        BY <2>2, <2>3
<1>10. CASE WriteSucceeds
    <2>1. /\ written' = written \o inflight /\ Queue' = sendCh /\ accepted' = accepted /\ Running
        BY <1>10, WriteTakesTheFirst DEF WriteSucceeds, channel, Running
    <2>2. /\ written \o inflight \in Seq(Message) /\ sendCh \in Seq(Message)
          /\ (written \o inflight) \o sendCh = written \o Queue
        BY QueueIsMessages
    <2>3. accepted = (written \o inflight) \o sendCh
        BY <1>1, <2>1, <2>2
    <2>4. IsPrefix(written \o inflight, accepted)
        BY <2>2, <2>3, PrefixOfConcat
    <2> QED
        BY <1>2, <1>3, <2>1, <2>3, <2>4
<1>11. CASE WriterStops \/ WriteFails
    BY <1>4, <1>11 DEF WriterStops, WriteFails, channel, Running
<1>12. CASE WriterCloses
    BY <1>4, <1>12 DEF WriterCloses, Cancel, channel, Running
<1>13. CASE UNCHANGED vars
    BY <1>4, <1>13 DEF vars, Running, Queue
<1> QED
    BY <1>6, <1>7, <1>8, <1>9, <1>10, <1>11, <1>12, <1>13 DEF Next, Writer

-----------------------------------------------------------------------------
(* What is lost *)

\* The lengths, once.
LEMMA Lengths ==
    ASSUME TypeOK
    PROVE  /\ Len(accepted) \in Nat /\ Len(written) \in Nat /\ Len(sendCh) \in Nat
           /\ Len(inflight) \in Nat /\ Len(inflight) <= 1 /\ Len(sendCh) <= Cap
BY LenProperties DEF TypeOK

\* While writeLoop runs, what is not written is in the buffer or being written.
LEMMA RunningLosesNothing ==
    ASSUME TypeOK, InOrder, Running
    PROVE  AtMostOneLost
<1>1. /\ written \in Seq(Message) /\ inflight \in Seq(Message) /\ sendCh \in Seq(Message)
      /\ accepted = written \o inflight \o sendCh
    BY DEF TypeOK, InOrder
<1>2. /\ written \o inflight \in Seq(Message)
      /\ Len(written \o inflight) = Len(written) + Len(inflight)
    BY <1>1, ConcatProperties
<1>3. Len(accepted) = Len(written \o inflight) + Len(sendCh)
    BY <1>1, <1>2, ConcatProperties
<1>4. /\ Len(written) \in Nat /\ Len(sendCh) \in Nat /\ Len(inflight) \in Nat
      /\ Len(inflight) <= 1
      /\ Len(accepted) = Len(written) + Len(inflight) + Len(sendCh)
    BY <1>2, <1>3, Lengths
<1> QED
    BY <1>4 DEF AtMostOneLost

LEMMA LossStep ==
    ASSUME TypeOK, Numbered, InOrder, AtMostOneLost, [Next]_vars
    PROVE  AtMostOneLost'
<1>1. TypeOK' /\ InOrder'
    BY TypeStep, OrderStep
<1>2. CASE Running'
    <2>1. (TypeOK /\ InOrder /\ Running => AtMostOneLost)'
        BY RunningLosesNothing, PTL
    <2> QED
        BY <1>1, <1>2, <2>1
<1>3. ASSUME NEW p \in Senders, SendQueued(p)
      PROVE  AtMostOneLost'
    <2>1. <<p, calls'[p]>> \in Message
        BY <1>3, CallIsAMessage DEF SendQueued
    <2>2. PICK m \in Message : sendCh' = Append(sendCh, m) /\ accepted' = Append(accepted, m)
                               /\ written' = written
        BY <1>3, <2>1 DEF SendQueued
    <2>3. Len(sendCh') = Len(sendCh) + 1 /\ Len(accepted') = Len(accepted) + 1
        BY <2>2, AppendProperties DEF TypeOK
    <2> QED
        BY <2>2, <2>3, Lengths DEF AtMostOneLost
<1>4. CASE UNCHANGED <<accepted, written, sendCh>>
    BY <1>4 DEF AtMostOneLost
<1>5. (Receive \/ WriteSucceeds) => Running'
    BY DEF Receive, WriteSucceeds, Running
<1>6. CASE Cancel \/ SocketDies \/ Closing \/ Writer
    BY <1>2, <1>4, <1>5, <1>6 DEF Cancel, SocketDies, Closing, CloseChannel, CloseSocket, Writer,
       WriterStops, WriteFails, WriterCloses, channel
<1>7. ASSUME NEW p \in Senders, SendRefused(p) \/ SendParks(p) \/ SendPanics(p)
      PROVE  AtMostOneLost'
    BY <1>4, <1>7 DEF SendRefused, SendParks, SendPanics, channel
<1> QED
    BY <1>3, <1>4, <1>6, <1>7 DEF Next, vars

-----------------------------------------------------------------------------
(* The theorems *)

\* The inductive invariant: types, order, who may be blocked, how far Close has come
\* and which calls the accepted messages are.
THEOREM Invariance == Spec => []CInv
<1>1. Init => CInv
    <2> SUFFICES ASSUME Init PROVE CInv
        OBVIOUS
    <2>1. TypeOK
        <3>1. <<>> \in Seq(Message) /\ <<>> \in Seq(Senders) /\ Len(<<>>) = 0
            BY EmptySeq
        <3>2. [p \in Senders |-> 0] \in [Senders -> 0 .. MaxSends] /\ 0 <= Cap
            BY CapAssumption, MaxSendsAssumption
        <3>3. sendCh \in Seq(Message) /\ Len(sendCh) <= Cap /\ parked \in Seq(Senders)
            BY <3>1, <3>2 DEF Init
        <3>4. /\ inflight \in Seq(Message) /\ Len(inflight) = (IF writer = "writing" THEN 1 ELSE 0)
              /\ accepted \in Seq(Message) /\ written \in Seq(Message)
            BY <3>1 DEF Init
        <3>5. calls \in [Senders -> 0 .. MaxSends]
            BY <3>2 DEF Init
        <3> QED
            BY <3>3, <3>4, <3>5 DEF Init, TypeOK
    <2>2. <<>> \o <<>> \o <<>> = <<>>
        <3>1. <<>> \in Seq(Message)
            BY EmptySeq
        <3> QED
            BY <3>1, ConcatEmptySeq
    <2>3. IsPrefix(<<>>, <<>>)
        <3>1. <<>> \in Seq(Message)
            BY EmptySeq
        <3>2. IsPrefix(<<>>, <<>> \o <<>>) /\ <<>> \o <<>> = <<>>
            BY <3>1, PrefixOfConcat, ConcatEmptySeq
        <3> QED
            BY <3>2
    <2>4. InOrder
        BY <2>2, <2>3 DEF Init, InOrder
    <2>5. ParkedOnlyWhenFull /\ CloseInOrder
        BY DEF Init, ParkedOnlyWhenFull, CloseInOrder
    <2>6. Numbered
        BY DEF Init, Numbered, Contains
    <2>7. AtMostOneLost
        <3>1. accepted = <<>> /\ written = <<>> /\ sendCh = <<>> /\ Len(<<>>) = 0
            BY DEF Init
        <3> QED
            BY <3>1 DEF AtMostOneLost
    <2> QED
        BY <2>1, <2>4, <2>5, <2>6, <2>7 DEF CInv
<1>2. CInv /\ [Next]_vars => CInv'
    <2> SUFFICES ASSUME CInv, [Next]_vars PROVE CInv'
        OBVIOUS
    <2> USE DEF CInv
    <2>1. TypeOK'
        BY TypeStep
    <2>2. InOrder' /\ CloseInOrder' /\ ParkedOnlyWhenFull'
        BY OrderStep, CloseStep, ParkedStep
    <2>3. Numbered'
        BY <2>1, NumberedStep
    <2>4. AtMostOneLost'
        BY LossStep
    <2> QED
        BY <2>1, <2>2, <2>3, <2>4
<1> QED
    BY <1>1, <1>2, PTL DEF Spec

\* Buffer, senders and history keep their types, and the buffer its capacity.
THEOREM TypeCorrect == Spec => []TypeOK
BY Invariance, PTL DEF CInv

\* However many goroutines send, what is written is what was accepted, in order, and
\* nothing is lost while writeLoop runs.
THEOREM Ordered == Spec => []InOrder
BY Invariance, PTL DEF CInv

\* A Send is blocked only by a full buffer, and close(sendCh) finds none blocked.
THEOREM Parked == Spec => []ParkedOnlyWhenFull
BY Invariance, PTL DEF CInv

\* A client that vanishes misses at most the buffer and one message of what was accepted.
THEOREM LossBounded == Spec => []LossIsBounded
<1>1. CInv => LossIsBounded
    BY Lengths, CapAssumption DEF CInv, AtMostOneLost, LossIsBounded
<1> QED
    BY <1>1, Invariance, PTL

\* A message is posted to the mailbox when it enters the channel while writeLoop runs.
LEMMA PostStep ==
    ASSUME CInv, NEW p \in Senders, NEW n \in 1 .. MaxSends,
           Running, Running', Len(Queue) <= Cap,
           Queue' = Append(Queue, <<p, n>>), written' = written,
           \A i \in 1 .. Len(accepted) : accepted[i][1] = p => accepted[i][2] < n
    PROVE  MB!Post(p, n)
<1>1. Len(Queue) \in Nat
    BY QueueIsMessages, LenProperties DEF CInv
<1>2. Len(Queue) < Cap + 1
    BY <1>1, CapAssumption
<1>3. accepted = written \o Queue /\ DOMAIN accepted = 1 .. Len(accepted)
    BY QueueIsMessages, LenProperties DEF CInv, InOrder
<1>4. \A m \in ToSet(written \o Queue) : m[1] = p => m[2] < n
    BY <1>3 DEF ToSet
<1>5. (IF Running THEN inflight \o sendCh ELSE <<>>) = Queue
    BY DEF Queue
<1>6. (IF Running THEN inflight \o sendCh ELSE <<>>)' = Queue'
    BY DEF Queue
<1>7. (~Running)' = ~Running
    OBVIOUS
<1>8. Len(IF Running THEN inflight \o sendCh ELSE <<>>) < Cap + 1
    BY <1>2, <1>5
<1>9. \A m \in MB!ToSet(written \o (IF Running THEN inflight \o sendCh ELSE <<>>)) :
          m[1] = p => m[2] < n
    BY <1>4, <1>5 DEF ToSet, MB!ToSet
<1>10. (IF Running THEN inflight \o sendCh ELSE <<>>)'
            = Append(IF Running THEN inflight \o sendCh ELSE <<>>, <<p, n>>)
    BY <1>5, <1>6
<1>11. UNCHANGED <<written, ~Running>> /\ ~~Running
    BY <1>7
<1> QED
    BY <1>8, <1>9, <1>10, <1>11 DEF MB!Post

\* Every step of the goroutines is a step of the mailbox or none.
LEMMA MailboxStep ==
    ASSUME CInv, CInv', [Next]_vars
    PROVE  [MB!Next]_(MB!vars)
<1> USE DEF CInv
<1>1. ASSUME Running' = Running, Running => Queue' = Queue, written' = written
      PROVE  UNCHANGED MB!vars
    BY <1>1 DEF MB!vars, Queue
<1>2. ASSUME Running, ~Running', written' = written
      PROVE  MB!Break
    BY <1>2 DEF MB!Break
<1>3. ASSUME NEW p \in Senders, SendQueued(p)
      PROVE  [MB!Next]_(MB!vars)
    <2>1. Calls(p) /\ Running' = Running /\ written' = written /\ Len(sendCh) < Cap
        BY <1>3 DEF SendQueued, Running
    <2>2. CASE Running
        <3>1. calls'[p] \in 1 .. MaxSends /\ calls[p] \in Nat /\ calls[p] < calls'[p]
            <4>1. /\ calls[p] \in 0 .. MaxSends /\ calls[p] < MaxSends
                  /\ calls'[p] = calls[p] + 1
                BY <2>1, CallIsAMessage
            <4> QED
                BY <4>1, MaxSendsAssumption
        <3>2. PICK n \in 1 .. MaxSends : n = calls'[p]
            BY <3>1
        <3>3. Queue' = Append(Queue, <<p, n>>)
            BY <1>3, <3>2, QueuedAtTheEnd
        <3>4. Len(Queue) <= Cap
            <4>1. /\ Len(Queue) = Len(inflight) + Len(sendCh)
                  /\ Len(inflight) \in 0 .. 1 /\ Len(sendCh) \in Nat
                BY QueueIsMessages, LenProperties DEF TypeOK
            <4>2. Len(Queue) \in Nat /\ Len(inflight) \in Nat /\ Len(sendCh) < Cap /\ Cap \in Nat
                BY <2>1, <4>1, CapAssumption
            <4>3. \A i, s, q \in Nat : i \in 0 .. 1 /\ s < Cap /\ q = i + s => q <= Cap
                BY <4>2
            <4> QED
                BY <4>1, <4>2, <4>3
        <3>5. \A i \in 1 .. Len(accepted) : accepted[i][1] = p => accepted[i][2] < n
            BY <3>1, <3>2, AcceptedIsAMessage, MaxSendsAssumption DEF Numbered
        <3>6. MB!Post(p, n)
            BY <2>1, <2>2, <3>3, <3>4, <3>5, PostStep
        <3> QED
            BY <3>6 DEF MB!Next
    <2>3. CASE ~Running
        BY <1>1, <2>1, <2>3
    <2> QED
        BY <2>2, <2>3
<1>4. ASSUME NEW p \in Senders, SendRefused(p) \/ SendParks(p) \/ SendPanics(p)
      PROVE  UNCHANGED MB!vars
    BY <1>1, <1>4 DEF SendRefused, SendParks, SendPanics, channel, Running, Queue
<1>5. CASE Cancel \/ SocketDies \/ Closing
    BY <1>1, <1>5 DEF Cancel, SocketDies, Closing, CloseChannel, CloseSocket, channel, Running, Queue
<1>6. CASE Receive
    <2>1. written' = written /\ Running /\ Running'
        BY <1>6 DEF Receive, Running
    <2>2. CASE parked = <<>>
        BY <1>1, <1>6, <2>1, <2>2, ReceiveKeepsQueue
    <2>3. CASE parked # <<>>
        <3>1. Head(parked) \in Senders /\ calls[Head(parked)] \in 1 .. MaxSends
            BY <1>6, <2>3, LetIn
        <3>2. PICK p \in Senders : p = Head(parked)
            BY <3>1
        <3>3. PICK n \in 1 .. MaxSends : n = calls[p]
            BY <3>1, <3>2
        <3>4. Queue' = Append(Queue, <<p, n>>)
            BY <1>6, <2>3, <3>2, <3>3, ReceiveLetsIn
        <3>5. Len(Queue) <= Cap
            <4>1. inflight = <<>> /\ sendCh \in Seq(Message) /\ Len(sendCh) <= Cap
                BY <1>6, ReceiveEffect DEF TypeOK
            <4> QED
                BY <4>1, ConcatEmptySeq DEF Queue
        <3>6. Contains(parked, p)
            BY <2>3, <3>2, FirstParked
        <3>7. \A i \in 1 .. Len(accepted) : accepted[i][1] = p => accepted[i][2] < n
            BY <3>3, <3>6 DEF Numbered
        <3>8. MB!Post(p, n)
            BY <2>1, <3>4, <3>5, <3>7, PostStep
        <3> QED
            BY <3>8 DEF MB!Next
    <2> QED
        BY <2>2, <2>3
<1>7. CASE WriteSucceeds
    <2>1. Running /\ Running'
        BY <1>7 DEF WriteSucceeds, Running
    <2>2. /\ Queue # <<>> /\ Queue' = Tail(Queue)
          /\ written' = Append(written, Head(Queue))
        BY <1>7, WriteTakesTheFirst
    <2>3. MB!Deliver
        BY <2>1, <2>2 DEF MB!Deliver, Queue
    <2> QED
        BY <2>3 DEF MB!Next
<1>8. CASE WriterStops \/ WriteFails
    <2>1. Running /\ ~Running' /\ written' = written
        BY <1>8 DEF WriterStops, WriteFails, Running
    <2> QED
        BY <1>2, <2>1 DEF MB!Next
<1>9. CASE WriterCloses
    BY <1>1, <1>9 DEF WriterCloses, Cancel, channel, Running, Queue
<1>10. CASE UNCHANGED vars
    BY <1>1, <1>10 DEF vars, Running, Queue
<1> QED
    BY <1>3, <1>4, <1>5, <1>6, <1>7, <1>8, <1>9, <1>10 DEF Next, Writer

\* The channel, the parked senders, the context and Close implement the mailbox.
THEOREM Refinement == Spec => ImplementsMailbox
<1>1. Init => MB!Init
    <2> SUFFICES ASSUME Init PROVE MB!Init
        OBVIOUS
    <2>1. <<>> \o <<>> = <<>>
        <3>1. <<>> \in Seq(Message)
            BY EmptySeq
        <3> QED
            BY <3>1, ConcatEmptySeq
    <2> QED
        BY <2>1 DEF Init, MB!Init, Running
<1>2. CInv /\ CInv' /\ [Next]_vars => [MB!Next]_(MB!vars)
    BY MailboxStep
<1> QED
    BY <1>1, <1>2, Invariance, PTL DEF Spec, ImplementsMailbox, MB!Spec

=============================================================================
