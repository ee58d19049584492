-------------------- MODULE PersistentProtocol_proofs --------------------
(***************************************************************************)
(* Proofs about PersistentProtocol, for every script, any number of        *)
(* reconnections and any number of lost messages.                          *)
(***************************************************************************)
EXTENDS PersistentProtocol, SequenceTheorems, TLAPS

(***************************************************************************)
(* The operators on writers and sockets.                                   *)
(***************************************************************************)
WriterOf(S) == [buf : Seq(S), paused : BOOLEAN, timer : BOOLEAN]

\* There are two ends, and a first connection.
LEMMA EndsFacts ==
  /\ Client \in Ends
  /\ Server \in Ends
  /\ \A e \in Ends : Peer(e) \in Ends /\ Peer(e) # e /\ Peer(Peer(e)) = e
  /\ 0 \in Conn
BY ConstantsAssumption DEF Ends, Peer, Conn

\* A message without content is a message.
LEMMA PlainType ==
  ASSUME NEW type \in MessageType, NEW ack \in Nat
  PROVE  Plain(type, ack) \in Message
BY DEF Plain, Message

\* Writing to a writer.
LEMMA WriteAllType ==
  ASSUME NEW S, NEW w \in WriterOf(S), NEW msgs \in Seq(S)
  PROVE  WriteAll(w, msgs) \in WriterOf(S)
<1>1. w.buf \o msgs \in Seq(S)
  BY ConcatProperties DEF WriterOf
<1> QED
  BY <1>1 DEF WriteAll, WriterOf

\* What the operators on a writer return.
LEMMA WriterOperators ==
  ASSUME NEW S, NEW w \in WriterOf(S)
  PROVE  /\ NewWriter \in WriterOf(S)
         /\ Pause(w) \in WriterOf(S)
         /\ Resume(w) \in WriterOf(S)
         /\ Flushed(w) \in Seq(S)
         /\ w.buf \in Seq(S)
BY EmptySeq DEF WriterOf, NewWriter, Pause, Resume, Flushed

\* A writer of some messages is a writer of more messages.
LEMMA WriterMonotonic ==
  ASSUME NEW S, NEW T, S \subseteq T, NEW w \in WriterOf(S)
  PROVE  w \in WriterOf(T)
<1>1. Seq(S) \subseteq Seq(T)
  BY SeqMonotonic
<1> QED
  BY <1>1 DEF WriterOf

\* The networks that carry towards each end e only messages of G[e].
Network(G) == [Conn -> {q \in [Ends -> Seq(Message)] :
                          \A e \in Ends : q[e] \in Seq(G[e])}]

\* What is read from a network of genuine messages is genuine.
LEMMA NetworkRead ==
  ASSUME NEW G, NEW w \in Network(G), NEW c \in Conn, NEW e \in Ends
  PROVE  w[c][e] \in Seq(G[e])
BY DEF Network

\* Replacing what one socket carries.
LEMMA NetworkUpdate ==
  ASSUME NEW G \in [Ends -> SUBSET Message], NEW w \in Network(G),
         NEW c \in Conn, NEW e \in Ends, NEW q \in Seq(G[e])
  PROVE  [w EXCEPT ![c][e] = q] \in Network(G)
<1> DEFINE u == [w[c] EXCEPT ![e] = q]
<1>1. q \in Seq(Message)
  BY SeqMonotonic
<1>2. /\ w[c] \in [Ends -> Seq(Message)]
      /\ \A f \in Ends : w[c][f] \in Seq(G[f])
  BY DEF Network
<1>3. u \in [Ends -> Seq(Message)] /\ \A f \in Ends : u[f] \in Seq(G[f])
  BY <1>1, <1>2
<1>4. [w EXCEPT ![c][e] = q] = [w EXCEPT ![c] = u]
  OBVIOUS
<1> HIDE DEF u
<1>5. [w EXCEPT ![c] = u] \in Network(G)
  BY <1>3 DEF Network
<1> QED
  BY <1>4, <1>5

\* Adding to what one socket carries.
LEMMA NetworkAppend ==
  ASSUME NEW G \in [Ends -> SUBSET Message], NEW w \in Network(G),
         NEW c \in Conn, NEW e \in Ends, NEW msgs \in Seq(G[e])
  PROVE  [w EXCEPT ![c][e] = @ \o msgs] \in Network(G)
<1>1. w[c][e] \o msgs \in Seq(G[e])
  BY NetworkRead, ConcatProperties
<1>2. [w EXCEPT ![c][e] = @ \o msgs] = [w EXCEPT ![c][e] = w[c][e] \o msgs]
  OBVIOUS
<1>3. [w EXCEPT ![c][e] = w[c][e] \o msgs] \in Network(G)
  BY <1>1, NetworkUpdate
<1> QED
  BY <1>2, <1>3

\* A network of some messages is a network of more messages.
LEMMA NetworkMonotonic ==
  ASSUME NEW G \in [Ends -> SUBSET Message], NEW H \in [Ends -> SUBSET Message],
         \A e \in Ends : G[e] \subseteq H[e],
         NEW w \in Network(G)
  PROVE  w \in Network(H)
<1>1. \A e \in Ends : Seq(G[e]) \subseteq Seq(H[e])
  BY SeqMonotonic
<1> QED
  BY <1>1 DEF Network

\* Transmitting genuine messages.
LEMMA TransmitNetwork ==
  ASSUME NEW G \in [Ends -> SUBSET Message], NEW w \in Network(G),
         NEW c \in Conn, NEW e \in Ends, NEW msgs \in Seq(G[Peer(e)])
  PROVE  Transmit(w, c, e, msgs) \in Network(G)
BY NetworkAppend, EndsFacts DEF Transmit

\* What is flushed was in the buffer.
LEMMA FlushedType ==
  ASSUME NEW S, NEW w, w.buf \in Seq(S)
  PROVE  Flushed(w) \in Seq(S)
BY EmptySeq DEF Flushed

\* After and Prefix return parts of a sequence.
LEMMA AfterType ==
  ASSUME NEW S, NEW s \in Seq(S), NEW i \in 0 .. Len(s)
  PROVE  After(s, i) \in Seq(S)
<1>1. Len(s) \in Nat
  BY LenProperties
<1>2. \A j \in i + 1 .. Len(s) : s[j] \in S
  BY <1>1, ElementOfSeq
<1> QED
  BY <1>1, <1>2, SubSeqProperties DEF After

\* A prefix of a sequence is one over the same set.
LEMMA PrefixType ==
  ASSUME NEW S, NEW s \in Seq(S), NEW n \in -1 .. Len(s)
  PROVE  Prefix(s, n) \in Seq(S)
<1>1. Len(s) \in Nat
  BY LenProperties
<1>2. \A j \in 1 .. n : s[j] \in S
  BY <1>1, ElementOfSeq
<1> QED
  BY <1>1, <1>2, SubSeqProperties DEF Prefix

\* The length of a prefix.
LEMMA PrefixLength ==
  ASSUME NEW S, NEW s \in Seq(S), NEW n \in Nat, n <= Len(s)
  PROVE  Len(Prefix(s, n)) = n
<1>1. Len(s) \in Nat
  BY LenProperties
<1>2. n \in Int /\ 1 \in Int /\ \A j \in 1 .. n : s[j] \in S
  BY <1>1, ElementOfSeq
<1>3. Len(SubSeq(s, 1, n)) = IF 1 <= n THEN n - 1 + 1 ELSE 0
  BY <1>2, SubSeqProperties
<1> QED
  BY <1>3 DEF Prefix

\* The next element makes the prefix longer by one.
LEMMA PrefixAppend ==
  ASSUME NEW S, NEW s \in Seq(S), NEW n \in Nat, n + 1 \in 1 .. Len(s)
  PROVE  Append(Prefix(s, n), s[n + 1]) = Prefix(s, n + 1)
<1>1. Len(s) \in Nat
  BY LenProperties
<1>2. n + 1 \in 1 .. Len(s) /\ 1 \in 1 .. Len(s)
  BY <1>1
<1>3. SubSeq(s, 1, n + 1) = SubSeq(s, 1, n) \o << s[n + 1] >>
  BY <1>1, <1>2, SubSeqRecursiveSecond
<1>4. SubSeq(s, 1, n) \in Seq(S) /\ s[n + 1] \in S
  BY <1>1, <1>2, PrefixType, ElementOfSeq DEF Prefix
<1> QED
  BY <1>3, <1>4, AppendIsConcat DEF Prefix

\* An end that leaves its socket flushes its writer first.
LEMMA LeaveSocketNetwork ==
  ASSUME NEW G \in [Ends -> SUBSET Message], wire \in Network(G),
         conn \in [Ends -> Conn], NEW e \in Ends,
         writer[e].buf \in Seq(G[Peer(e)])
  PROVE  LeaveSocket(wire, e) \in Network(G)
<1> DEFINE w == Transmit(wire, conn[e], e, Flushed(writer[e]))
<1>1. Flushed(writer[e]) \in Seq(G[Peer(e)])
  BY FlushedType
<1>2. w \in Network(G)
  <2>1. CASE broken[conn[e]]
    BY <2>1 DEF Transmit
  <2>2. CASE ~broken[conn[e]]
    BY <1>1, <2>2, NetworkAppend, EndsFacts DEF Transmit
  <2> QED
    BY <2>1, <2>2
<1>3. LeaveSocket(wire, e) = [w EXCEPT ![conn[e]][e] = << >>]
  BY DEF LeaveSocket
<1>4. << >> \in Seq(G[e])
  BY EmptySeq
<1>5. conn[e] \in Conn
  OBVIOUS
<1> HIDE DEF w
<1>6. [w EXCEPT ![conn[e]][e] = << >>] \in Network(G)
  BY <1>2, <1>4, <1>5, NetworkUpdate
<1> QED
  BY <1>3, <1>6

(***************************************************************************)
(* The acknowledged messages of a queue of consecutive ids are its first   *)
(* ones.                                                                   *)
(***************************************************************************)
LEMMA DropAckedLemma ==
  ASSUME NEW q \in Seq(Message), NEW base \in Nat, NEW ack \in Nat,
         base <= ack, ack <= base + Len(q),
         \A i \in 1 .. Len(q) : q[i].id = base + i
  PROVE  DropAcked(q, ack) = After(q, ack - base)
<1> DEFINE P(k) == /\ k \in 0 .. Len(q)
                   /\ \A i \in 1 .. k : q[i].id <= ack
                   /\ k < Len(q) => q[k + 1].id > ack
           n == CHOOSE k \in 0 .. Len(q) :
                  /\ \A i \in 1 .. k : q[i].id <= ack
                  /\ k < Len(q) => q[k + 1].id > ack
<1>1. Len(q) \in Nat
  BY LenProperties
<1>2. P(ack - base)
  BY <1>1
<1>3. ASSUME NEW k, P(k) PROVE k = ack - base
  <2>1. CASE k < ack - base
    <3>1. k + 1 \in 1 .. Len(q) /\ q[k + 1].id = base + k + 1
      BY <1>1, <1>3, <2>1
    <3> QED
      BY <1>1, <1>3, <2>1, <3>1
  <2>2. CASE k > ack - base
    <3>1. k \in 1 .. k /\ q[k].id = base + k
      BY <1>1, <1>3, <2>2
    <3> QED
      BY <1>1, <1>3, <2>2, <3>1
  <2> QED
    BY <1>1, <1>3, <2>1, <2>2
<1>4. P(n)
  BY <1>2
<1>5. n = ack - base
  BY <1>3, <1>4
<1> QED
  BY <1>5 DEF DropAcked
-----------------------------------------------------------------------------
(***************************************************************************)
(* The inductive invariant: TypeOK, the three properties of the counters,  *)
(* and GenuineInFlight, without which a message read from a socket could   *)
(* be anything.  Types and genuineness are stated here per variable.       *)
(***************************************************************************)
Counters == InOrderOnce /\ NothingForgotten /\ SentFromScript

\* The inductive invariant.
IInv == TypeOK /\ Counters /\ GenuineInFlight

\* What is genuine for who reads it.
Towards == [e \in Ends |-> Genuine(Peer(e))]

\* The types of the variables that hold numbers and flags.
Fields ==
  /\ isReconnecting \in [Ends -> BOOLEAN]
  /\ outgoingMsgId \in [Ends -> Nat]
  /\ outgoingAckId \in [Ends -> Nat]
  /\ outgoingAckTimeout \in [Ends -> BOOLEAN]
  /\ socketTimedOut \in [Ends -> BOOLEAN]
  /\ incomingMsgId \in [Ends -> Nat]
  /\ incomingAckId \in [Ends -> Nat]
  /\ incomingAckTimeout \in [Ends -> {"off", "armed", "stale"}]
  /\ replayRequested \in [Ends -> BOOLEAN]
  /\ conn \in [Ends -> Conn]
  /\ broken \in [Conn -> BOOLEAN]
  /\ opened \in Conn
  /\ handshakeSent \in BOOLEAN
  /\ handshakeOk \in BOOLEAN
  /\ handedOff \in SUBSET Conn
  /\ received \in [Ends -> Seq(Data)]
  /\ losses \in Nat

\* What is kept for resending is genuine, and so is what is in a writer or on a socket.
Unacked ==
  /\ outgoingUnackMsg \in [Ends -> Seq(Message)]
  /\ \A e \in Ends : outgoingUnackMsg[e] \in Seq(Genuine(e))

Writers ==
  /\ writer \in [Ends -> WriterOf(Message)]
  /\ \A e \in Ends : writer[e] \in WriterOf(Genuine(e))

Wires == wire \in Network(Towards)

\* The invariant, variable by variable.
Parts == Fields /\ Unacked /\ Writers /\ Wires /\ Counters

\* What is genuine are messages.
LEMMA TowardsType == Towards \in [Ends -> SUBSET Message]
BY EndsFacts DEF Towards, Genuine

\* Both forms of the invariant say the same.
LEMMA PartsOfIInv == IInv <=> Parts
<1>1. ASSUME TypeOK, GenuineInFlight PROVE Writers
  BY <1>1 DEF TypeOK, GenuineInFlight, Writers, WriterOf
<1>2. ASSUME Writers
      PROVE  /\ writer \in [Ends -> [buf : Seq(Message), paused : BOOLEAN, timer : BOOLEAN]]
             /\ \A e \in Ends : writer[e].buf \in Seq(Genuine(e))
  BY <1>2 DEF Writers, WriterOf
<1>3. ASSUME TypeOK, GenuineInFlight PROVE Wires
  <2>1. \A c \in Conn, e \in Ends : wire[c][e] \in Seq(Towards[e])
    <3>1. \A c \in Conn, e \in Ends : wire[c][Peer(Peer(e))] \in Seq(Genuine(Peer(e)))
      BY <1>3, EndsFacts DEF GenuineInFlight
    <3> QED
      BY <3>1, EndsFacts DEF Towards
  <2> QED
    BY <1>3, <2>1 DEF TypeOK, Wires, Network
<1>4. ASSUME Wires
      PROVE  /\ wire \in [Conn -> [Ends -> Seq(Message)]]
             /\ \A e \in Ends : \A c \in Conn : wire[c][Peer(e)] \in Seq(Genuine(e))
  <2>1. /\ wire \in [Conn -> [Ends -> Seq(Message)]]
        /\ \A c \in Conn, e \in Ends : wire[c][e] \in Seq(Towards[e])
    BY <1>4 DEF Wires, Network
  <2>2. \A e \in Ends : Towards[Peer(e)] = Genuine(e)
    BY EndsFacts DEF Towards
  <2> QED
    BY <2>1, <2>2, EndsFacts
<1>5. ASSUME IInv PROVE Parts
  BY <1>1, <1>3, <1>5 DEF IInv, Parts, TypeOK, GenuineInFlight, Fields, Unacked
<1>6. ASSUME Parts PROVE IInv
  <2>1. GenuineInFlight
    BY <1>2, <1>4, <1>6 DEF Parts, Unacked, GenuineInFlight
  <2>2. TypeOK
    BY <1>2, <1>4, <1>6 DEF Parts, Unacked, TypeOK, Fields
  <2> QED
    BY <1>6, <2>1, <2>2 DEF Parts, IInv
<1> QED
  BY <1>5, <1>6

-----------------------------------------------------------------------------
(***************************************************************************)
(* Every action preserves it.                                              *)
(***************************************************************************)
LEMMA InitParts == Init => Parts
<1> SUFFICES ASSUME Init PROVE Parts
  OBVIOUS
<1>1. Fields
  BY EndsFacts, EmptySeq DEF Init, Fields, Conn
<1>2. Unacked
  BY EmptySeq DEF Init, Unacked
<1>3. Writers
  BY EmptySeq DEF Init, Writers, WriterOf, NewWriter
<1>4. Wires
  <2>1. \A e \in Ends : << >> \in Seq(Message) /\ << >> \in Seq(Towards[e])
    BY EmptySeq
  <2> QED
    BY <2>1 DEF Init, Wires, Network
<1>5. Counters
  <2>1. \A e \in Ends : Script[Peer(e)] \in Seq(Data) /\ Script[e] \in Seq(Data)
    BY EndsFacts, ConstantsAssumption
  <2>2. \A e \in Ends : Len(Script[e]) \in Nat /\ Prefix(Script[Peer(e)], 0) = << >>
    BY <2>1, LenProperties, SubSeqEmpty DEF Prefix
  <2>3. InOrderOnce
    BY <2>2, EndsFacts DEF Init, InOrderOnce
  <2>4. NothingForgotten
    BY EmptySeq, EndsFacts DEF Init, NothingForgotten
  <2>5. SentFromScript
    BY <2>2 DEF Init, SentFromScript
  <2> QED
    BY <2>3, <2>4, <2>5 DEF Counters
<1> QED
  BY <1>1, <1>2, <1>3, <1>4, <1>5 DEF Parts

\* An action that sends and receives nothing leaves what is genuine alone.
LEMMA Quiet ==
  ASSUME Parts, UNCHANGED <<outgoingVars, incomingMsgId, received>>
  PROVE  /\ Counters'
         /\ Unacked'
         /\ Towards' = Towards
         /\ \A e \in Ends : Genuine(e)' = Genuine(e)
<1>1. \A e \in Ends : Genuine(e)' = Genuine(e)
  BY DEF Genuine, outgoingVars
<1>2. Towards' = Towards
  BY <1>1, EndsFacts DEF Towards
<1>3. Counters'
  BY DEF Parts, Counters, InOrderOnce, NothingForgotten, SentFromScript, outgoingVars
<1>4. Unacked'
  BY <1>1 DEF Parts, Unacked, outgoingVars
<1> QED
  BY <1>1, <1>2, <1>3, <1>4

\* An end writes messages: its writer still holds genuine ones.
LEMMA WriteStep ==
  ASSUME Parts, \A f \in Ends : Genuine(f) \subseteq Genuine(f)',
         \A f \in Ends : Genuine(f)' \subseteq Message,
         NEW e \in Ends, NEW w \in WriterOf(Genuine(e)'),
         writer' = [writer EXCEPT ![e] = w]
  PROVE  Writers'
<1>1. \A f \in Ends : WriterOf(Genuine(f)) \subseteq WriterOf(Genuine(f)')
  BY WriterMonotonic
<1>2. WriterOf(Genuine(e)') \subseteq WriterOf(Message)
  BY WriterMonotonic
<1> QED
  BY <1>1, <1>2 DEF Parts, Writers

\* What was genuine stays so: writers that do not change.
LEMMA WritersStay ==
  ASSUME Parts, \A f \in Ends : Genuine(f) \subseteq Genuine(f)', UNCHANGED writer
  PROVE  Writers'
<1>1. \A f \in Ends : WriterOf(Genuine(f)) \subseteq WriterOf(Genuine(f)')
  BY WriterMonotonic
<1> QED
  BY <1>1 DEF Parts, Writers

\* The same for what is on the sockets.
LEMMA WiresStay ==
  ASSUME \A f \in Ends : Genuine(f) \subseteq Genuine(f)',
         wire' \in Network(Towards)
  PROVE  Wires'
<1>1. \A f \in Ends : Towards[f] \subseteq Towards'[f]
  BY EndsFacts DEF Towards
<1>2. Towards' \in [Ends -> SUBSET Message]
  BY EndsFacts DEF Towards, Genuine
<1> QED
  BY <1>1, <1>2, TowardsType, NetworkMonotonic DEF Wires

\* Messages without content are genuine when their acknowledgement is.
LEMMA PlainGenuine ==
  ASSUME Parts, NEW e \in Ends, NEW type \in MessageType \ {"Regular"}, NEW ack \in Nat,
         ack <= incomingMsgId[e]
  PROVE  /\ Plain(type, ack) \in Genuine(e)
         /\ <<Plain(type, ack)>> \in Seq(Genuine(e))
BY DEF Plain, Message, Genuine

\* Control messages are.
LEMMA ControlGenuine ==
  ASSUME Parts, NEW e \in Ends, NEW type \in MessageType \ {"Regular"}
  PROVE  <<Plain(type, 0)>> \in Seq(Genuine(e))
<1>1. 0 \in Nat /\ 0 <= incomingMsgId[e]
  BY DEF Parts, Fields
<1> QED
  BY <1>1, PlainGenuine

\* An acknowledgement of what was received is.
LEMMA AckGenuine ==
  ASSUME Parts, NEW e \in Ends, NEW type \in MessageType \ {"Regular"}
  PROVE  <<Plain(type, incomingMsgId[e])>> \in Seq(Genuine(e))
<1>1. incomingMsgId[e] \in Nat /\ incomingMsgId[e] <= incomingMsgId[e]
  BY DEF Parts, Fields
<1> QED
  BY <1>1, PlainGenuine

\* So is what an end writes first on a new socket.
LEMMA ReconnectionGenuine ==
  ASSUME Parts, NEW e \in Ends
  PROVE  ReconnectionMessages(e) \in Seq(Genuine(e))
<1>1. <<Plain("Ack", incomingMsgId[e])>> \in Seq(Genuine(e))
  BY AckGenuine DEF MessageType
<1>2. outgoingUnackMsg[e] \in Seq(Genuine(e))
  BY DEF Parts, Unacked
<1> QED
  BY <1>1, <1>2, ConcatProperties DEF ReconnectionMessages

\* WriteTimeout keeps the invariant.
LEMMA WriteTimeoutStep ==
  ASSUME Parts, NEW e \in Ends, WriteTimeout(e)
  PROVE  Parts'
<1>1. /\ Counters' /\ Unacked' /\ Towards' = Towards
      /\ \A f \in Ends : Genuine(f)' = Genuine(f)
  BY Quiet DEF WriteTimeout, protocolVars, outgoingVars
<1>2. writer[e] \in WriterOf(Genuine(e)) /\ conn[e] \in Conn
  BY DEF Parts, Writers, Fields
<1>3. Fields'
  BY DEF Parts, Fields, WriteTimeout, protocolVars, socketVars, handshakeVars
<1>4. Writers'
  <2> DEFINE w == [writer[e] EXCEPT !.timer = FALSE,
                                    !.buf = IF writer[e].paused THEN @ ELSE << >>]
  <2>1. w \in WriterOf(Genuine(e))
    BY <1>2, EmptySeq DEF WriterOf
  <2>2. writer' = [writer EXCEPT ![e] = w]
    BY DEF WriteTimeout
  <2> HIDE DEF w
  <2> QED
    BY <1>1, <2>1, <2>2, WriteStep DEF Genuine
<1>5. Wires'
  <2>1. Flushed(writer[e]) \in Seq(Towards[Peer(e)])
    BY <1>2, WriterOperators, EndsFacts DEF Towards
  <2>2. wire' \in Network(Towards)
    <3>1. CASE broken[conn[e]]
      BY <3>1 DEF WriteTimeout, Transmit, Parts, Wires
    <3>2. CASE ~broken[conn[e]]
      <4>1. wire' = [wire EXCEPT ![conn[e]][Peer(e)] = @ \o Flushed(writer[e])]
        BY <3>2 DEF WriteTimeout, Transmit
      <4>2. wire \in Network(Towards) /\ Peer(e) \in Ends
        BY EndsFacts DEF Parts, Wires
      <4> QED
        BY <1>2, <2>1, <4>1, <4>2, TowardsType, NetworkAppend
    <3> QED
      BY <3>1, <3>2
  <2> QED
    BY <1>1, <2>2 DEF Wires
<1> QED
  BY <1>1, <1>3, <1>4, <1>5 DEF Parts

\* The actions that write at most a few plain messages or resend the queue.
LEMMA WriteOnlyStep ==
  ASSUME Parts, Fields', UNCHANGED <<outgoingVars, incomingMsgId, received>>,
         UNCHANGED wire, NEW e \in Ends, NEW msgs \in Seq(Genuine(e)),
         \/ UNCHANGED writer
         \/ writer' = [writer EXCEPT ![e] = WriteAll(@, msgs)]
  PROVE  Parts'
<1>1. /\ Counters' /\ Unacked' /\ Towards' = Towards
      /\ \A f \in Ends : Genuine(f)' = Genuine(f)
  BY Quiet
<1>2. Writers'
  <2>1. CASE UNCHANGED writer
    BY <1>1, <2>1, WritersStay
  <2>2. CASE writer' = [writer EXCEPT ![e] = WriteAll(@, msgs)]
    <3>1. writer[e] \in WriterOf(Genuine(e))
      BY DEF Parts, Writers
    <3>2. WriteAll(writer[e], msgs) \in WriterOf(Genuine(e))
      BY <3>1, WriteAllType
    <3>3. writer' = [writer EXCEPT ![e] = WriteAll(writer[e], msgs)]
      BY <2>2
    <3> QED
      BY <1>1, <3>2, <3>3, WriteStep DEF Genuine
  <2> QED
    BY <2>1, <2>2
<1>3. Wires'
  BY <1>1 DEF Parts, Wires
<1> QED
  BY <1>1, <1>2, <1>3 DEF Parts

\* IncomingAckTimeout keeps the invariant.
LEMMA IncomingAckTimeoutStep ==
  ASSUME Parts, NEW e \in Ends, IncomingAckTimeout(e)
  PROVE  Parts'
<1>1. Fields'
  BY DEF Parts, Fields, IncomingAckTimeout, outgoingVars, socketVars, handshakeVars
<1>2. <<Plain("Ack", incomingMsgId[e])>> \in Seq(Genuine(e))
  BY AckGenuine DEF MessageType
<1> QED
  BY <1>1, <1>2, WriteOnlyStep DEF IncomingAckTimeout, outgoingVars

\* OutgoingAckTimeout keeps the invariant.
LEMMA OutgoingAckTimeoutStep ==
  ASSUME Parts, NEW e \in Ends, OutgoingAckTimeout(e)
  PROVE  Parts'
<1>1. Fields'
  BY DEF Parts, Fields, OutgoingAckTimeout, RecvAckCheck, outgoingVars,
         incomingVars, socketVars, handshakeVars
<1>2. << >> \in Seq(Genuine(e))
  BY EmptySeq
<1> QED
  BY <1>1, <1>2, WriteOnlyStep DEF OutgoingAckTimeout, outgoingVars, incomingVars

\* SendKeepAlive keeps the invariant.
LEMMA SendKeepAliveStep ==
  ASSUME Parts, NEW e \in Ends, SendKeepAlive(e)
  PROVE  Parts'
<1>1. Fields'
  BY DEF Parts, Fields, SendKeepAlive, outgoingVars, incomingVars,
         socketVars, handshakeVars
<1>2. <<Plain("KeepAlive", incomingMsgId[e])>> \in Seq(Genuine(e))
  BY AckGenuine DEF MessageType
<1> QED
  BY <1>1, <1>2, WriteOnlyStep DEF SendKeepAlive, outgoingVars, incomingVars

\* ReplayWindowEnds keeps the invariant.
LEMMA ReplayWindowEndsStep ==
  ASSUME Parts, NEW e \in Ends, ReplayWindowEnds(e)
  PROVE  Parts'
<1>1. Fields'
  BY DEF Parts, Fields, ReplayWindowEnds, outgoingVars, socketVars, handshakeVars
<1>2. << >> \in Seq(Genuine(e))
  BY EmptySeq
<1> QED
  BY <1>1, <1>2, WriteOnlyStep DEF ReplayWindowEnds, outgoingVars

\* ClientSendHandshake keeps the invariant.
LEMMA ClientSendHandshakeStep ==
  ASSUME Parts, ClientSendHandshake
  PROVE  Parts'
<1>1. Fields'
  BY DEF Parts, Fields, ClientSendHandshake, protocolVars, socketVars
<1>2. Client \in Ends /\ <<Plain("Control", 0)>> \in Seq(Genuine(Client))
  BY EndsFacts, ControlGenuine DEF MessageType
<1> QED
  BY <1>1, <1>2, WriteOnlyStep DEF ClientSendHandshake, protocolVars, outgoingVars

\* ClientEndReconnection keeps the invariant.
LEMMA ClientEndReconnectionStep ==
  ASSUME Parts, ClientEndReconnection
  PROVE  Parts'
<1>1. Fields'
  BY EndsFacts DEF Parts, Fields, ClientEndReconnection, RecvAckCheck,
         incomingVars, outgoingVars, socketVars
<1>2. Client \in Ends /\ ReconnectionMessages(Client) \in Seq(Genuine(Client))
  BY EndsFacts, ReconnectionGenuine
<1> QED
  BY <1>1, <1>2, WriteOnlyStep DEF ClientEndReconnection, outgoingVars, incomingVars

\* Break keeps the invariant.
LEMMA BreakStep ==
  ASSUME Parts, NEW c \in Conn, Break(c)
  PROVE  Parts'
<1>1. Fields'
  BY DEF Parts, Fields, Break, protocolVars, handshakeVars
<1>2. Client \in Ends /\ << >> \in Seq(Genuine(Client))
  BY EndsFacts, EmptySeq
<1> QED
  BY <1>1, <1>2, WriteOnlyStep DEF Break, protocolVars, outgoingVars

\* The actions that only rearrange what is in flight.
LEMMA WireOnlyStep ==
  ASSUME Parts, Fields', UNCHANGED <<outgoingVars, incomingMsgId, received>>,
         UNCHANGED writer, wire' \in Network(Towards)
  PROVE  Parts'
<1>1. /\ Counters' /\ Unacked' /\ Towards' = Towards
      /\ \A f \in Ends : Genuine(f)' = Genuine(f)
  BY Quiet
<1>2. Writers'
  BY <1>1, WritersStay
<1>3. Wires'
  BY <1>1 DEF Wires
<1> QED
  BY <1>1, <1>2, <1>3 DEF Parts

\* LoseTail keeps the invariant.
LEMMA LoseTailStep ==
  ASSUME Parts, NEW c \in Conn, NEW e \in Ends, LoseTail(c, e)
  PROVE  Parts'
<1>1. Fields'
  BY DEF Parts, Fields, LoseTail, protocolVars, socketVars, handshakeVars
<1> DEFINE q == Prefix(wire[c][e], Len(wire[c][e]) - 1)
<1>2. wire \in Network(Towards) /\ wire[c][e] \in Seq(Towards[e])
  BY NetworkRead DEF Parts, Wires
<1>3. q \in Seq(Towards[e])
  <2>1. Len(wire[c][e]) \in Nat
    BY <1>2, LenProperties
  <2> QED
    BY <1>2, <2>1, PrefixType
<1>4. wire' = [wire EXCEPT ![c][e] = q]
  BY DEF LoseTail
<1> HIDE DEF q
<1>5. wire' \in Network(Towards)
  BY <1>2, <1>3, <1>4, TowardsType, NetworkUpdate
<1> QED
  BY <1>1, <1>5, WireOnlyStep DEF LoseTail, protocolVars, outgoingVars

\* LoseAny keeps the invariant.
LEMMA LoseAnyStep ==
  ASSUME Parts, NEW c \in Conn, NEW e \in Ends, LoseAny(c, e)
  PROVE  Parts'
<1>1. Fields'
  BY DEF Parts, Fields, LoseAny, protocolVars, socketVars, handshakeVars
<1>2. wire \in Network(Towards) /\ wire[c][e] \in Seq(Towards[e])
  BY NetworkRead DEF Parts, Wires
<1>3. PICK i \in 1 .. Len(wire[c][e]) :
        wire' = [wire EXCEPT ![c][e] = Prefix(@, i - 1) \o After(@, i)]
  BY DEF LoseAny
<1> DEFINE q == Prefix(wire[c][e], i - 1) \o After(wire[c][e], i)
<1>4. q \in Seq(Towards[e])
  <2>1. Len(wire[c][e]) \in Nat
    BY <1>2, LenProperties
  <2>2. Prefix(wire[c][e], i - 1) \in Seq(Towards[e])
    BY <1>2, <2>1, PrefixType
  <2>3. After(wire[c][e], i) \in Seq(Towards[e])
    BY <1>2, <2>1, AfterType
  <2> QED
    BY <2>2, <2>3, ConcatProperties
<1>5. wire' = [wire EXCEPT ![c][e] = q]
  BY <1>3
<1> HIDE DEF q
<1>6. wire' \in Network(Towards)
  BY <1>2, <1>4, <1>5, TowardsType, NetworkUpdate
<1> QED
  BY <1>1, <1>6, WireOnlyStep DEF LoseAny, protocolVars, outgoingVars

\* ServerHandOff keeps the invariant.
LEMMA ServerHandOffStep ==
  ASSUME Parts, NEW c \in Conn, ServerHandOff(c)
  PROVE  Parts'
<1>1. Fields'
  BY DEF Parts, Fields, ServerHandOff, protocolVars, socketVars
<1>2. Server \in Ends /\ Peer(Server) \in Ends /\ wire \in Network(Towards)
  BY EndsFacts DEF Parts, Wires
<1>3. PICK i \in 1 .. Len(wire[c][Server]) :
        wire' = [Transmit(wire, c, Server,
                          <<Plain("Pause", 0), Plain("Control", 0)>>)
                   EXCEPT ![c][Server] = After(@, i)]
  BY DEF ServerHandOff
<1> DEFINE msgs == <<Plain("Pause", 0), Plain("Control", 0)>>
           w == Transmit(wire, c, Server, msgs)
<1>4. msgs \in Seq(Towards[Peer(Server)])
  <2>1. 0 \in Nat /\ 0 <= incomingMsgId[Server]
    BY <1>2 DEF Parts, Fields
  <2>2. Plain("Pause", 0) \in Genuine(Server) /\ Plain("Control", 0) \in Genuine(Server)
    BY <1>2, <2>1, PlainGenuine DEF MessageType
  <2>3. Towards[Peer(Server)] = Genuine(Server)
    BY <1>2, EndsFacts DEF Towards
  <2> QED
    BY <2>2, <2>3
<1>5. w \in Network(Towards) /\ w[c][Server] = wire[c][Server]
  <2>1. CASE broken[c]
    BY <1>2, <2>1 DEF Transmit
  <2>2. CASE ~broken[c]
    <3>1. w = [wire EXCEPT ![c][Peer(Server)] = @ \o msgs]
      BY <2>2 DEF Transmit
    <3> HIDE DEF msgs, w
    <3>2. w \in Network(Towards)
      BY <1>2, <1>4, <3>1, TowardsType, NetworkAppend
    <3>3. w[c][Server] = wire[c][Server]
      BY <1>2, <3>1, EndsFacts DEF Network
    <3> QED
      BY <3>2, <3>3
  <2> QED
    BY <2>1, <2>2
<1> DEFINE q == After(w[c][Server], i)
<1>6. q \in Seq(Towards[Server])
  <2> HIDE DEF w
  <2>1. wire[c][Server] \in Seq(Towards[Server]) /\ Len(wire[c][Server]) \in Nat
    BY <1>2, NetworkRead, LenProperties
  <2> QED
    BY <1>5, <2>1, AfterType
<1>7. wire' = [w EXCEPT ![c][Server] = q]
  BY <1>3
<1> HIDE DEF w, q
<1>8. wire' \in Network(Towards)
  BY <1>2, <1>5, <1>6, <1>7, TowardsType, NetworkUpdate
<1> QED
  BY <1>1, <1>8, WireOnlyStep DEF ServerHandOff, protocolVars, outgoingVars

\* ClientBeginReconnection keeps the invariant.
LEMMA ClientBeginReconnectionStep ==
  ASSUME Parts, ClientBeginReconnection
  PROVE  Parts'
<1>1. /\ Counters' /\ Unacked' /\ Towards' = Towards
      /\ \A f \in Ends : Genuine(f)' = Genuine(f)
  BY Quiet DEF ClientBeginReconnection, outgoingVars
<1>2. opened + 1 \in Conn /\ Client \in Ends
  BY ConstantsAssumption, EndsFacts DEF ClientBeginReconnection, Parts, Fields, Conn
<1>3. Fields'
  BY <1>2 DEF Parts, Fields, ClientBeginReconnection, outgoingVars
<1>4. Writers'
  <2>1. writer[Client] \in WriterOf(Genuine(Client))
    BY <1>2 DEF Parts, Writers
  <2>2. NewWriter \in WriterOf(Genuine(Client))
    BY <2>1, WriterOperators
  <2>3. writer' = [writer EXCEPT ![Client] = NewWriter]
    BY DEF ClientBeginReconnection
  <2> QED
    BY <1>1, <1>2, <2>2, <2>3, WriteStep DEF Genuine
<1>5. Wires'
  <2>1. writer[Client].buf \in Seq(Towards[Peer(Client)])
    BY <1>2, EndsFacts DEF Parts, Writers, WriterOf, Towards
  <2>2. LeaveSocket(wire, Client) \in Network(Towards)
    BY <1>2, <2>1, TowardsType, LeaveSocketNetwork DEF Parts, Fields, Wires
  <2> QED
    BY <1>1, <2>2 DEF ClientBeginReconnection, Wires
<1> QED
  BY <1>1, <1>3, <1>4, <1>5 DEF Parts

\* The server's protocol gets connection c; what is left in it is genuine.
LEMMA AcceptReconnectionStep ==
  ASSUME Parts, NEW c \in Conn, NEW rest \in Seq(Towards[Server]),
         NEW reply \in Seq(Genuine(Server)), NEW extra \in Seq(Genuine(Server)),
         AcceptReconnection(c, rest, reply, extra), handedOff' \in SUBSET Conn
  PROVE  Parts'
<1>1. /\ Counters' /\ Unacked' /\ Towards' = Towards
      /\ \A f \in Ends : Genuine(f)' = Genuine(f)
  BY Quiet DEF AcceptReconnection, outgoingVars
<1>2. Server \in Ends /\ Peer(Server) \in Ends /\ Peer(Peer(Server)) = Server
  BY EndsFacts
<1>3. Fields'
  BY <1>2 DEF Parts, Fields, AcceptReconnection, outgoingVars
<1>4. Writers'
  <2> DEFINE msgs == ReconnectionMessages(Server) \o extra
             w == WriteAll(NewWriter, msgs)
  <2>1. msgs \in Seq(Genuine(Server))
    BY <1>2, ReconnectionGenuine, ConcatProperties
  <2>2. writer[Server] \in WriterOf(Genuine(Server))
    BY <1>2 DEF Parts, Writers
  <2>3. NewWriter \in WriterOf(Genuine(Server))
    BY <2>2, WriterOperators
  <2>4. writer' = [writer EXCEPT ![Server] = w]
    BY DEF AcceptReconnection
  <2> HIDE DEF msgs
  <2>5. w \in WriterOf(Genuine(Server))
    BY <2>1, <2>3, WriteAllType
  <2> HIDE DEF w
  <2> QED
    BY <1>1, <1>2, <2>4, <2>5, WriteStep DEF Genuine
<1>5. Wires'
  <2> DEFINE left == LeaveSocket(wire, Server)
             w == Transmit(left, c, Server, reply)
  <2>1. writer[Server].buf \in Seq(Towards[Peer(Server)])
    BY <1>2 DEF Parts, Writers, WriterOf, Towards
  <2>2. left \in Network(Towards)
    BY <1>2, <2>1, TowardsType, LeaveSocketNetwork DEF Parts, Fields, Wires
  <2> HIDE DEF left
  <2>3. reply \in Seq(Towards[Peer(Server)])
    BY <1>2 DEF Towards
  <2>4. w \in Network(Towards)
    <3>1. CASE broken[c]
      BY <2>2, <3>1 DEF Transmit
    <3>2. CASE ~broken[c]
      BY <1>2, <2>2, <2>3, <3>2, TowardsType, NetworkAppend DEF Transmit
    <3> QED
      BY <3>1, <3>2
  <2>5. wire' = [w EXCEPT ![c][Server] = rest]
    BY DEF AcceptReconnection, left
  <2> HIDE DEF w
  <2>6. wire' \in Network(Towards)
    BY <1>2, <2>4, <2>5, TowardsType, NetworkUpdate
  <2> QED
    BY <1>1, <2>6 DEF Wires
<1> QED
  BY <1>1, <1>3, <1>4, <1>5 DEF Parts

\* ServerAccept keeps the invariant.
LEMMA ServerAcceptStep ==
  ASSUME Parts, NEW c \in Conn, ServerAccept(c)
  PROVE  Parts'
<1>1. Server \in Ends /\ wire \in Network(Towards)
  BY EndsFacts DEF Parts, Wires
<1>2. PICK i \in 1 .. Len(wire[c][Server]) :
        AcceptReconnection(c, After(wire[c][Server], i), <<Plain("Control", 0)>>, << >>)
  BY DEF ServerAccept
<1>3. After(wire[c][Server], i) \in Seq(Towards[Server])
  <2>1. wire[c][Server] \in Seq(Towards[Server]) /\ Len(wire[c][Server]) \in Nat
    BY <1>1, NetworkRead, LenProperties
  <2> QED
    BY <2>1, AfterType
<1>4. <<Plain("Control", 0)>> \in Seq(Genuine(Server)) /\ << >> \in Seq(Genuine(Server))
  BY <1>1, ControlGenuine, EmptySeq DEF MessageType
<1>5. handedOff' \in SUBSET Conn
  BY DEF ServerAccept, Parts, Fields
<1> QED
  BY <1>2, <1>3, <1>4, <1>5, AcceptReconnectionStep

\* ServerTakeHandedOff keeps the invariant.
LEMMA ServerTakeHandedOffStep ==
  ASSUME Parts, NEW c \in Conn, ServerTakeHandedOff(c)
  PROVE  Parts'
<1>1. Server \in Ends /\ wire \in Network(Towards)
  BY EndsFacts DEF Parts, Wires
<1>2. PICK k \in 0 .. Len(wire[c][Server]) :
        AcceptReconnection(c, After(wire[c][Server], k), << >>, <<Plain("Resume", 0)>>)
  BY DEF ServerTakeHandedOff
<1>3. After(wire[c][Server], k) \in Seq(Towards[Server])
  <2>1. wire[c][Server] \in Seq(Towards[Server]) /\ Len(wire[c][Server]) \in Nat
    BY <1>1, NetworkRead, LenProperties
  <2> QED
    BY <2>1, AfterType
<1>4. <<Plain("Resume", 0)>> \in Seq(Genuine(Server)) /\ << >> \in Seq(Genuine(Server))
  BY <1>1, ControlGenuine, EmptySeq DEF MessageType
<1>5. handedOff' \in SUBSET Conn
  BY DEF ServerTakeHandedOff, Parts, Fields
<1> QED
  BY <1>2, <1>3, <1>4, <1>5, AcceptReconnectionStep

\* The queue of what is kept for resending grows by the next id.
LEMMA AppendNextId ==
  ASSUME NEW q \in Seq(Message), NEW m \in Message, NEW base \in Nat,
         \A i \in 1 .. Len(q) : q[i].id = base + i, m.id = base + Len(q) + 1
  PROVE  /\ Append(q, m) \in Seq(Message)
         /\ Len(Append(q, m)) = Len(q) + 1
         /\ \A i \in 1 .. Len(Append(q, m)) : Append(q, m)[i].id = base + i
<1> DEFINE r == Append(q, m)
<1>1. /\ r \in Seq(Message) /\ Len(r) = Len(q) + 1
      /\ \A i \in 1 .. Len(q) : r[i] = q[i]
      /\ r[Len(q) + 1] = m
      /\ Len(q) \in Nat
  BY AppendProperties, LenProperties
<1> HIDE DEF r
<1>2. ASSUME NEW i \in 1 .. Len(r) PROVE r[i].id = base + i
  <2>1. CASE i \in 1 .. Len(q)
    BY <1>1, <2>1
  <2>2. CASE i = Len(q) + 1
    BY <1>1, <2>2
  <2> QED
    BY <1>1, <1>2, <2>1, <2>2
<1> QED
  BY <1>1, <1>2 DEF r

\* Send keeps the invariant.
LEMMA SendStep ==
  ASSUME Parts, NEW e \in Ends, Send(e)
  PROVE  Parts'
<1> DEFINE id == outgoingMsgId[e] + 1
           msg == [type |-> "Regular", id |-> id, ack |-> incomingMsgId[e],
                   data |-> Script[e][id]]
<1>1. /\ id \in 1 .. Len(Script[e]) /\ id \in Nat /\ Script[e][id] \in Data
      /\ outgoingMsgId[e] \in Nat /\ incomingMsgId[e] \in Nat
  <2>1. Script[e] \in Seq(Data)
    BY ConstantsAssumption
  <2>2. outgoingMsgId[e] \in Nat /\ incomingMsgId[e] \in Nat
    BY DEF Parts, Fields
  <2>3. Len(Script[e]) \in Nat /\ outgoingMsgId[e] < Len(Script[e])
    BY <2>1, LenProperties DEF Send
  <2> QED
    BY <2>1, <2>2, <2>3, ElementOfSeq
<1>2. /\ outgoingMsgId' = [outgoingMsgId EXCEPT ![e] = id]
      /\ outgoingUnackMsg' = [outgoingUnackMsg EXCEPT ![e] = Append(@, msg)]
      /\ UNCHANGED <<incomingMsgId, outgoingAckId, received, wire, conn>>
  BY DEF Send, incomingVars, socketVars
<1>3. \A f \in Ends : Genuine(f) \subseteq Genuine(f)' /\ Genuine(f)' \subseteq Message
  BY <1>1, <1>2 DEF Genuine, Parts, Fields
<1>4. msg \in Message /\ msg \in Genuine(e)'
  BY <1>1, <1>2 DEF Genuine, Message, MessageType, Parts, Fields
<1>5. Fields'
  <2>1. /\ outgoingAckTimeout' \in [Ends -> BOOLEAN]
        /\ socketTimedOut' \in [Ends -> BOOLEAN]
    <3>1. CASE UNCHANGED <<outgoingAckTimeout, socketTimedOut>>
      BY <3>1 DEF Parts, Fields
    <3>2. CASE RecvAckCheck(e, outgoingAckTimeout[e], socketTimedOut[e])
      BY <3>2 DEF Parts, Fields, RecvAckCheck
    <3> QED
      BY <3>1, <3>2 DEF Send
  <2>2. incomingAckId' = [incomingAckId EXCEPT ![e] = incomingMsgId[e]]
    BY DEF Send
  <2>3. UNCHANGED <<isReconnecting, incomingAckTimeout, replayRequested, broken,
                    opened, handshakeSent, handshakeOk, handedOff, losses>>
    BY DEF Send, incomingVars, socketVars, handshakeVars
  <2> HIDE DEF id, msg
  <2> QED
    BY <1>1, <1>2, <2>1, <2>2, <2>3 DEF Parts, Fields
<1>6. Unacked'
  <2>1. \A f \in Ends : Seq(Genuine(f)) \subseteq Seq(Genuine(f)')
    BY <1>3, SeqMonotonic
  <2>2. \A f \in Ends : /\ outgoingUnackMsg[f] \in Seq(Message)
                        /\ outgoingUnackMsg[f] \in Seq(Genuine(f)')
    BY <2>1 DEF Parts, Unacked
  <2>3. /\ Append(outgoingUnackMsg[e], msg) \in Seq(Message)
        /\ Append(outgoingUnackMsg[e], msg) \in Seq(Genuine(e)')
    BY <1>4, <2>2, AppendProperties
  <2> HIDE DEF msg
  <2> QED
    BY <1>2, <2>2, <2>3 DEF Parts, Unacked
<1>7. Writers'
  <2>1. CASE UNCHANGED writer
    BY <1>3, <2>1, WritersStay
  <2>2. CASE writer' = [writer EXCEPT ![e] = WriteAll(@, <<msg>>)]
    <3> DEFINE w == WriteAll(writer[e], <<msg>>)
    <3>1. writer[e] \in WriterOf(Genuine(e)')
      BY <1>3, WriterMonotonic DEF Parts, Writers
    <3>2. <<msg>> \in Seq(Genuine(e)')
      BY <1>4
    <3> HIDE DEF msg
    <3>3. w \in WriterOf(Genuine(e)')
      BY <3>1, <3>2, WriteAllType
    <3>4. writer' = [writer EXCEPT ![e] = w]
      BY <2>2
    <3> HIDE DEF w
    <3> QED
      BY <1>3, <3>3, <3>4, WriteStep
  <2> QED
    BY <2>1, <2>2 DEF Send
<1>8. Wires'
  BY <1>2, <1>3, WiresStay DEF Parts, Wires
<1>9. Counters'
  <2>1. InOrderOnce'
    <3>1. \A f \in Ends : /\ outgoingMsgId[f] \in Nat /\ incomingMsgId[f] \in Nat
                          /\ outgoingMsgId'[f] \in Nat
                          /\ outgoingMsgId[f] <= outgoingMsgId'[f]
      BY <1>1, <1>2 DEF Parts, Fields
    <3>2. \A f \in Ends : incomingMsgId[f] <= outgoingMsgId'[Peer(f)]
      BY <3>1, EndsFacts DEF Parts, Counters, InOrderOnce
    <3> QED
      BY <1>2, <3>2 DEF Parts, Counters, InOrderOnce
  <2>2. SentFromScript'
    BY <1>1, <1>2 DEF Parts, Fields, Counters, SentFromScript
  <2>3. NothingForgotten'
    <3> DEFINE q == outgoingUnackMsg[e]
    <3>1. q \in Seq(Message) /\ Len(q) \in Nat /\ Len(q) = outgoingMsgId[e] - outgoingAckId[e]
      BY LenProperties DEF Parts, Unacked, Counters, NothingForgotten
    <3>2. outgoingAckId[e] \in Nat
      BY DEF Parts, Fields
    <3>3. msg.id = outgoingAckId[e] + Len(q) + 1
      BY <1>1, <3>1, <3>2
    <3>4. \A i \in 1 .. Len(q) : q[i].id = outgoingAckId[e] + i
      BY DEF Parts, Counters, NothingForgotten
    <3> HIDE DEF msg, q
    <3>5. /\ Len(Append(q, msg)) = Len(q) + 1
          /\ \A i \in 1 .. Len(Append(q, msg)) :
               Append(q, msg)[i].id = outgoingAckId[e] + i
      BY <1>4, <3>1, <3>2, <3>3, <3>4, AppendNextId
    <3> USE DEF q
    <3>7. outgoingUnackMsg'[e] = Append(q, msg) /\ outgoingMsgId'[e] = id
      BY <1>2 DEF Parts, Fields, Unacked
    <3>8. Len(outgoingUnackMsg'[e]) = outgoingMsgId'[e] - outgoingAckId'[e]
      BY <1>1, <1>2, <3>1, <3>2, <3>5, <3>7
    <3>9. \A f \in Ends \ {e} : /\ outgoingUnackMsg'[f] = outgoingUnackMsg[f]
                                /\ outgoingMsgId'[f] = outgoingMsgId[f]
      BY <1>2 DEF Parts, Fields, Unacked
    <3> HIDE DEF q, id
    <3> QED
      BY <1>2, <3>5, <3>7, <3>8, <3>9 DEF Parts, Counters, NothingForgotten
  <2> QED
    BY <2>1, <2>2, <2>3 DEF Counters
<1> QED
  BY <1>5, <1>6, <1>7, <1>8, <1>9 DEF Parts

\* Dropping what was acknowledged leaves consecutive ids.
LEMMA AfterIds ==
  ASSUME NEW q \in Seq(Message), NEW base \in Nat, NEW ack \in Nat, NEW last \in Nat,
         base <= ack, ack <= last, Len(q) = last - base,
         \A i \in 1 .. Len(q) : q[i].id = base + i
  PROVE  /\ Len(After(q, ack - base)) = last - ack
         /\ \A i \in 1 .. Len(After(q, ack - base)) :
              After(q, ack - base)[i].id = ack + i
<1> DEFINE m == ack - base + 1
           n == Len(q)
           r == SubSeq(q, m, n)
<1>1. m \in Int /\ n \in Int /\ m >= 1 /\ \A i \in m .. n : q[i] \in Message
  BY ElementOfSeq, LenProperties
<1>2. /\ Len(r) = IF m <= n THEN n - m + 1 ELSE 0
      /\ \A i \in 1 .. n - m + 1 : r[i] = q[m + i - 1]
  <2> HIDE DEF m, n
  <2> QED
    BY <1>1, SubSeqProperties
<1>3. After(q, ack - base) = r
  BY DEF After
<1> HIDE DEF r
<1>4. Len(r) = last - ack
  BY <1>1, <1>2
<1>5. ASSUME NEW i \in 1 .. Len(r) PROVE r[i].id = ack + i
  <2>1. i \in 1 .. n - m + 1 /\ m + i - 1 \in 1 .. Len(q) /\ m + i - 1 = ack - base + i
    BY <1>1, <1>4, <1>5
  <2>2. r[i] = q[m + i - 1] /\ q[m + i - 1].id = base + (m + i - 1)
    BY <1>2, <2>1
  <2> QED
    BY <2>1, <2>2
<1> QED
  BY <1>3, <1>4, <1>5

(***************************************************************************)
(* What reading a message does to the queue of the end that reads it.      *)
(***************************************************************************)
LEMMA AcceptAckStep ==
  ASSUME Parts, NEW e \in Ends, NEW ack \in Nat, ack <= incomingMsgId[Peer(e)],
         \/ /\ ack > outgoingAckId[e]
            /\ outgoingAckId' = [outgoingAckId EXCEPT ![e] = ack]
            /\ outgoingUnackMsg' =
                 [outgoingUnackMsg EXCEPT ![e] = DropAcked(@, ack)]
         \/ UNCHANGED <<outgoingAckId, outgoingUnackMsg>>
  PROVE  /\ outgoingAckId' \in [Ends -> Nat]
         /\ outgoingUnackMsg' \in [Ends -> Seq(Message)]
         /\ \A f \in Ends :
              /\ outgoingUnackMsg'[f] \in Seq(Genuine(f))
              /\ outgoingAckId'[f] <= incomingMsgId[Peer(f)]
              /\ Len(outgoingUnackMsg'[f]) = outgoingMsgId[f] - outgoingAckId'[f]
              /\ \A i \in 1 .. Len(outgoingUnackMsg'[f]) :
                   outgoingUnackMsg'[f][i].id = outgoingAckId'[f] + i
<1>1. /\ outgoingAckId \in [Ends -> Nat] /\ outgoingMsgId \in [Ends -> Nat]
      /\ incomingMsgId \in [Ends -> Nat]
      /\ outgoingUnackMsg \in [Ends -> Seq(Message)]
      /\ \A f \in Ends :
           /\ outgoingUnackMsg[f] \in Seq(Genuine(f))
           /\ outgoingAckId[f] <= incomingMsgId[Peer(f)]
           /\ Len(outgoingUnackMsg[f]) = outgoingMsgId[f] - outgoingAckId[f]
           /\ \A i \in 1 .. Len(outgoingUnackMsg[f]) :
                outgoingUnackMsg[f][i].id = outgoingAckId[f] + i
  BY DEF Parts, Fields, Unacked, Counters, NothingForgotten
<1>2. CASE UNCHANGED <<outgoingAckId, outgoingUnackMsg>>
  BY <1>1, <1>2
<1>3. CASE /\ ack > outgoingAckId[e]
           /\ outgoingAckId' = [outgoingAckId EXCEPT ![e] = ack]
           /\ outgoingUnackMsg' =
                [outgoingUnackMsg EXCEPT ![e] = DropAcked(@, ack)]
  <2> DEFINE q == outgoingUnackMsg[e]
             base == outgoingAckId[e]
             r == After(q, ack - base)
  <2>1. /\ base \in Nat /\ q \in Seq(Message) /\ q \in Seq(Genuine(e))
        /\ Len(q) \in Nat
        /\ Len(q) = outgoingMsgId[e] - base
        /\ \A i \in 1 .. Len(q) : q[i].id = base + i
    BY <1>1, LenProperties
  <2>2. ack <= outgoingMsgId[e] /\ outgoingMsgId[e] \in Nat
    <3>1. incomingMsgId[Peer(e)] <= outgoingMsgId[e]
      BY EndsFacts DEF Parts, Counters, InOrderOnce
    <3>2. incomingMsgId[Peer(e)] \in Nat /\ outgoingMsgId[e] \in Nat
      BY <1>1, EndsFacts
    <3> QED
      BY <3>1, <3>2
  <2>3. base <= ack /\ ack <= base + Len(q) /\ ack - base \in 0 .. Len(q)
    BY <1>3, <2>1, <2>2
  <2> HIDE DEF q, base
  <2>4. DropAcked(q, ack) = r
    BY <2>1, <2>3, DropAckedLemma
  <2>5. r \in Seq(Message) /\ r \in Seq(Genuine(e))
    BY <2>1, <2>3, AfterType
  <2>6. Len(r) = outgoingMsgId[e] - ack /\ \A i \in 1 .. Len(r) : r[i].id = ack + i
    BY <2>1, <2>2, <2>3, AfterIds
  <2> HIDE DEF r
  <2>7. /\ outgoingUnackMsg' = [outgoingUnackMsg EXCEPT ![e] = r]
        /\ outgoingAckId' = [outgoingAckId EXCEPT ![e] = ack]
    BY <1>3, <2>4 DEF q
  <2>8. /\ outgoingUnackMsg'[e] = r
        /\ outgoingAckId'[e] = ack
        /\ \A f \in Ends \ {e} : /\ outgoingUnackMsg'[f] = outgoingUnackMsg[f]
                                 /\ outgoingAckId'[f] = outgoingAckId[f]
    BY <1>1, <2>7
  <2>9. /\ outgoingAckId' \in [Ends -> Nat]
        /\ outgoingUnackMsg' \in [Ends -> Seq(Message)]
    BY <1>1, <2>5, <2>7
  <2>10. ASSUME NEW f \in Ends
         PROVE  /\ outgoingUnackMsg'[f] \in Seq(Genuine(f))
                /\ outgoingAckId'[f] <= incomingMsgId[Peer(f)]
                /\ Len(outgoingUnackMsg'[f]) = outgoingMsgId[f] - outgoingAckId'[f]
                /\ \A i \in 1 .. Len(outgoingUnackMsg'[f]) :
                     outgoingUnackMsg'[f][i].id = outgoingAckId'[f] + i
    <3>1. CASE f = e
      BY <2>5, <2>6, <2>8, <3>1
    <3>2. CASE f # e
      BY <1>1, <2>8, <3>2
    <3> QED
      BY <3>1, <3>2
  <2> QED
    BY <2>9, <2>10
<1> QED
  BY <1>2, <1>3

\* A message read on a socket is genuine, and its ack is accepted.
LEMMA ReadStep ==
  ASSUME Parts, NEW e \in Ends, NEW type \in MessageType, Read(e, type)
  PROVE  /\ Head(Incoming(e)) \in Genuine(Peer(e))
         /\ Head(Incoming(e)).type = type
         /\ wire' \in Network(Towards)
         /\ outgoingAckId' \in [Ends -> Nat]
         /\ outgoingUnackMsg' \in [Ends -> Seq(Message)]
         /\ \A f \in Ends :
              /\ outgoingUnackMsg'[f] \in Seq(Genuine(f))
              /\ outgoingAckId'[f] <= incomingMsgId[Peer(f)]
              /\ Len(outgoingUnackMsg'[f]) = outgoingMsgId[f] - outgoingAckId'[f]
              /\ \A i \in 1 .. Len(outgoingUnackMsg'[f]) :
                   outgoingUnackMsg'[f][i].id = outgoingAckId'[f] + i
<1> DEFINE q == Incoming(e)
           m == Head(q)
<1>1. wire \in Network(Towards) /\ conn[e] \in Conn /\ Peer(e) \in Ends
  BY EndsFacts DEF Parts, Wires, Fields
<1>2. q \in Seq(Genuine(Peer(e))) /\ Towards[e] = Genuine(Peer(e))
  <2>1. Towards[e] = Genuine(Peer(e))
    BY DEF Towards
  <2> QED
    BY <1>1, <2>1, NetworkRead DEF Incoming
<1>3. q # << >> /\ m.type = type /\ wire' = [wire EXCEPT ![conn[e]][e] = Tail(q)]
  BY DEF Read, Incoming
<1>4. AcceptAck(e, m.ack)
  BY DEF Read
<1> HIDE DEF q
<1>5. m \in Genuine(Peer(e)) /\ Tail(q) \in Seq(Genuine(Peer(e)))
  BY <1>2, <1>3, HeadTailProperties
<1>6. wire' \in Network(Towards)
  <2>1. Tail(q) \in Seq(Towards[e])
    BY <1>2, <1>5
  <2> QED
    BY <1>1, <1>3, <2>1, TowardsType, NetworkUpdate
<1>7. m.ack \in Nat /\ m.ack <= incomingMsgId[Peer(e)]
  BY <1>5 DEF Genuine, Message
<1> DEFINE ack == m.ack
<1>8. \/ /\ ack > outgoingAckId[e]
         /\ outgoingAckId' = [outgoingAckId EXCEPT ![e] = ack]
         /\ outgoingUnackMsg' = [outgoingUnackMsg EXCEPT ![e] = DropAcked(@, ack)]
      \/ UNCHANGED <<outgoingAckId, outgoingUnackMsg>>
  BY <1>4 DEF AcceptAck
<1>9. ack \in Nat /\ ack <= incomingMsgId[Peer(e)]
  BY <1>7
<1> HIDE DEF ack
<1> QED
  <2>1. /\ outgoingAckId' \in [Ends -> Nat]
        /\ outgoingUnackMsg' \in [Ends -> Seq(Message)]
        /\ \A f \in Ends :
              /\ outgoingUnackMsg'[f] \in Seq(Genuine(f))
              /\ outgoingAckId'[f] <= incomingMsgId[Peer(f)]
              /\ Len(outgoingUnackMsg'[f]) = outgoingMsgId[f] - outgoingAckId'[f]
              /\ \A i \in 1 .. Len(outgoingUnackMsg'[f]) :
                   outgoingUnackMsg'[f][i].id = outgoingAckId'[f] + i
    BY <1>8, <1>9, AcceptAckStep
  <2> QED
    BY <1>3, <1>5, <1>6, <2>1 DEF q

\* The messages that only carry an ack, or order something of the writer.
LEMMA ReceiveOtherStep ==
  ASSUME Parts, NEW e \in Ends, NEW type \in MessageType, Read(e, type),
         Fields', Writers', UNCHANGED <<outgoingMsgId, incomingMsgId, received>>
  PROVE  Parts'
<1>1. \A f \in Ends : Genuine(f)' = Genuine(f)
  BY DEF Genuine
<1>2. Towards' = Towards
  BY <1>1, EndsFacts DEF Towards
<1>3. /\ wire' \in Network(Towards)
      /\ outgoingUnackMsg' \in [Ends -> Seq(Message)]
      /\ \A f \in Ends :
           /\ outgoingUnackMsg'[f] \in Seq(Genuine(f))
           /\ outgoingAckId'[f] <= incomingMsgId[Peer(f)]
           /\ Len(outgoingUnackMsg'[f]) = outgoingMsgId[f] - outgoingAckId'[f]
           /\ \A i \in 1 .. Len(outgoingUnackMsg'[f]) :
                outgoingUnackMsg'[f][i].id = outgoingAckId'[f] + i
  BY ReadStep
<1>4. Unacked'
  BY <1>1, <1>3 DEF Unacked
<1>5. Wires'
  BY <1>2, <1>3 DEF Wires
<1>6. NothingForgotten'
  BY <1>3 DEF NothingForgotten
<1>7. Counters'
  BY <1>6 DEF Parts, Counters, InOrderOnce, SentFromScript
<1> QED
  BY <1>4, <1>5, <1>7 DEF Parts

\* ReceiveAck keeps the invariant.
LEMMA ReceiveAckStep ==
  ASSUME Parts, NEW e \in Ends, ReceiveAck(e)
  PROVE  Parts'
<1>1. PICK type \in MessageType : Read(e, type)
  BY DEF ReceiveAck, MessageType
<1>2. outgoingAckId' \in [Ends -> Nat]
  BY <1>1, ReadStep
<1>3. Fields'
  BY <1>2 DEF Parts, Fields, ReceiveAck, incomingVars, socketVars, handshakeVars
<1>4. Writers'
  <2>1. \A f \in Ends : Genuine(f)' = Genuine(f)
    BY DEF Genuine, ReceiveAck, incomingVars
  <2> QED
    BY <2>1, WritersStay DEF ReceiveAck
<1> QED
  BY <1>1, <1>3, <1>4, ReceiveOtherStep DEF ReceiveAck, incomingVars

\* ReceiveControl keeps the invariant.
LEMMA ReceiveControlStep ==
  ASSUME Parts, ReceiveControl
  PROVE  Parts'
<1>1. Read(Client, "Control") /\ "Control" \in MessageType /\ Client \in Ends
  BY EndsFacts DEF ReceiveControl, MessageType
<1>2. outgoingAckId' \in [Ends -> Nat]
  BY <1>1, ReadStep
<1>3. Fields'
  BY <1>2 DEF Parts, Fields, ReceiveControl, incomingVars, socketVars
<1>4. Writers'
  <2>1. \A f \in Ends : Genuine(f)' = Genuine(f)
    BY DEF Genuine, ReceiveControl, incomingVars
  <2> QED
    BY <2>1, WritersStay DEF ReceiveControl
<1> QED
  BY <1>1, <1>3, <1>4, ReceiveOtherStep DEF ReceiveControl, incomingVars

\* ReceivePauseOrResume keeps the invariant.
LEMMA ReceivePauseOrResumeStep ==
  ASSUME Parts, NEW e \in Ends, ReceivePauseOrResume(e)
  PROVE  Parts'
<1>1. PICK type \in MessageType : Read(e, type)
  BY DEF ReceivePauseOrResume, MessageType
<1>2. outgoingAckId' \in [Ends -> Nat]
  BY <1>1, ReadStep
<1>3. Fields'
  BY <1>2 DEF Parts, Fields, ReceivePauseOrResume, incomingVars, socketVars,
              handshakeVars
<1>4. Writers'
  <2>1. \A f \in Ends : Genuine(f)' = Genuine(f)
    BY DEF Genuine, ReceivePauseOrResume, incomingVars
  <2>2. writer[e] \in WriterOf(Genuine(e))
    BY DEF Parts, Writers
  <2>3. Pause(writer[e]) \in WriterOf(Genuine(e)) /\ Resume(writer[e]) \in WriterOf(Genuine(e))
    BY <2>2, WriterOperators
  <2>4. PICK w \in WriterOf(Genuine(e)) : writer' = [writer EXCEPT ![e] = w]
    BY <2>3 DEF ReceivePauseOrResume
  <2> QED
    BY <2>1, <2>4, WriteStep DEF Genuine
<1> QED
  BY <1>1, <1>3, <1>4, ReceiveOtherStep DEF ReceivePauseOrResume, incomingVars

\* ReceiveReplayRequest keeps the invariant.
LEMMA ReceiveReplayRequestStep ==
  ASSUME Parts, NEW e \in Ends, ReceiveReplayRequest(e)
  PROVE  Parts'
<1>1. Read(e, "ReplayRequest") /\ "ReplayRequest" \in MessageType
  BY DEF ReceiveReplayRequest, MessageType
<1>2. outgoingAckId' \in [Ends -> Nat] /\ outgoingUnackMsg'[e] \in Seq(Genuine(e))
  BY <1>1, ReadStep
<1>3. Fields'
  BY <1>2 DEF Parts, Fields, ReceiveReplayRequest, RecvAckCheck, incomingVars,
              socketVars, handshakeVars
<1>4. Writers'
  <2>1. \A f \in Ends : Genuine(f)' = Genuine(f)
    BY DEF Genuine, ReceiveReplayRequest, incomingVars
  <2>2. writer[e] \in WriterOf(Genuine(e))
    BY DEF Parts, Writers
  <2> DEFINE w == WriteAll(writer[e], outgoingUnackMsg'[e])
  <2>3. w \in WriterOf(Genuine(e))
    BY <1>2, <2>2, WriteAllType
  <2>4. writer' = [writer EXCEPT ![e] = w]
    BY DEF ReceiveReplayRequest
  <2> HIDE DEF w
  <2> QED
    BY <2>1, <2>3, <2>4, WriteStep DEF Genuine
<1> QED
  BY <1>1, <1>3, <1>4, ReceiveOtherStep DEF ReceiveReplayRequest, incomingVars

\* The next message of the peer is what its script says.
LEMMA AcceptRegularStep ==
  ASSUME Parts, NEW e \in Ends, NEW m \in Genuine(Peer(e)), m.type = "Regular",
         AcceptRegular(e, m), UNCHANGED outgoingMsgId
  PROVE  /\ InOrderOnce'
         /\ incomingMsgId' \in [Ends -> Nat]
         /\ received' \in [Ends -> Seq(Data)]
         /\ \A f \in Ends : incomingMsgId[f] <= incomingMsgId'[f]
<1> DEFINE s == Peer(e)
           n == incomingMsgId[e]
<1>1. /\ s \in Ends /\ n \in Nat /\ incomingMsgId \in [Ends -> Nat]
      /\ outgoingMsgId[s] \in Nat
      /\ outgoingMsgId[s] <= Len(Script[s])
      /\ Script[s] \in Seq(Data) /\ Len(Script[s]) \in Nat
      /\ received \in [Ends -> Seq(Data)]
      /\ received[e] = Prefix(Script[s], n)
  BY EndsFacts, ConstantsAssumption, LenProperties
     DEF Parts, Fields, Counters, InOrderOnce, SentFromScript
<1>2. m.id = n + 1 /\ n + 1 <= outgoingMsgId[s] /\ m.data = Script[s][n + 1]
  BY <1>1 DEF AcceptRegular, Genuine
<1>3. /\ incomingMsgId' = [incomingMsgId EXCEPT ![e] = n + 1]
      /\ received' = [received EXCEPT ![e] = Append(Prefix(Script[s], n), Script[s][n + 1])]
  BY <1>1, <1>2 DEF AcceptRegular
<1>4. n + 1 \in 1 .. Len(Script[s])
  BY <1>1, <1>2
<1> HIDE DEF s, n
<1>5. Append(Prefix(Script[s], n), Script[s][n + 1]) = Prefix(Script[s], n + 1)
  BY <1>1, <1>4, PrefixAppend
<1>6. Prefix(Script[s], n + 1) \in Seq(Data)
  BY <1>1, <1>4, PrefixType
<1>7. /\ incomingMsgId' \in [Ends -> Nat]
      /\ received' \in [Ends -> Seq(Data)]
      /\ \A f \in Ends : incomingMsgId[f] <= incomingMsgId'[f]
  BY <1>1, <1>3, <1>5, <1>6 DEF n
<1>8. InOrderOnce'
  <2>1. incomingMsgId'[e] <= outgoingMsgId'[Peer(e)]
        /\ received'[e] = Prefix(Script[Peer(e)], incomingMsgId'[e])
    BY <1>1, <1>2, <1>3, <1>5 DEF s
  <2>2. \A f \in Ends \ {e} : /\ incomingMsgId'[f] = incomingMsgId[f]
                              /\ received'[f] = received[f]
    BY <1>1, <1>3
  <2>3. InOrderOnce /\ outgoingMsgId' = outgoingMsgId
    BY DEF Parts, Counters
  <2> QED
    BY <2>1, <2>2, <2>3 DEF InOrderOnce
<1> QED
  BY <1>7, <1>8

\* ReceiveRegular keeps the invariant.
LEMMA ReceiveRegularStep ==
  ASSUME Parts, NEW e \in Ends, ReceiveRegular(e)
  PROVE  Parts'
<1> DEFINE m == Head(Incoming(e))
<1>1. Read(e, "Regular") /\ "Regular" \in MessageType
  BY DEF ReceiveRegular, MessageType
<1>2. /\ m \in Genuine(Peer(e)) /\ m.type = "Regular"
      /\ wire' \in Network(Towards)
      /\ outgoingAckId' \in [Ends -> Nat]
      /\ outgoingUnackMsg' \in [Ends -> Seq(Message)]
      /\ \A f \in Ends :
           /\ outgoingUnackMsg'[f] \in Seq(Genuine(f))
           /\ outgoingAckId'[f] <= incomingMsgId[Peer(f)]
           /\ Len(outgoingUnackMsg'[f]) = outgoingMsgId[f] - outgoingAckId'[f]
           /\ \A i \in 1 .. Len(outgoingUnackMsg'[f]) :
                outgoingUnackMsg'[f][i].id = outgoingAckId'[f] + i
  BY <1>1, ReadStep
<1>3. UNCHANGED outgoingMsgId
  BY DEF ReceiveRegular
<1>4. CASE AcceptRegular(e, m)
  <2>1. /\ InOrderOnce'
        /\ incomingMsgId' \in [Ends -> Nat]
        /\ received' \in [Ends -> Seq(Data)]
        /\ \A f \in Ends : incomingMsgId[f] <= incomingMsgId'[f]
    <3> HIDE DEF m
    <3> QED
      BY <1>2, <1>3, <1>4, AcceptRegularStep
  <2>2. \A f \in Ends : Genuine(f) \subseteq Genuine(f)' /\ Genuine(f)' \subseteq Message
    <3> HIDE DEF m
    <3>1. \A f \in Ends : incomingMsgId[f] \in Nat /\ incomingMsgId'[f] \in Nat
                         /\ incomingMsgId[f] <= incomingMsgId'[f]
      BY <2>1 DEF Parts, Fields
    <3>2. \A x \in Message : x.ack \in Nat
      BY DEF Message
    <3> QED
      BY <1>3, <3>1, <3>2 DEF Genuine
  <2>3. Fields'
    BY <1>2, <1>4, <2>1 DEF Parts, Fields, ReceiveRegular, AcceptRegular,
                            socketVars, handshakeVars
  <2>4. Writers'
    BY <1>4, <2>2, WritersStay DEF AcceptRegular
  <2>5. Wires'
    BY <1>2, <2>2, WiresStay
  <2>6. Unacked'
    <3>1. \A f \in Ends : Seq(Genuine(f)) \subseteq Seq(Genuine(f)')
      BY <2>2, SeqMonotonic
    <3> QED
      BY <1>2, <3>1 DEF Unacked
  <2>7. NothingForgotten'
    <3>1. \A f \in Ends : outgoingAckId'[f] <= incomingMsgId'[Peer(f)]
      <4>1. \A f \in Ends : /\ outgoingAckId'[f] \in Nat
                            /\ incomingMsgId[Peer(f)] \in Nat
                            /\ incomingMsgId'[Peer(f)] \in Nat
                            /\ outgoingAckId'[f] <= incomingMsgId[Peer(f)]
                            /\ incomingMsgId[Peer(f)] <= incomingMsgId'[Peer(f)]
        BY <1>2, <2>1, EndsFacts DEF Parts, Fields
      <4> QED
        BY <4>1
    <3> QED
      BY <1>2, <1>3, <3>1 DEF NothingForgotten
  <2>8. Counters'
    BY <1>3, <2>1, <2>7 DEF Parts, Counters, SentFromScript
  <2> QED
    BY <2>3, <2>4, <2>5, <2>6, <2>8 DEF Parts
<1>5. CASE RequestReplay(e, m) \/ IgnoreRegular(e, m)
  <2>1. UNCHANGED <<incomingMsgId, received>>
    BY <1>5 DEF RequestReplay, IgnoreRegular, incomingVars
  <2>2. Fields'
    BY <1>2, <1>5 DEF Parts, Fields, ReceiveRegular, RequestReplay, IgnoreRegular,
                      incomingVars, socketVars, handshakeVars
  <2>3. Writers'
    <3>1. \A f \in Ends : Genuine(f)' = Genuine(f)
      BY <1>3, <2>1 DEF Genuine
    <3>2. CASE UNCHANGED writer
      BY <3>1, <3>2, WritersStay
    <3>3. CASE writer' = [writer EXCEPT ![e] = WriteAll(@, <<Plain("ReplayRequest", 0)>>)]
      <4> DEFINE w == WriteAll(writer[e], <<Plain("ReplayRequest", 0)>>)
      <4>1. writer[e] \in WriterOf(Genuine(e))
        BY DEF Parts, Writers
      <4>2. <<Plain("ReplayRequest", 0)>> \in Seq(Genuine(e))
        BY ControlGenuine DEF MessageType
      <4>3. w \in WriterOf(Genuine(e))
        BY <4>1, <4>2, WriteAllType
      <4>4. writer' = [writer EXCEPT ![e] = w]
        BY <3>3
      <4> HIDE DEF w
      <4> QED
        BY <3>1, <4>3, <4>4, WriteStep DEF Genuine
    <3> QED
      BY <1>5, <3>2, <3>3 DEF RequestReplay, IgnoreRegular
  <2> QED
    BY <1>1, <1>3, <2>1, <2>2, <2>3, ReceiveOtherStep
<1> QED
  BY <1>4, <1>5 DEF ReceiveRegular

\* Every step keeps the invariant.
LEMMA StepParts == Parts /\ [Next]_vars => Parts'
<1> SUFFICES ASSUME Parts, [Next]_vars PROVE Parts'
  OBVIOUS
<1>1. CASE UNCHANGED vars
  <2>1. Fields'
    BY <1>1 DEF Parts, Fields, vars
  <2>2. Client \in Ends /\ << >> \in Seq(Genuine(Client))
    BY EndsFacts, EmptySeq
  <2> QED
    BY <1>1, <2>1, <2>2, WriteOnlyStep DEF vars, outgoingVars
<1>2. ASSUME NEW e \in Ends, Send(e) PROVE Parts'
  BY <1>2, SendStep
<1>3. ASSUME NEW e \in Ends, WriteTimeout(e) PROVE Parts'
  BY <1>3, WriteTimeoutStep
<1>4. ASSUME NEW e \in Ends, IncomingAckTimeout(e) PROVE Parts'
  BY <1>4, IncomingAckTimeoutStep
<1>5. ASSUME NEW e \in Ends, OutgoingAckTimeout(e) PROVE Parts'
  BY <1>5, OutgoingAckTimeoutStep
<1>6. ASSUME NEW e \in Ends, SendKeepAlive(e) PROVE Parts'
  BY <1>6, SendKeepAliveStep
<1>7. ASSUME NEW e \in Ends, ReplayWindowEnds(e) PROVE Parts'
  BY <1>7, ReplayWindowEndsStep
<1>8. ASSUME NEW e \in Ends, Receive(e) PROVE Parts'
  BY <1>8, ReceiveRegularStep, ReceiveReplayRequestStep, ReceiveAckStep,
     ReceivePauseOrResumeStep, ReceiveControlStep DEF Receive
<1>9. CASE ClientBeginReconnection
  BY <1>9, ClientBeginReconnectionStep
<1>10. CASE ClientSendHandshake
  BY <1>10, ClientSendHandshakeStep
<1>11. CASE ClientEndReconnection
  BY <1>11, ClientEndReconnectionStep
<1>12. ASSUME NEW c \in Conn, ServerAccept(c) PROVE Parts'
  BY <1>12, ServerAcceptStep
<1>13. ASSUME NEW c \in Conn, ServerHandOff(c) PROVE Parts'
  BY <1>13, ServerHandOffStep
<1>14. ASSUME NEW c \in Conn, ServerTakeHandedOff(c) PROVE Parts'
  BY <1>14, ServerTakeHandedOffStep
<1>15. ASSUME NEW c \in Conn, Break(c) PROVE Parts'
  BY <1>15, BreakStep
<1>16. ASSUME NEW c \in Conn, NEW e \in Ends, LoseTail(c, e) PROVE Parts'
  BY <1>16, LoseTailStep
<1>17. ASSUME NEW c \in Conn, NEW e \in Ends, LoseAny(c, e) PROVE Parts'
  BY <1>17, LoseAnyStep
<1> QED
  BY <1>1, <1>2, <1>3, <1>4, <1>5, <1>6, <1>7, <1>8, <1>9, <1>10, <1>11,
     <1>12, <1>13, <1>14, <1>15, <1>16, <1>17 DEF Next

-----------------------------------------------------------------------------
(***************************************************************************)
(* The theorems.                                                           *)
(***************************************************************************)

\* The strengthened invariant holds in every state of every run of the two
\* ends, whatever sockets break and whatever they lose.
THEOREM Invariance == Spec => []IInv
<1>1. Init => Parts
  BY InitParts
<1>2. Parts /\ [Next]_vars => Parts'
  BY StepParts
<1>3. Parts => IInv
  BY PartsOfIInv
<1> QED
  BY <1>1, <1>2, <1>3, PTL DEF Spec

\* Every field of the protocol, its writer and its sockets keeps its type.
THEOREM TypeCorrect == Spec => []TypeOK
<1>1. IInv => TypeOK
  BY DEF IInv
<1> QED
  BY <1>1, Invariance, PTL

\* What is fired on onMessage is what was sent, in order, each message once.
THEOREM InOrderOnceCorrect == Spec => []InOrderOnce
<1>1. IInv => InOrderOnce
  BY DEF IInv, Counters
<1> QED
  BY <1>1, Invariance, PTL

\* The queue for resending is exactly what is not acknowledged, and nothing
\* is acknowledged that was not received.
THEOREM NothingForgottenCorrect == Spec => []NothingForgotten
<1>1. IInv => NothingForgotten
  BY DEF IInv, Counters
<1> QED
  BY <1>1, Invariance, PTL

\* No message in flight, on whichever socket, says anything untrue.
THEOREM GenuineInFlightCorrect == Spec => []GenuineInFlight
<1>1. IInv => GenuineInFlight
  BY DEF IInv
<1> QED
  BY <1>1, Invariance, PTL

-----------------------------------------------------------------------------
(***************************************************************************)
(* The protocol implements a pair of reliable channels.                    *)
(***************************************************************************)
LEMMA FifoEnds == Fifo!Ends = Ends /\ \A e : Fifo!Peer(e) = Peer(e)
BY DEF Fifo!Ends, Ends, Fifo!Peer, Peer

\* Initial states of the protocol are initial states of two channels.
LEMMA FifoInit == Init => Fifo!Init
BY FifoEnds DEF Init, Fifo!Init

\* Sending is sending on a channel.
LEMMA FifoSend ==
  ASSUME Parts, NEW e \in Ends, Send(e)
  PROVE  Fifo!Next
<1>1. outgoingMsgId' = [outgoingMsgId EXCEPT ![e] = @ + 1]
  BY DEF Send
<1>2. UNCHANGED received /\ outgoingMsgId[e] < Len(Script[e])
  BY DEF Send, incomingVars
<1>3. Fifo!Send(e)
  BY <1>1, <1>2 DEF Fifo!Send
<1> QED
  BY <1>3, FifoEnds DEF Fifo!Next

\* Accepting a message is receiving it from a channel.
LEMMA FifoDeliver ==
  ASSUME Parts, NEW e \in Ends, NEW m \in Genuine(Peer(e)), m.type = "Regular",
         AcceptRegular(e, m), UNCHANGED outgoingMsgId
  PROVE  Fifo!Next
<1> DEFINE s == Peer(e)
           n == incomingMsgId[e]
<1>1. /\ s \in Ends /\ n \in Nat /\ outgoingMsgId[s] \in Nat
      /\ outgoingMsgId[s] <= Len(Script[s])
      /\ Script[s] \in Seq(Data) /\ Len(Script[s]) \in Nat
      /\ n <= outgoingMsgId[s]
      /\ received[e] = Prefix(Script[s], n)
  BY EndsFacts, ConstantsAssumption, LenProperties
     DEF Parts, Fields, Counters, InOrderOnce, SentFromScript
<1>2. m.id = n + 1 /\ n + 1 <= outgoingMsgId[s] /\ m.data = Script[s][n + 1]
  BY <1>1 DEF AcceptRegular, Genuine
<1>3. received' = [received EXCEPT ![e] = Append(@, Script[s][n + 1])]
  BY <1>2 DEF AcceptRegular
<1>4. Len(received[e]) = n
  <2> HIDE DEF s, n
  <2> QED
    BY <1>1, PrefixLength
<1>5. Len(received[e]) < outgoingMsgId[s]
  BY <1>1, <1>2, <1>4
<1>6. received' = [received EXCEPT ![e] = Append(@, Script[s][Len(@) + 1])]
  BY <1>3, <1>4
<1>7. Fifo!Deliver(e)
  BY <1>5, <1>6, FifoEnds DEF Fifo!Deliver
<1> QED
  BY <1>7, FifoEnds DEF Fifo!Next

\* Every step is a step of the channels, or changes nothing they know of.
LEMMA FifoStep == Parts /\ [Next]_vars => [Fifo!Next]_(Fifo!vars)
<1> SUFFICES ASSUME Parts, [Next]_vars
             PROVE  Fifo!Next \/ UNCHANGED <<outgoingMsgId, received>>
  BY DEF Fifo!vars
<1>1. CASE UNCHANGED vars
  BY <1>1 DEF vars
<1>2. ASSUME NEW e \in Ends, Send(e) PROVE Fifo!Next
  BY <1>2, FifoSend
<1>3. ASSUME NEW e \in Ends,
             \/ WriteTimeout(e) \/ IncomingAckTimeout(e) \/ OutgoingAckTimeout(e)
             \/ SendKeepAlive(e) \/ ReplayWindowEnds(e)
      PROVE  UNCHANGED <<outgoingMsgId, received>>
  BY <1>3 DEF WriteTimeout, IncomingAckTimeout, OutgoingAckTimeout, SendKeepAlive,
              ReplayWindowEnds, protocolVars, outgoingVars, incomingVars
<1>4. ASSUME NEW e \in Ends, Receive(e)
      PROVE  Fifo!Next \/ UNCHANGED <<outgoingMsgId, received>>
  <2>1. CASE ReceiveRegular(e)
    <3> DEFINE m == Head(Incoming(e))
    <3>1. m \in Genuine(Peer(e)) /\ m.type = "Regular" /\ UNCHANGED outgoingMsgId
      BY <2>1, ReadStep DEF ReceiveRegular, MessageType
    <3>2. AcceptRegular(e, m) \/ RequestReplay(e, m) \/ IgnoreRegular(e, m)
      BY <2>1 DEF ReceiveRegular
    <3> HIDE DEF m
    <3>3. CASE AcceptRegular(e, m)
      BY <3>1, <3>3, FifoDeliver
    <3>4. CASE RequestReplay(e, m) \/ IgnoreRegular(e, m)
      BY <3>1, <3>4 DEF RequestReplay, IgnoreRegular, incomingVars
    <3> QED
      BY <3>2, <3>3, <3>4
  <2>2. CASE \/ ReceiveReplayRequest(e) \/ ReceiveAck(e)
             \/ ReceivePauseOrResume(e) \/ ReceiveControl
    BY <2>2 DEF ReceiveReplayRequest, ReceiveAck, ReceivePauseOrResume,
                ReceiveControl, incomingVars
  <2> QED
    BY <1>4, <2>1, <2>2 DEF Receive
<1>5. ASSUME \/ ClientBeginReconnection \/ ClientSendHandshake \/ ClientEndReconnection
      PROVE  UNCHANGED <<outgoingMsgId, received>>
  BY <1>5 DEF ClientBeginReconnection, ClientSendHandshake, ClientEndReconnection,
              protocolVars, outgoingVars, incomingVars
<1>6. ASSUME NEW c \in Conn, \/ ServerAccept(c) \/ ServerTakeHandedOff(c)
      PROVE  UNCHANGED <<outgoingMsgId, received>>
  BY <1>6 DEF ServerAccept, ServerTakeHandedOff, AcceptReconnection, outgoingVars
<1>7. ASSUME NEW c \in Conn, NEW e \in Ends,
             \/ ServerHandOff(c) \/ Break(c) \/ LoseTail(c, e) \/ LoseAny(c, e)
      PROVE  UNCHANGED <<outgoingMsgId, received>>
  BY <1>7 DEF ServerHandOff, Break, LoseTail, LoseAny, protocolVars
<1> QED
  BY <1>1, <1>2, <1>3, <1>4, <1>5, <1>6, <1>7, EndsFacts DEF Next

\* Over sockets that break and lose messages, the two ends behave as a pair
\* of channels that never do: FifoChannel.
THEOREM FifoCorrect == Spec => ImplementsFifo
<1>1. Init => Fifo!Init
  BY FifoInit
<1>2. Parts /\ [Next]_vars => [Fifo!Next]_(Fifo!vars)
  BY FifoStep
<1>3. Parts /\ [Next]_vars => Parts'
  BY StepParts
<1>4. Init => Parts
  BY InitParts
<1> QED
  BY <1>1, <1>2, <1>3, <1>4, PTL DEF Spec, ImplementsFifo, Fifo!Spec

-----------------------------------------------------------------------------
(***************************************************************************)
(* Nothing waits for a timer that is not armed.                            *)
(***************************************************************************)

\* _recvAckCheck leaves the check armed, or fires the timeout event.
LEMMA RecvAckCheckArms ==
  ASSUME Parts, WatchdogArmed, NEW e \in Ends, NEW armed \in BOOLEAN,
         NEW mayTimeOut, RecvAckCheck(e, armed, mayTimeOut),
         outgoingMsgId' \in [Ends -> Nat], outgoingAckId' \in [Ends -> Nat],
         isReconnecting' \in [Ends -> BOOLEAN],
         \A f \in Ends \ {e} : /\ outgoingMsgId'[f] = outgoingMsgId[f]
                               /\ outgoingAckId'[f] >= outgoingAckId[f]
                               /\ isReconnecting'[f] = isReconnecting[f]
  PROVE  WatchdogArmed'
<1>1. /\ outgoingAckTimeout \in [Ends -> BOOLEAN]
      /\ socketTimedOut \in [Ends -> BOOLEAN]
      /\ outgoingMsgId \in [Ends -> Nat] /\ outgoingAckId \in [Ends -> Nat]
  BY DEF Parts, Fields
<1>2. /\ outgoingMsgId'[e] > outgoingAckId'[e] /\ ~isReconnecting'[e] =>
           outgoingAckTimeout'[e] \/ socketTimedOut'[e]
      /\ \A f \in Ends \ {e} : /\ outgoingAckTimeout'[f] = outgoingAckTimeout[f]
                               /\ socketTimedOut'[f] = socketTimedOut[f]
  BY <1>1 DEF RecvAckCheck
<1>3. \A f \in Ends \ {e} :
        outgoingMsgId'[f] > outgoingAckId'[f] => outgoingMsgId[f] > outgoingAckId[f]
  BY <1>1
<1> QED
  BY <1>2, <1>3 DEF WatchdogArmed

\* The watchdog stays armed while no message is sent and nothing is disarmed.
LEMMA WatchdogStays ==
  ASSUME Parts, WatchdogArmed, outgoingAckId' \in [Ends -> Nat],
         \A f \in Ends : outgoingAckId'[f] >= outgoingAckId[f],
         UNCHANGED <<outgoingMsgId, isReconnecting, outgoingAckTimeout, socketTimedOut>>
  PROVE  WatchdogArmed'
<1>1. \A f \in Ends : outgoingMsgId[f] \in Nat /\ outgoingAckId[f] \in Nat
  BY DEF Parts, Fields
<1> QED
  BY <1>1 DEF WatchdogArmed

\* Reading a message never takes back an acknowledgement.
LEMMA AcksGrow ==
  ASSUME Parts, NEW e \in Ends, NEW type \in MessageType, Read(e, type)
  PROVE  outgoingAckId' \in [Ends -> Nat] /\ \A f \in Ends : outgoingAckId'[f] >= outgoingAckId[f]
<1>1. outgoingAckId \in [Ends -> Nat] /\ outgoingAckId' \in [Ends -> Nat]
  BY ReadStep DEF Parts, Fields
<1> DEFINE ack == Head(Incoming(e)).ack
<1>2. \/ ack > outgoingAckId[e] /\ outgoingAckId' = [outgoingAckId EXCEPT ![e] = ack]
      \/ UNCHANGED outgoingAckId
  BY DEF Read, AcceptAck
<1>3. ack \in Nat
  BY ReadStep DEF Genuine, Message
<1> HIDE DEF ack
<1> QED
  BY <1>1, <1>2, <1>3

\* Every step keeps the watchdog armed.
LEMMA WatchdogStep == Parts /\ WatchdogArmed /\ [Next]_vars => WatchdogArmed'
<1> SUFFICES ASSUME Parts, WatchdogArmed, [Next]_vars PROVE WatchdogArmed'
  OBVIOUS
<1> Parts'
  BY StepParts
<1>1. /\ outgoingMsgId' \in [Ends -> Nat] /\ outgoingAckId' \in [Ends -> Nat]
      /\ isReconnecting' \in [Ends -> BOOLEAN]
      /\ outgoingAckTimeout \in [Ends -> BOOLEAN] /\ socketTimedOut \in [Ends -> BOOLEAN]
      /\ outgoingMsgId \in [Ends -> Nat] /\ outgoingAckId \in [Ends -> Nat]
      /\ isReconnecting \in [Ends -> BOOLEAN]
  BY DEF Parts, Fields
<1>2. ASSUME UNCHANGED <<outgoingMsgId, outgoingAckId, isReconnecting,
                         outgoingAckTimeout, socketTimedOut>>
      PROVE  WatchdogArmed'
  BY <1>2 DEF WatchdogArmed
<1>3. CASE UNCHANGED vars
  BY <1>2, <1>3 DEF vars
<1>4. ASSUME NEW e \in Ends, Send(e) PROVE WatchdogArmed'
  <2>1. /\ outgoingMsgId' = [outgoingMsgId EXCEPT ![e] = outgoingMsgId[e] + 1]
        /\ UNCHANGED <<outgoingAckId, isReconnecting>>
    BY <1>4 DEF Send
  <2>2. CASE isReconnecting[e] /\ UNCHANGED <<outgoingAckTimeout, socketTimedOut>>
    BY <1>1, <2>1, <2>2 DEF WatchdogArmed
  <2>3. CASE RecvAckCheck(e, outgoingAckTimeout[e], socketTimedOut[e])
    <3>1. \A f \in Ends \ {e} : /\ outgoingMsgId'[f] = outgoingMsgId[f]
                                /\ outgoingAckId'[f] >= outgoingAckId[f]
                                /\ isReconnecting'[f] = isReconnecting[f]
      BY <1>1, <2>1
    <3>2. PICK armed \in BOOLEAN, mayTimeOut \in BOOLEAN : RecvAckCheck(e, armed, mayTimeOut)
      BY <1>1, <2>3
    <3> QED
      BY <1>1, <3>1, <3>2, RecvAckCheckArms
  <2> QED
    BY <1>4, <2>2, <2>3 DEF Send
<1>5. ASSUME NEW e \in Ends, OutgoingAckTimeout(e) PROVE WatchdogArmed'
  <2>1. RecvAckCheck(e, FALSE, TRUE) /\ UNCHANGED <<outgoingMsgId, outgoingAckId, isReconnecting>>
    BY <1>5 DEF OutgoingAckTimeout, outgoingVars
  <2>2. PICK armed \in BOOLEAN, mayTimeOut \in BOOLEAN : RecvAckCheck(e, armed, mayTimeOut)
    BY <2>1
  <2>3. \A f \in Ends \ {e} : /\ outgoingMsgId'[f] = outgoingMsgId[f]
                              /\ outgoingAckId'[f] >= outgoingAckId[f]
                              /\ isReconnecting'[f] = isReconnecting[f]
    BY <1>1, <2>1
  <2> QED
    BY <1>1, <2>2, <2>3, RecvAckCheckArms
<1>6. ASSUME NEW e \in Ends,
             \/ WriteTimeout(e) \/ IncomingAckTimeout(e)
             \/ SendKeepAlive(e) \/ ReplayWindowEnds(e)
      PROVE  WatchdogArmed'
  BY <1>2, <1>6 DEF WriteTimeout, IncomingAckTimeout, SendKeepAlive,
                    ReplayWindowEnds, protocolVars, outgoingVars
<1>7. ASSUME NEW e \in Ends, Receive(e) PROVE WatchdogArmed'
  <2>1. PICK type \in MessageType : Read(e, type)
    BY <1>7 DEF Receive, ReceiveRegular, ReceiveReplayRequest, ReceiveAck,
                ReceivePauseOrResume, ReceiveControl, MessageType
  <2>2. outgoingAckId' \in [Ends -> Nat] /\ \A f \in Ends : outgoingAckId'[f] >= outgoingAckId[f]
    BY <2>1, AcksGrow
  <2>3. CASE ReceiveReplayRequest(e)
    <3>1. /\ RecvAckCheck(e, outgoingAckTimeout[e], FALSE)
          /\ UNCHANGED <<outgoingMsgId, isReconnecting>>
      BY <2>3 DEF ReceiveReplayRequest
    <3>2. PICK armed \in BOOLEAN : RecvAckCheck(e, armed, FALSE)
      BY <1>1, <3>1
    <3> QED
      BY <1>1, <2>2, <3>1, <3>2, RecvAckCheckArms
  <2>4. CASE \/ ReceiveRegular(e) \/ ReceiveAck(e)
             \/ ReceivePauseOrResume(e) \/ ReceiveControl
    <3>1. UNCHANGED <<outgoingMsgId, isReconnecting, outgoingAckTimeout, socketTimedOut>>
      BY <2>4 DEF ReceiveRegular, ReceiveAck, ReceivePauseOrResume, ReceiveControl
    <3> QED
      BY <2>2, <3>1, WatchdogStays
  <2> QED
    BY <1>7, <2>3, <2>4 DEF Receive
<1>8. CASE ClientBeginReconnection
  <2>1. /\ isReconnecting' = [isReconnecting EXCEPT ![Client] = TRUE]
        /\ socketTimedOut' = [socketTimedOut EXCEPT ![Client] = FALSE]
        /\ UNCHANGED <<outgoingMsgId, outgoingAckId, outgoingAckTimeout>>
    BY <1>8 DEF ClientBeginReconnection, outgoingVars
  <2> QED
    BY <1>1, <2>1, EndsFacts DEF WatchdogArmed
<1>9. CASE ClientSendHandshake
  BY <1>2, <1>9 DEF ClientSendHandshake, protocolVars
<1>10. CASE ClientEndReconnection
  <2>1. /\ RecvAckCheck(Client, outgoingAckTimeout[Client], FALSE)
        /\ isReconnecting' = [isReconnecting EXCEPT ![Client] = FALSE]
        /\ UNCHANGED <<outgoingMsgId, outgoingAckId>>
    BY <1>10 DEF ClientEndReconnection, outgoingVars
  <2>2. PICK armed \in BOOLEAN : RecvAckCheck(Client, armed, FALSE)
    BY <1>1, <2>1, EndsFacts
  <2>3. \A f \in Ends \ {Client} : /\ outgoingMsgId'[f] = outgoingMsgId[f]
                                   /\ outgoingAckId'[f] >= outgoingAckId[f]
                                   /\ isReconnecting'[f] = isReconnecting[f]
    BY <1>1, <2>1
  <2>4. Client \in Ends
    BY EndsFacts
  <2> QED
    BY <1>1, <2>2, <2>3, <2>4, RecvAckCheckArms
<1>11. ASSUME NEW c \in Conn, ServerAccept(c) \/ ServerTakeHandedOff(c)
       PROVE  WatchdogArmed'
  <2>1. /\ outgoingAckTimeout' =
             [outgoingAckTimeout EXCEPT ![Server] = @ \/ outgoingUnackMsg[Server] # << >>]
        /\ socketTimedOut' = [socketTimedOut EXCEPT ![Server] = FALSE]
        /\ UNCHANGED <<outgoingMsgId, outgoingAckId, isReconnecting>>
    BY <1>11 DEF ServerAccept, ServerTakeHandedOff, AcceptReconnection, outgoingVars
  <2>2. outgoingMsgId[Server] > outgoingAckId[Server] => outgoingUnackMsg[Server] # << >>
    <3>1. /\ Len(outgoingUnackMsg[Server]) = outgoingMsgId[Server] - outgoingAckId[Server]
          /\ outgoingMsgId[Server] \in Nat /\ outgoingAckId[Server] \in Nat
      BY <1>1, EndsFacts DEF Parts, Counters, NothingForgotten
    <3>2. CASE outgoingUnackMsg[Server] = << >>
      BY <3>1, <3>2, EmptySeq
    <3> QED
      BY <3>2
  <2>3. /\ outgoingUnackMsg[Server] # << >> => outgoingAckTimeout'[Server]
        /\ \A f \in Ends \ {Server} : /\ outgoingAckTimeout'[f] = outgoingAckTimeout[f]
                                      /\ socketTimedOut'[f] = socketTimedOut[f]
    BY <1>1, <2>1, EndsFacts
  <2> QED
    BY <2>1, <2>2, <2>3 DEF WatchdogArmed
<1>12. ASSUME NEW c \in Conn, NEW e \in Ends,
              \/ ServerHandOff(c) \/ Break(c) \/ LoseTail(c, e) \/ LoseAny(c, e)
       PROVE  WatchdogArmed'
  BY <1>2, <1>12 DEF ServerHandOff, Break, LoseTail, LoseAny, protocolVars
<1> QED
  BY <1>3, <1>4, <1>5, <1>6, <1>7, <1>8, <1>9, <1>10, <1>11, <1>12, EndsFacts DEF Next

\* While messages are unacknowledged on a connection in use, the check that
\* detects a dead socket is armed, or has fired.
THEOREM WatchdogCorrect == Spec => []WatchdogArmed
<1>1. Init => WatchdogArmed
  BY DEF Init, WatchdogArmed
<1>2. Init => Parts
  BY InitParts
<1>3. Parts /\ [Next]_vars => Parts'
  BY StepParts
<1>4. Parts /\ WatchdogArmed /\ [Next]_vars => WatchdogArmed'
  BY WatchdogStep
<1> QED
  BY <1>1, <1>2, <1>3, <1>4, PTL DEF Spec

\* The counters of end e that decide whether an ack is owed change as the code
\* changes them: it acknowledges, or arms the timer.
LEMMA AckStep ==
  ASSUME Parts, Parts', AckPromised, [Next]_vars
  PROVE  AckPromised'
<1>1. /\ incomingMsgId \in [Ends -> Nat] /\ incomingAckId \in [Ends -> Nat]
      /\ incomingAckTimeout \in [Ends -> {"off", "armed", "stale"}]
      /\ incomingMsgId' \in [Ends -> Nat] /\ incomingAckId' \in [Ends -> Nat]
      /\ incomingAckTimeout' \in [Ends -> {"off", "armed", "stale"}]
  BY DEF Parts, Fields
<1>2. ASSUME UNCHANGED <<incomingMsgId, incomingAckId, incomingAckTimeout>>
      PROVE  AckPromised'
  BY <1>2 DEF AckPromised
<1>3. ASSUME NEW e \in Ends,
             incomingAckId' = [incomingAckId EXCEPT ![e] = incomingMsgId[e]],
             UNCHANGED <<incomingMsgId, incomingAckTimeout>>
      PROVE  AckPromised'
  BY <1>1, <1>3 DEF AckPromised
<1>4. CASE UNCHANGED vars
  BY <1>2, <1>4 DEF vars
<1>5. ASSUME NEW e \in Ends, Send(e) \/ SendKeepAlive(e) PROVE AckPromised'
  BY <1>3, <1>5 DEF Send, SendKeepAlive, incomingVars
<1>6. ASSUME NEW e \in Ends, WriteTimeout(e) \/ OutgoingAckTimeout(e) \/ ReplayWindowEnds(e)
      PROVE  AckPromised'
  BY <1>2, <1>6 DEF WriteTimeout, OutgoingAckTimeout, ReplayWindowEnds, protocolVars, incomingVars
<1>7. ASSUME NEW e \in Ends, IncomingAckTimeout(e) PROVE AckPromised'
  <2>1. UNCHANGED incomingMsgId
    BY <1>7 DEF IncomingAckTimeout
  <2>2. CASE /\ incomingMsgId[e] <= incomingAckId[e]
             /\ incomingAckTimeout' = [incomingAckTimeout EXCEPT ![e] = "off"]
             /\ UNCHANGED incomingAckId
    BY <1>1, <2>1, <2>2 DEF AckPromised
  <2>3. CASE /\ incomingAckTimeout' = [incomingAckTimeout EXCEPT ![e] = "off"]
             /\ incomingAckId' = [incomingAckId EXCEPT ![e] = incomingMsgId[e]]
    BY <1>1, <2>1, <2>3 DEF AckPromised
  <2>4. CASE /\ incomingAckTimeout' = [incomingAckTimeout EXCEPT ![e] = "armed"]
             /\ UNCHANGED incomingAckId
    BY <1>1, <2>1, <2>4 DEF AckPromised
  <2> QED
    BY <1>7, <2>2, <2>3, <2>4 DEF IncomingAckTimeout
<1>8. ASSUME NEW e \in Ends, ReceiveRegular(e) PROVE AckPromised'
  <2> DEFINE m == Head(Incoming(e))
  <2>1. /\ AcceptRegular(e, m) \/ RequestReplay(e, m) \/ IgnoreRegular(e, m)
        /\ UNCHANGED incomingAckId
    BY <1>8 DEF ReceiveRegular
  <2> HIDE DEF m
  <2>2. CASE AcceptRegular(e, m)
    <3>1. /\ incomingMsgId' = [incomingMsgId EXCEPT ![e] = m.id]
          /\ incomingAckTimeout' =
               [incomingAckTimeout EXCEPT ![e] = IF @ = "off" THEN "armed" ELSE "stale"]
      BY <2>2 DEF AcceptRegular
    <3> QED
      BY <1>1, <2>1, <3>1 DEF AckPromised
  <2>3. CASE RequestReplay(e, m) \/ IgnoreRegular(e, m)
    BY <1>2, <2>1, <2>3 DEF RequestReplay, IgnoreRegular, incomingVars
  <2> QED
    BY <2>1, <2>2, <2>3
<1>9. ASSUME NEW e \in Ends, Receive(e), ~ReceiveRegular(e) PROVE AckPromised'
  BY <1>2, <1>9 DEF Receive, ReceiveReplayRequest, ReceiveAck, ReceivePauseOrResume,
                    ReceiveControl, incomingVars
<1>10. CASE ClientBeginReconnection \/ ClientSendHandshake
  BY <1>2, <1>10 DEF ClientBeginReconnection, ClientSendHandshake, protocolVars
<1>11. CASE ClientEndReconnection
  BY <1>3, <1>11, EndsFacts DEF ClientEndReconnection, incomingVars
<1>12. ASSUME NEW c \in Conn, ServerAccept(c) \/ ServerTakeHandedOff(c) PROVE AckPromised'
  BY <1>3, <1>12, EndsFacts DEF ServerAccept, ServerTakeHandedOff, AcceptReconnection
<1>13. ASSUME NEW c \in Conn, NEW e \in Ends,
              \/ ServerHandOff(c) \/ Break(c) \/ LoseTail(c, e) \/ LoseAny(c, e)
       PROVE  AckPromised'
  BY <1>2, <1>13 DEF ServerHandOff, Break, LoseTail, LoseAny, protocolVars
<1> QED
  BY <1>4, <1>5, <1>6, <1>7, <1>8, <1>9, <1>10, <1>11, <1>12, <1>13, EndsFacts DEF Next

\* An end that received a message it has not acknowledged has its ack timer running.
THEOREM AckPromisedCorrect == Spec => []AckPromised
<1>1. Init => Parts /\ AckPromised
  BY InitParts, EndsFacts DEF Init, AckPromised
<1>2. Parts /\ AckPromised /\ [Next]_vars => (Parts /\ AckPromised)'
  BY StepParts, AckStep
<1> QED
  BY <1>1, <1>2, PTL DEF Spec

-----------------------------------------------------------------------------
\* What a writer that is not paused holds will be written.
Ready(w) == w.buf # << >> /\ ~w.paused => w.timer

\* The operators on a writer leave none stranded.
LEMMA ReadyWriter ==
  ASSUME NEW w \in WriterOf(Message)
  PROVE  /\ Ready(NewWriter) /\ Ready(Pause(w)) /\ Ready(Resume(w))
         /\ \A r \in Seq(Message) : Ready(w) => Ready(WriteAll(w, r))
<1>1. Ready(NewWriter) /\ Ready(Pause(w)) /\ Ready(Resume(w))
  BY DEF Ready, NewWriter, Pause, Resume, WriterOf
<1>2. ASSUME NEW r \in Seq(Message), Ready(w) PROVE Ready(WriteAll(w, r))
  <2>1. /\ w.buf \in Seq(Message) /\ w.paused \in BOOLEAN /\ w.timer \in BOOLEAN
        /\ WriteAll(w, r).buf = w.buf \o r
        /\ WriteAll(w, r).paused = w.paused
        /\ WriteAll(w, r).timer = (w.timer \/ (w.buf = << >> /\ r # << >>))
    BY DEF WriterOf, WriteAll
  <2>2. w.buf = << >> /\ r = << >> => w.buf \o r = << >>
    BY <2>1, ConcatEmptySeq
  <2> QED
    BY <1>2, <2>1, <2>2 DEF Ready
<1> QED
  BY <1>1, <1>2

\* Every step leaves no write stranded.
LEMMA ReadyStep ==
  ASSUME Parts, Parts', NoStrandedWrites, [Next]_vars
  PROVE  NoStrandedWrites'
<1>1. /\ writer \in [Ends -> WriterOf(Message)] /\ \A f \in Ends : Ready(writer[f])
      /\ \A f \in Ends : outgoingUnackMsg[f] \in Seq(Message) /\ incomingMsgId[f] \in Nat
      /\ \A f \in Ends : outgoingUnackMsg'[f] \in Seq(Message)
  BY DEF Parts, Writers, Unacked, Fields, NoStrandedWrites, Ready
<1>2. SUFFICES \A f \in Ends : Ready(writer'[f])
  BY DEF NoStrandedWrites, Ready
<1>3. ASSUME UNCHANGED writer PROVE \A f \in Ends : Ready(writer'[f])
  BY <1>1, <1>3
<1>4. ASSUME NEW e \in Ends, NEW w, writer' = [writer EXCEPT ![e] = w], Ready(w)
      PROVE  \A f \in Ends : Ready(writer'[f])
  BY <1>1, <1>4
<1>5. ASSUME NEW e \in Ends, NEW r \in Seq(Message), writer' = [writer EXCEPT ![e] = WriteAll(@, r)]
      PROVE  \A f \in Ends : Ready(writer'[f])
  <2>1. Ready(WriteAll(writer[e], r))
    BY <1>1, ReadyWriter
  <2> QED
    BY <1>4, <1>5, <2>1
<1>6. ASSUME NEW e \in Ends, NEW type \in MessageType, NEW ack \in Nat,
             writer' = [writer EXCEPT ![e] = WriteAll(@, <<Plain(type, ack)>>)]
      PROVE  \A f \in Ends : Ready(writer'[f])
  <2>1. <<Plain(type, ack)>> \in Seq(Message)
    BY PlainType
  <2> QED
    BY <1>5, <1>6, <2>1
<1>7. \A type \in {"Ack", "KeepAlive", "Control", "ReplayRequest"} : type \in MessageType
  BY DEF MessageType
<1>8. CASE UNCHANGED vars
  BY <1>3, <1>8 DEF vars
<1>9. ASSUME NEW e \in Ends, Send(e) PROVE \A f \in Ends : Ready(writer'[f])
  <2> DEFINE id == outgoingMsgId[e] + 1
             msg == [type |-> "Regular", id |-> id, ack |-> incomingMsgId[e],
                     data |-> Script[e][id]]
  <2>1. UNCHANGED writer \/ writer' = [writer EXCEPT ![e] = WriteAll(@, <<msg>>)]
    BY <1>9 DEF Send
  <2>2. msg \in Message
    <3>1. outgoingMsgId[e] \in Nat
      BY DEF Parts, Fields
    <3>2. id \in 1 .. Len(Script[e]) /\ Script[e] \in Seq(Data)
      BY <1>9, <3>1, ConstantsAssumption, LenProperties DEF Send
    <3>3. Script[e][id] \in Data
      BY <3>2, ElementOfSeq
    <3> QED
      BY <1>1, <3>1, <3>3 DEF Message, MessageType
  <2> HIDE DEF msg
  <2>3. <<msg>> \in Seq(Message)
    BY <2>2
  <2> QED
    BY <1>3, <1>5, <2>1, <2>3
<1>10. ASSUME NEW e \in Ends, WriteTimeout(e) PROVE \A f \in Ends : Ready(writer'[f])
  <2>1. /\ \A f \in Ends \ {e} : writer'[f] = writer[f]
        /\ writer'[e].paused = writer[e].paused
        /\ writer'[e].buf = IF writer[e].paused THEN writer[e].buf ELSE << >>
    BY <1>1, <1>10 DEF WriteTimeout, WriterOf
  <2> QED
    BY <1>1, <2>1 DEF Ready
<1>11. ASSUME NEW e \in Ends, IncomingAckTimeout(e) PROVE \A f \in Ends : Ready(writer'[f])
  BY <1>1, <1>3, <1>6, <1>7, <1>11 DEF IncomingAckTimeout
<1>12. ASSUME NEW e \in Ends, SendKeepAlive(e) PROVE \A f \in Ends : Ready(writer'[f])
  BY <1>1, <1>6, <1>7, <1>12 DEF SendKeepAlive
<1>13. ASSUME NEW e \in Ends, OutgoingAckTimeout(e) \/ ReplayWindowEnds(e)
       PROVE  \A f \in Ends : Ready(writer'[f])
  BY <1>3, <1>13 DEF OutgoingAckTimeout, ReplayWindowEnds
<1>14. ASSUME NEW e \in Ends, ReceiveRegular(e) PROVE \A f \in Ends : Ready(writer'[f])
  <2> DEFINE m == Head(Incoming(e))
  <2>1. AcceptRegular(e, m) \/ RequestReplay(e, m) \/ IgnoreRegular(e, m)
    BY <1>14 DEF ReceiveRegular
  <2> HIDE DEF m
  <2>2. UNCHANGED writer \/ writer' = [writer EXCEPT ![e] = WriteAll(@, <<Plain("ReplayRequest", 0)>>)]
    BY <2>1 DEF AcceptRegular, RequestReplay, IgnoreRegular
  <2> QED
    BY <1>3, <1>6, <1>7, <2>2
<1>15. ASSUME NEW e \in Ends, Receive(e), ~ReceiveRegular(e) PROVE \A f \in Ends : Ready(writer'[f])
  <2>1. CASE ReceiveReplayRequest(e)
    BY <1>1, <1>5, <2>1 DEF ReceiveReplayRequest
  <2>2. CASE ReceiveAck(e) \/ ReceiveControl
    BY <1>3, <2>2 DEF ReceiveAck, ReceiveControl
  <2>3. CASE ReceivePauseOrResume(e)
    <3>1. Ready(Pause(writer[e])) /\ Ready(Resume(writer[e]))
      BY <1>1, ReadyWriter
    <3>2. writer' = [writer EXCEPT ![e] = Pause(@)] \/ writer' = [writer EXCEPT ![e] = Resume(@)]
      BY <2>3 DEF ReceivePauseOrResume
    <3> QED
      BY <1>4, <3>1, <3>2
  <2> QED
    BY <1>15, <2>1, <2>2, <2>3 DEF Receive
<1>16. CASE ClientBeginReconnection
  BY <1>1, <1>4, <1>16, ReadyWriter, EndsFacts DEF ClientBeginReconnection
<1>17. CASE ClientSendHandshake
  BY <1>6, <1>7, <1>17, EndsFacts DEF ClientSendHandshake
<1>18. \A e \in Ends : ReconnectionMessages(e) \in Seq(Message)
  <2> TAKE e \in Ends
  <2>1. <<Plain("Ack", incomingMsgId[e])>> \in Seq(Message)
    BY <1>1, <1>7, PlainType
  <2> QED
    BY <1>1, <2>1, ConcatProperties DEF ReconnectionMessages
<1>19. CASE ClientEndReconnection
  BY <1>5, <1>18, <1>19, EndsFacts DEF ClientEndReconnection
<1>20. ASSUME NEW c \in Conn, ServerAccept(c) \/ ServerTakeHandedOff(c)
       PROVE  \A f \in Ends : Ready(writer'[f])
  <2>1. << >> \in Seq(Message) /\ <<Plain("Resume", 0)>> \in Seq(Message)
    BY PlainType, EmptySeq DEF MessageType
  <2>2. PICK extra \in Seq(Message) :
          writer' = [writer EXCEPT ![Server] =
                       WriteAll(NewWriter, ReconnectionMessages(Server) \o extra)]
    BY <1>20, <2>1 DEF ServerAccept, ServerTakeHandedOff, AcceptReconnection
  <2>3. NewWriter \in WriterOf(Message) /\ Ready(NewWriter) /\ Server \in Ends
    BY EmptySeq, EndsFacts DEF NewWriter, WriterOf, Ready
  <2>4. ReconnectionMessages(Server) \o extra \in Seq(Message)
    BY <1>18, <2>3, ConcatProperties
  <2>5. Ready(WriteAll(NewWriter, ReconnectionMessages(Server) \o extra))
    BY <2>3, <2>4, ReadyWriter
  <2> QED
    BY <1>4, <2>2, <2>3, <2>5
<1>21. ASSUME NEW c \in Conn, NEW e \in Ends,
              \/ ServerHandOff(c) \/ Break(c) \/ LoseTail(c, e) \/ LoseAny(c, e)
       PROVE  \A f \in Ends : Ready(writer'[f])
  BY <1>3, <1>21 DEF ServerHandOff, Break, LoseTail, LoseAny
<1> QED
  BY <1>8, <1>9, <1>10, <1>11, <1>12, <1>13, <1>14, <1>15, <1>16, <1>17, <1>19, <1>20,
     <1>21, EndsFacts DEF Next

\* What a writer that is not paused holds is about to be written.
THEOREM NoStrandedWritesCorrect == Spec => []NoStrandedWrites
<1>1. Init => Parts /\ NoStrandedWrites
  BY InitParts DEF Init, NoStrandedWrites, NewWriter
<1>2. Parts /\ NoStrandedWrites /\ [Next]_vars => (Parts /\ NoStrandedWrites)'
  BY StepParts, ReadyStep
<1> QED
  BY <1>1, <1>2, PTL DEF Spec

-----------------------------------------------------------------------------
(***************************************************************************)
(* No gaps.  On sockets that lose nothing before they break, a reader      *)
(* never meets a message from beyond a gap.  The inductive invariant says  *)
(* what is in flight and about to be written: each stream, read from where *)
(* its receiver is, has no gap and, unless its sender is reconnecting,     *)
(* reaches the sender's last message; a request to reconnect is made once; *)
(* what the server will skip on a socket that changes process, the client  *)
(* has not written anything that counts to, since it was paused before it  *)
(* was answered.                                                           *)
(***************************************************************************)

\* The types of the messages in q.
Types(q) == {q[i].type : i \in 1 .. Len(q)}

\* A receiver that has all up to n meets no gap in q.
Gapless(q, n) ==
  \A i \in 1 .. Len(q) :
    q[i].type = "Regular" =>
      \/ q[i].id <= n + 1
      \/ \E j \in 1 .. i - 1 : q[j].type = "Regular" /\ q[i].id <= q[j].id + 1

\* The last id is among what was received or is in q.
Reaches(q, n, id) ==
  \/ id <= n
  \/ \E i \in 1 .. Len(q) : q[i].type = "Regular" /\ q[i].id = id

\* There is at most one message of that type in q.
Once(q, type) ==
  \A i, j \in 1 .. Len(q) : q[i].type = type /\ q[j].type = type => i = j

\* A Pause comes before every Control message in q.
PausedFirst(q) ==
  \A i \in 1 .. Len(q) :
    q[i].type = "Control" => \E j \in 1 .. i - 1 : q[j].type = "Pause"

\* The elements of a sequence of messages are messages.
LEMMA Elements ==
  ASSUME NEW q \in Seq(Message)
  PROVE  Len(q) \in Nat /\ \A i \in 1 .. Len(q) : q[i] \in Message /\ q[i].id \in Nat
<1>1. Len(q) \in Nat /\ \A i \in 1 .. Len(q) : q[i] \in Message
  BY LenProperties, ElementOfSeq
<1>2. \A m \in Message : m.id \in Nat
  BY DEF Message
<1> QED
  BY <1>1, <1>2

\* The types of two sequences together.
LEMMA TypesConcat ==
  ASSUME NEW q \in Seq(Message), NEW r \in Seq(Message)
  PROVE  Types(q \o r) = Types(q) \cup Types(r)
<1>1. /\ Len(q) \in Nat /\ Len(r) \in Nat
      /\ Len(q \o r) = Len(q) + Len(r)
      /\ \A i \in 1 .. Len(q) + Len(r) :
           (q \o r)[i] = IF i <= Len(q) THEN q[i] ELSE r[i - Len(q)]
  BY ConcatProperties, LenProperties
<1>2. \A i \in 1 .. Len(q) : i \in 1 .. Len(q \o r) /\ (q \o r)[i] = q[i]
  BY <1>1
<1>3. \A i \in 1 .. Len(r) :
        Len(q) + i \in 1 .. Len(q \o r) /\ (q \o r)[Len(q) + i] = r[i]
  BY <1>1
<1>4. \A i \in 1 .. Len(q \o r) :
        \/ i \in 1 .. Len(q)
        \/ i - Len(q) \in 1 .. Len(r) /\ (q \o r)[i] = r[i - Len(q)]
  BY <1>1
<1>5. Types(q \o r) \subseteq Types(q) \cup Types(r)
  BY <1>2, <1>4 DEF Types
<1>6. Types(q) \subseteq Types(q \o r)
  BY <1>2 DEF Types
<1>7. Types(r) \subseteq Types(q \o r)
  BY <1>3 DEF Types
<1> QED
  BY <1>5, <1>6, <1>7

\* A part of a sequence has no other types.
LEMMA TypesOfPart ==
  ASSUME NEW q \in Seq(Message)
  PROVE  /\ \A k \in 0 .. Len(q) : Types(After(q, k)) \subseteq Types(q)
         /\ \A k \in -1 .. Len(q) : Types(Prefix(q, k)) \subseteq Types(q)
         /\ q # << >> => /\ Types(Tail(q)) \subseteq Types(q)
                         /\ Head(q).type \in Types(q)
<1>1. Len(q) \in Nat /\ \A i \in 1 .. Len(q) : q[i] \in Message
  BY LenProperties, ElementOfSeq
<1>2. ASSUME NEW k \in 0 .. Len(q) PROVE Types(After(q, k)) \subseteq Types(q)
  <2>1. /\ Len(After(q, k)) = IF k + 1 <= Len(q) THEN Len(q) - (k + 1) + 1 ELSE 0
        /\ \A i \in 1 .. Len(q) - (k + 1) + 1 : After(q, k)[i] = q[k + 1 + i - 1]
    BY <1>1, SubSeqProperties DEF After
  <2>2. \A i \in 1 .. Len(After(q, k)) : k + i \in 1 .. Len(q) /\ After(q, k)[i] = q[k + i]
    BY <1>1, <2>1
  <2> QED
    BY <2>2 DEF Types
<1>3. ASSUME NEW k \in -1 .. Len(q) PROVE Types(Prefix(q, k)) \subseteq Types(q)
  <2>1. /\ Len(Prefix(q, k)) = IF 1 <= k THEN k - 1 + 1 ELSE 0
        /\ \A i \in 1 .. k - 1 + 1 : Prefix(q, k)[i] = q[1 + i - 1]
    BY <1>1, SubSeqProperties DEF Prefix
  <2>2. \A i \in 1 .. Len(Prefix(q, k)) : i \in 1 .. Len(q) /\ Prefix(q, k)[i] = q[i]
    BY <1>1, <2>1
  <2> QED
    BY <2>2 DEF Types
<1>4. ASSUME q # << >>
      PROVE  Types(Tail(q)) \subseteq Types(q) /\ Head(q).type \in Types(q)
  <2>1. /\ Len(Tail(q)) = Len(q) - 1
        /\ \A i \in 1 .. Len(Tail(q)) : i + 1 \in 1 .. Len(q) /\ Tail(q)[i] = q[i + 1]
    BY <1>1, <1>4, HeadTailProperties
  <2>2. 1 \in 1 .. Len(q) /\ Head(q) = q[1]
    BY <1>1, <1>4, EmptySeq
  <2> QED
    BY <2>1, <2>2 DEF Types
<1> QED
  BY <1>2, <1>3, <1>4

\* The types of what is written at once.
LEMMA TypesOfFew ==
  /\ Types(<< >>) = {}
  /\ \A type, ack : Types(<<Plain(type, ack)>>) = {type}
  /\ \A s, t : Types(<<Plain(s, 0), Plain(t, 0)>>) = {s, t}
BY DEF Types, Plain

\* Who has received more meets no more gaps.
LEMMA GaplessMonotonic ==
  ASSUME NEW q \in Seq(Message), NEW n \in Nat, NEW m \in Nat, n <= m, Gapless(q, n)
  PROVE  Gapless(q, m)
<1>1. \A i \in 1 .. Len(q) : q[i].id \in Nat
  BY Elements
<1> QED
  BY <1>1 DEF Gapless

\* More messages do no harm if what they carry follows.
LEMMA GaplessConcat ==
  ASSUME NEW q \in Seq(Message), NEW r \in Seq(Message), NEW n \in Nat,
         Gapless(q, n),
         \A i \in 1 .. Len(r) : r[i].type = "Regular" =>
           \/ Reaches(q, n, r[i].id - 1)
           \/ \E j \in 1 .. i - 1 : r[j].type = "Regular" /\ r[i].id <= r[j].id + 1
  PROVE  Gapless(q \o r, n)
<1> DEFINE s == q \o r
<1>1. /\ Len(q) \in Nat /\ Len(r) \in Nat /\ Len(s) = Len(q) + Len(r)
      /\ \A i \in 1 .. Len(q) + Len(r) : s[i] = IF i <= Len(q) THEN q[i] ELSE r[i - Len(q)]
      /\ s \in Seq(Message)
  BY ConcatProperties, LenProperties
<1>2. /\ \A i \in 1 .. Len(q) : s[i] = q[i] /\ q[i].id \in Nat
      /\ \A i \in 1 .. Len(r) : s[Len(q) + i] = r[i] /\ r[i].id \in Nat
  BY <1>1, Elements
<1> HIDE DEF s
<1>3. SUFFICES ASSUME NEW i \in 1 .. Len(s), s[i].type = "Regular"
               PROVE  \/ s[i].id <= n + 1
                      \/ \E j \in 1 .. i - 1 : s[j].type = "Regular" /\ s[i].id <= s[j].id + 1
  BY DEF Gapless, s
<1>4. CASE i <= Len(q)
  <2>1. i \in 1 .. Len(q) /\ \A j \in 1 .. i - 1 : s[j] = q[j]
    BY <1>1, <1>4, SMTT(40)
  <2> QED
    BY <1>2, <1>3, <2>1 DEF Gapless
<1>5. CASE i > Len(q)
  <2> DEFINE k == i - Len(q)
  <2>1. k \in 1 .. Len(r) /\ s[i] = r[k] /\ r[k].id \in Nat
    BY <1>1, <1>2, <1>5
  <2>2. CASE r[k].id - 1 <= n
    BY <2>1, <2>2
  <2>3. ASSUME NEW j \in 1 .. Len(q), q[j].type = "Regular", q[j].id = r[k].id - 1
        PROVE  \E l \in 1 .. i - 1 : s[l].type = "Regular" /\ s[i].id <= s[l].id + 1
    <3>1. j \in 1 .. i - 1 /\ s[j] = q[j]
      BY <1>1, <1>2, <1>5
    <3> QED
      BY <2>1, <2>3, <3>1
  <2>4. ASSUME NEW j \in 1 .. k - 1, r[j].type = "Regular", r[k].id <= r[j].id + 1
        PROVE  \E l \in 1 .. i - 1 : s[l].type = "Regular" /\ s[i].id <= s[l].id + 1
    <3>1. Len(q) + j \in 1 .. i - 1 /\ j \in 1 .. Len(r) /\ s[Len(q) + j] = r[j]
      BY <1>1, <1>2, <1>5, <2>1
    <3> QED
      BY <2>1, <2>4, <3>1
  <2> QED
    BY <1>3, <2>1, <2>2, <2>3, <2>4 DEF Reaches
<1> QED
  BY <1>1, <1>4, <1>5

\* Adding what is not Regular makes no gap.
LEMMA GaplessConcatPlain ==
  ASSUME NEW q \in Seq(Message), NEW r \in Seq(Message), NEW n \in Nat,
         "Regular" \notin Types(r)
  PROVE  /\ Gapless(q, n) => Gapless(q \o r, n)
         /\ \A id : Reaches(q, n, id) => Reaches(q \o r, n, id)
<1>1. \A i \in 1 .. Len(r) : r[i].type # "Regular"
  BY DEF Types
<1>2. /\ Len(q) \in Nat /\ Len(r) \in Nat /\ Len(q \o r) = Len(q) + Len(r)
      /\ \A i \in 1 .. Len(q) : (q \o r)[i] = q[i] /\ i \in 1 .. Len(q \o r)
  BY ConcatProperties, LenProperties
<1> QED
  BY <1>1, <1>2, GaplessConcat DEF Reaches

\* Losing the end of a sequence makes no gap.
LEMMA GaplessPrefix ==
  ASSUME NEW q \in Seq(Message), NEW n \in Nat, Gapless(q, n),
         NEW k \in -1 .. Len(q)
  PROVE  Gapless(Prefix(q, k), n)
<1>1. Len(q) \in Nat /\ \A i \in 1 .. Len(q) : q[i] \in Message
  BY LenProperties, ElementOfSeq
<1>2. /\ Len(Prefix(q, k)) = IF 1 <= k THEN k - 1 + 1 ELSE 0
      /\ \A i \in 1 .. k - 1 + 1 : Prefix(q, k)[i] = q[1 + i - 1]
  BY <1>1, SubSeqProperties DEF Prefix
<1>3. \A i \in 1 .. Len(Prefix(q, k)) : i \in 1 .. Len(q) /\ Prefix(q, k)[i] = q[i]
  BY <1>1, <1>2
<1>4. \A i \in 1 .. Len(Prefix(q, k)) : \A j \in 1 .. i - 1 :
        j \in 1 .. Len(Prefix(q, k)) /\ Prefix(q, k)[j] = q[j]
  BY <1>1, <1>2, <1>3
<1> DEFINE p == Prefix(q, k)
<1> HIDE DEF p
<1>5. ASSUME NEW i \in 1 .. Len(p), p[i].type = "Regular"
      PROVE  \/ p[i].id <= n + 1
             \/ \E j \in 1 .. i - 1 : p[j].type = "Regular" /\ p[i].id <= p[j].id + 1
  <2>1. i \in 1 .. Len(q) /\ p[i] = q[i] /\ \A j \in 1 .. i - 1 : p[j] = q[j]
    BY <1>3, <1>4 DEF p
  <2> QED
    BY <1>5, <2>1 DEF Gapless
<1> QED
  BY <1>5 DEF Gapless, p

\* The receiver takes the head.
LEMMA GaplessTail ==
  ASSUME NEW q \in Seq(Message), q # << >>, NEW n \in Nat, Gapless(q, n),
         NEW m \in Nat, n <= m,
         Head(q).type = "Regular" => Head(q).id <= m
  PROVE  /\ Gapless(Tail(q), m)
         /\ Head(q).type = "Regular" => Head(q).id <= n + 1
         /\ \A id \in Int : Reaches(q, n, id) => Reaches(Tail(q), m, id)
<1>1. Len(q) \in Nat /\ \A i \in 1 .. Len(q) : q[i].id \in Nat
  BY Elements
<1>2. /\ Len(Tail(q)) = Len(q) - 1 /\ 1 \in 1 .. Len(q) /\ Head(q) = q[1]
      /\ \A i \in 1 .. Len(q) - 1 : Tail(q)[i] = q[i + 1]
  BY <1>1, HeadTailProperties, EmptySeq
<1>3. q[1].type = "Regular" => q[1].id <= n + 1
  BY <1>1, <1>2 DEF Gapless
<1>4. ASSUME NEW i \in 1 .. Len(q) - 1, Tail(q)[i].type = "Regular"
      PROVE  \/ Tail(q)[i].id <= m + 1
             \/ \E j \in 1 .. i - 1 : Tail(q)[j].type = "Regular" /\ Tail(q)[i].id <= Tail(q)[j].id + 1
  <2>1. Tail(q)[i] = q[i + 1] /\ i + 1 \in 1 .. Len(q) /\ q[i + 1].id \in Nat
    BY <1>1, <1>2
  <2>2. CASE q[i + 1].id <= n + 1
    BY <2>1, <2>2
  <2>3. ASSUME NEW j \in 1 .. i, q[j].type = "Regular", q[i + 1].id <= q[j].id + 1
        PROVE  \/ q[i + 1].id <= m + 1
               \/ \E l \in 1 .. i - 1 : Tail(q)[l].type = "Regular" /\ Tail(q)[i].id <= Tail(q)[l].id + 1
    <3>1. CASE j = 1
      BY <1>1, <1>2, <2>1, <2>3, <3>1
    <3>2. CASE j # 1
      <4>1. j - 1 \in 1 .. i - 1 /\ Tail(q)[j - 1] = q[j]
        BY <1>1, <1>2, <3>2
      <4> QED
        BY <2>1, <2>3, <4>1
    <3> QED
      BY <3>1, <3>2
  <2>4. \/ q[i + 1].id <= n + 1
        \/ \E j \in 1 .. i : q[j].type = "Regular" /\ q[i + 1].id <= q[j].id + 1
    <3>1. i + 1 - 1 = i
      OBVIOUS
    <3> QED
      BY <1>4, <2>1, <3>1 DEF Gapless
  <2> QED
    BY <2>1, <2>2, <2>3, <2>4
<1>5. ASSUME NEW id \in Int, Reaches(q, n, id) PROVE Reaches(Tail(q), m, id)
  <2>1. CASE id <= n
    BY <2>1 DEF Reaches
  <2>2. ASSUME NEW i \in 1 .. Len(q), q[i].type = "Regular", q[i].id = id
        PROVE  Reaches(Tail(q), m, id)
    <3>1. CASE i = 1
      BY <1>2, <2>2, <3>1 DEF Reaches
    <3>2. CASE i # 1
      <4>1. i - 1 \in 1 .. Len(Tail(q)) /\ Tail(q)[i - 1] = q[i]
        BY <1>1, <1>2, <3>2
      <4> QED
        BY <2>2, <4>1 DEF Reaches
    <3> QED
      BY <3>1, <3>2
  <2> QED
    BY <1>5, <2>1, <2>2 DEF Reaches
<1> QED
  BY <1>2, <1>3, <1>4, <1>5 DEF Gapless

\* Who has received more is reached as well.
LEMMA ReachesMonotonic ==
  ASSUME NEW q, NEW n \in Nat, NEW m \in Nat, n <= m, NEW id \in Int, Reaches(q, n, id)
  PROVE  Reaches(q, m, id)
BY DEF Reaches

\* There is no gap without a Regular message.
LEMMA GaplessNoRegular ==
  ASSUME NEW q, NEW n, "Regular" \notin Types(q)
  PROVE  Gapless(q, n)
BY DEF Gapless, Types

\* Parts of a sequence in which a type comes once.
LEMMA OnceRest ==
  ASSUME NEW q \in Seq(Message), NEW r \in Seq(Message), NEW type
  PROVE  /\ Once(q \o r, type) => Once(q, type)
         /\ type \notin Types(q) => Once(q, type)
         /\ Once(q, type) /\ type \notin Types(r) => Once(q \o r, type)
         /\ \A i \in 1 .. Len(q) :
              q[i].type = type =>
                /\ Once(q, type) => type \notin Types(After(q, i))
                /\ Once(q \o r, type) => type \notin Types(r)
<1>1. /\ Len(q) \in Nat /\ Len(r) \in Nat
      /\ Len(q \o r) = Len(q) + Len(r)
      /\ \A i \in 1 .. Len(q) + Len(r) :
           (q \o r)[i] = IF i <= Len(q) THEN q[i] ELSE r[i - Len(q)]
  BY ConcatProperties, LenProperties
<1>2. \A i \in 1 .. Len(q) : i \in 1 .. Len(q \o r) /\ (q \o r)[i] = q[i]
  BY <1>1
<1>3. Once(q \o r, type) => Once(q, type)
  BY <1>2 DEF Once
<1>4. type \notin Types(q) => Once(q, type)
  BY DEF Once, Types
<1>5. ASSUME NEW i \in 1 .. Len(q), q[i].type = type, Once(q, type)
      PROVE  type \notin Types(After(q, i))
  <2>1. \A j \in i + 1 .. Len(q) : q[j] \in Message
    BY <1>1, ElementOfSeq
  <2> DEFINE p == After(q, i)
  <2>2. /\ Len(p) = IF i + 1 <= Len(q) THEN Len(q) - (i + 1) + 1 ELSE 0
        /\ \A j \in 1 .. Len(q) - (i + 1) + 1 : p[j] = q[i + 1 + j - 1]
    BY <1>1, <2>1, SubSeqProperties DEF After
  <2> HIDE DEF p
  <2>3. ASSUME NEW j \in 1 .. Len(p)
        PROVE  i + j \in 1 .. Len(q) /\ p[j] = q[i + j] /\ i + j # i
    <3>1. Len(p) = Len(q) - i
      BY <1>1, <2>2
    <3>2. j \in 1 .. Len(q) - (i + 1) + 1 /\ i + 1 + j - 1 = i + j
      BY <1>1, <3>1
    <3> QED
      BY <1>1, <2>2, <3>1, <3>2
  <2> QED
    BY <1>5, <2>3 DEF Once, Types, p
<1>6. ASSUME NEW i \in 1 .. Len(q), q[i].type = type, Once(q \o r, type)
      PROVE  type \notin Types(r)
  <2>1. \A j \in 1 .. Len(r) :
          /\ Len(q) + j \in 1 .. Len(q \o r) /\ (q \o r)[Len(q) + j] = r[j]
          /\ Len(q) + j # i
    BY <1>1
  <2>2. i \in 1 .. Len(q \o r) /\ (q \o r)[i].type = type
    BY <1>2, <1>6
  <2> QED
    BY <1>6, <2>1, <2>2 DEF Once, Types
<1>7. ASSUME Once(q, type), type \notin Types(r) PROVE Once(q \o r, type)
  <2>1. \A i \in 1 .. Len(q \o r) : (q \o r)[i].type = type => i \in 1 .. Len(q)
    <3>1. \A i \in 1 .. Len(q \o r) :
            \/ i \in 1 .. Len(q)
            \/ i - Len(q) \in 1 .. Len(r) /\ (q \o r)[i] = r[i - Len(q)]
      BY <1>1
    <3> QED
      BY <1>7, <3>1 DEF Types
  <2> QED
    BY <1>2, <1>7, <2>1 DEF Once
<1> QED
  BY <1>3, <1>4, <1>5, <1>6, <1>7

\* The same for its tail and its prefixes.
LEMMA OncePart ==
  ASSUME NEW q \in Seq(Message), NEW type, Once(q, type)
  PROVE  /\ q # << >> => Once(Tail(q), type)
         /\ \A k \in -1 .. Len(q) : Once(Prefix(q, k), type)
<1>1. Len(q) \in Nat /\ \A i \in 1 .. Len(q) : q[i] \in Message
  BY Elements
<1>2. ASSUME NEW k \in -1 .. Len(q) PROVE Once(Prefix(q, k), type)
  <2>1. /\ Len(Prefix(q, k)) = IF 1 <= k THEN k - 1 + 1 ELSE 0
        /\ \A i \in 1 .. k - 1 + 1 : Prefix(q, k)[i] = q[1 + i - 1]
    BY <1>1, SubSeqProperties DEF Prefix
  <2>2. \A i \in 1 .. Len(Prefix(q, k)) : i \in 1 .. Len(q) /\ Prefix(q, k)[i] = q[i]
    BY <1>1, <2>1
  <2> QED
    BY <2>2 DEF Once
<1>3. ASSUME q # << >> PROVE Once(Tail(q), type)
  <2>1. /\ Len(Tail(q)) = Len(q) - 1
        /\ \A i \in 1 .. Len(Tail(q)) : Tail(q)[i] = q[i + 1]
    BY <1>3, HeadTailProperties
  <2>2. \A i \in 1 .. Len(Tail(q)) : i \in Int /\ i + 1 \in 1 .. Len(q) /\ Tail(q)[i] = q[i + 1]
    BY <1>1, <2>1
  <2>3. \A i, j \in 1 .. Len(Tail(q)) :
          Tail(q)[i].type = type /\ Tail(q)[j].type = type => i + 1 = j + 1
    BY <2>2 DEF Once
  <2> QED
    BY <2>2, <2>3 DEF Once
<1> QED
  BY <1>2, <1>3

\* Prefixes and tails of a sequence in which a Pause comes first.
LEMMA PausedFirstPart ==
  ASSUME NEW q \in Seq(Message), PausedFirst(q)
  PROVE  /\ \A k \in -1 .. Len(q) : PausedFirst(Prefix(q, k))
         /\ q # << >> => /\ Head(q).type # "Control"
                         /\ Head(q).type # "Pause" => PausedFirst(Tail(q))
<1>1. Len(q) \in Nat /\ \A i \in 1 .. Len(q) : q[i] \in Message
  BY Elements
<1>2. ASSUME NEW k \in -1 .. Len(q) PROVE PausedFirst(Prefix(q, k))
  <2> DEFINE p == Prefix(q, k)
  <2>1. /\ Len(p) = IF 1 <= k THEN k - 1 + 1 ELSE 0
        /\ \A i \in 1 .. k - 1 + 1 : p[i] = q[1 + i - 1]
    BY <1>1, SubSeqProperties DEF Prefix
  <2> HIDE DEF p
  <2>2. \A i \in 1 .. Len(p) : i \in 1 .. Len(q) /\ p[i] = q[i]
    BY <1>1, <2>1
  <2>3. \A i \in 1 .. Len(p) : \A j \in 1 .. i - 1 : p[j] = q[j]
    BY <1>1, <2>1
  <2> QED
    BY <2>2, <2>3 DEF PausedFirst, p
<1>3. ASSUME q # << >>
      PROVE  /\ Head(q).type # "Control"
             /\ Head(q).type # "Pause" => PausedFirst(Tail(q))
  <2> DEFINE p == Tail(q)
  <2>1. /\ Len(p) = Len(q) - 1 /\ Head(q) = q[1] /\ 1 \in 1 .. Len(q)
        /\ \A i \in 1 .. Len(p) : p[i] = q[i + 1]
    BY <1>1, <1>3, HeadTailProperties, EmptySeq
  <2> HIDE DEF p
  <2>2. Head(q).type # "Control"
    BY <2>1 DEF PausedFirst
  <2>3. ASSUME Head(q).type # "Pause", NEW i \in 1 .. Len(p), p[i].type = "Control"
        PROVE  \E j \in 1 .. i - 1 : p[j].type = "Pause"
    <3>1. i + 1 \in 1 .. Len(q) /\ q[i + 1].type = "Control" /\ i + 1 - 1 = i
      BY <1>1, <2>1, <2>3
    <3>2. PICK j \in 1 .. i : q[j].type = "Pause"
      BY <3>1 DEF PausedFirst
    <3>3. j - 1 \in 1 .. i - 1 /\ p[j - 1] = q[j]
      <4>1. j # 1
        BY <2>1, <2>3, <3>2
      <4> QED
        BY <1>1, <2>1, <4>1
    <3> QED
      BY <3>2, <3>3
  <2> QED
    BY <2>2, <2>3 DEF PausedFirst, p
<1> QED
  BY <1>2, <1>3

\* The queue is sent again.
LEMMA GaplessQueue ==
  ASSUME NEW q \in Seq(Message), NEW u \in Seq(Message), NEW n \in Nat, Gapless(q, n),
         NEW a \in Nat, a <= n,
         \A i \in 1 .. Len(u) : u[i].type = "Regular" /\ u[i].id = a + i
  PROVE  Gapless(q \o u, n) /\ Reaches(q \o u, n, a + Len(u))
<1>1. Len(u) \in Nat /\ Len(q) \in Nat
  BY Elements
<1>2. ASSUME NEW i \in 1 .. Len(u)
      PROVE  \/ Reaches(q, n, u[i].id - 1)
             \/ \E j \in 1 .. i - 1 : u[j].type = "Regular" /\ u[i].id <= u[j].id + 1
  <2>1. CASE i = 1
    BY <2>1 DEF Reaches
  <2>2. CASE i # 1
    <3>1. i - 1 \in 1 .. i - 1 /\ i - 1 \in 1 .. Len(u)
      BY <1>1, <2>2
    <3>2. u[i].id = a + i /\ u[i - 1].id = a + (i - 1) /\ u[i - 1].type = "Regular"
      BY <3>1
    <3>3. u[i].id <= u[i - 1].id + 1
      BY <1>1, <3>2
    <3> QED
      BY <3>1, <3>2, <3>3
  <2> QED
    BY <2>1, <2>2
<1>3. Gapless(q \o u, n)
  BY <1>2, GaplessConcat
<1>4. Reaches(q \o u, n, a + Len(u))
  <2>1. CASE Len(u) = 0
    BY <2>1 DEF Reaches
  <2>2. CASE Len(u) # 0
    <3>1. Len(u) \in 1 .. Len(u)
      BY <1>1, <2>2
    <3>2. /\ Len(q) + Len(u) \in 1 .. Len(q \o u)
          /\ (q \o u)[Len(q) + Len(u)] = u[Len(u)]
      BY <1>1, <2>2, ConcatProperties
    <3> QED
      BY <3>1, <3>2 DEF Reaches
  <2> QED
    BY <2>1, <2>2
<1> QED
  BY <1>3, <1>4

-----------------------------------------------------------------------------
\* All that end e has written, or is about to write, to its connection.
Stream(e) == wire[conn[e]][Peer(e)] \o writer[e].buf

\* No replay was requested, and what is kept for resending is Regular.
NoReplay ==
  \A e \in Ends :
    /\ ~replayRequested[e]
    /\ "ReplayRequest" \notin Types(writer[e].buf)
    /\ \A c \in Conn : "ReplayRequest" \notin Types(wire[c][e])
    /\ Types(outgoingUnackMsg[e]) \subseteq {"Regular"}

\* No gap on any socket, and none in what is still to be written to the current one, which
\* reaches the last message sent.
Contiguous ==
  \A e \in Ends :
    /\ \A c \in Conn : Gapless(wire[c][Peer(e)], incomingMsgId[Peer(e)])
    /\ ~broken[conn[e]] =>
         /\ Gapless(Stream(e), incomingMsgId[Peer(e)])
         /\ ~isReconnecting[e] =>
              Reaches(Stream(e), incomingMsgId[Peer(e)], outgoingMsgId[e])

\* The request of connection c has not been read.
Pending(c) ==
  \/ "Control" \in Types(wire[c][Server])
  \/ c = conn[Client] /\ "Control" \in Types(writer[Client].buf)
  \/ c = conn[Client] /\ isReconnecting[Client] /\ ~handshakeSent
  \/ c > opened

\* A request to reconnect is made once, and its socket carries nothing for the client and
\* belongs to nobody until it is read.
Requests ==
  /\ conn[Client] = opened /\ ~isReconnecting[Server]
  /\ "Control" \notin Types(writer[Server].buf)
  /\ \A c \in Conn : Once(wire[c][Server], "Control")
  /\ Once(Stream(Client), "Control")
  /\ ~handshakeSent => "Control" \notin Types(Stream(Client))
  /\ \A c \in Conn :
       Pending(c) => conn[Server] # c /\ wire[c][Client] = << >> /\ c \notin handedOff
  /\ handshakeOk \/ ~isReconnecting[Client] => ~Pending(conn[Client])
  /\ \A c \in Conn : c > opened => wire[c][Server] = << >>

\* A client that reconnects writes nothing Regular, and what the server skips has nothing
\* Regular.
Silent ==
  /\ isReconnecting[Client] => "Regular" \notin Types(Stream(Client))
  /\ \A c \in Conn :
       c \in handedOff \/ "Control" \in Types(wire[c][Server]) =>
         "Regular" \notin Types(wire[c][Server])

\* The client is paused before a socket that was handed to another process is answered.
Pausing ==
  /\ \A c \in handedOff : conn[Server] # c /\ "Resume" \notin Types(wire[c][Client])
  /\ conn[Client] \in handedOff /\ ~writer[Client].paused =>
       /\ ~handshakeOk /\ isReconnecting[Client]
       /\ PausedFirst(wire[conn[Client]][Client])

\* The inductive invariant of NoGap, which it needs in addition to Parts.
GInv == NoReplay /\ Contiguous /\ Requests /\ Silent /\ Pausing

\* The types that the proofs below need.
LEMMA Shape ==
  ASSUME Parts
  PROVE  /\ wire \in [Conn -> [Ends -> Seq(Message)]]
         /\ writer \in [Ends -> WriterOf(Message)]
         /\ \A e \in Ends : /\ writer[e].buf \in Seq(Message)
                            /\ writer[e].paused \in BOOLEAN
                            /\ conn[e] \in Conn
                            /\ incomingMsgId[e] \in Nat
                            /\ outgoingMsgId[e] \in Nat
                            /\ outgoingUnackMsg[e] \in Seq(Message)
                            /\ Stream(e) \in Seq(Message)
         /\ opened \in Conn /\ Conn \subseteq Nat
<1>1. wire \in [Conn -> [Ends -> Seq(Message)]]
  BY DEF Parts, Wires, Network
<1>2. /\ writer \in [Ends -> WriterOf(Message)]
      /\ \A e \in Ends : /\ writer[e].buf \in Seq(Message)
                         /\ writer[e].paused \in BOOLEAN
                         /\ conn[e] \in Conn
                         /\ incomingMsgId[e] \in Nat
                         /\ outgoingMsgId[e] \in Nat
                         /\ outgoingUnackMsg[e] \in Seq(Message)
  BY DEF Parts, Writers, Fields, WriterOf, Unacked
<1>3. \A e \in Ends : Stream(e) \in Seq(Message)
  BY <1>1, <1>2, ConcatProperties, EndsFacts DEF Stream
<1>4. opened \in Conn /\ Conn \subseteq Nat
  BY DEF Parts, Fields, Conn
<1> QED
  BY <1>1, <1>2, <1>3, <1>4

\* It holds initially.
LEMMA GInvInit == Init => GInv
<1> SUFFICES ASSUME Init PROVE GInv
  OBVIOUS
<1>1. \A c \in Conn, e \in Ends : wire[c][e] = << >> /\ Types(wire[c][e]) = {}
  BY TypesOfFew DEF Init
<1>2. \A e \in Ends : /\ writer[e].buf = << >> /\ Types(writer[e].buf) = {}
                      /\ outgoingUnackMsg[e] = << >> /\ Types(outgoingUnackMsg[e]) = {}
  BY TypesOfFew DEF Init, NewWriter
<1>3. \A e \in Ends : conn[e] = 0 /\ Stream(e) = << >> \o << >>
  BY <1>1, <1>2, EndsFacts DEF Init, Stream
<1>4. << >> \o << >> = << >>
  BY ConcatEmptySeq, EmptySeq
<1>5. \A n : Gapless(<< >>, n)
  BY GaplessNoRegular, TypesOfFew
<1>6. NoReplay
  BY <1>1, <1>2 DEF Init, NoReplay
<1>7. Contiguous
  BY <1>1, <1>3, <1>4, <1>5, EndsFacts DEF Init, Contiguous, Reaches
<1>8. Requests
  <2>1. Once(<< >>, "Control")
    BY OnceRest, EmptySeq, TypesOfFew
  <2>2. ~Pending(0) /\ \A c \in Conn : Pending(c) => c # 0
    BY <1>1, <1>2, EndsFacts DEF Pending, Init
  <2> QED
    BY <1>1, <1>2, <1>3, <1>4, <2>1, <2>2, EndsFacts, TypesOfFew DEF Init, Requests
<1>9. Silent
  BY <1>1, <1>3, <1>4, EndsFacts, TypesOfFew DEF Init, Silent
<1>10. Pausing
  BY DEF Init, Pausing
<1> QED
  BY <1>6, <1>7, <1>8, <1>9, <1>10 DEF GInv

\* Adding other messages adds no Control message.
LEMMA PlainOnce ==
  ASSUME NEW q \in Seq(Message), NEW r \in Seq(Message), "Control" \notin Types(r)
  PROVE  Once(q, "Control") => Once(q \o r, "Control")
BY OnceRest

\* What a write adds to a stream.
LEMMA StreamGrows ==
  ASSUME Parts, NEW e \in Ends, NEW r \in Seq(Message),
         writer'[e].buf = writer[e].buf \o r,
         wire'[conn[e]][Peer(e)] = wire[conn[e]][Peer(e)], conn'[e] = conn[e]
  PROVE  /\ Stream(e)' = Stream(e) \o r
         /\ Types(Stream(e)') = Types(Stream(e)) \cup Types(r)
         /\ Types(writer'[e].buf) = Types(writer[e].buf) \cup Types(r)
<1> DEFINE a == wire[conn[e]][Peer(e)]
           b == writer[e].buf
<1>1. Stream(e) = a \o b /\ Stream(e)' = a \o (b \o r)
  BY DEF Stream
<1>2. a \in Seq(Message) /\ b \in Seq(Message) /\ r \in Seq(Message) /\ a \o b \in Seq(Message)
  BY Shape, EndsFacts, ConcatProperties
<1>3. Types(b \o r) = Types(b) \cup Types(r)
  BY <1>2, TypesConcat
<1>4. writer'[e].buf = b \o r
  OBVIOUS
<1> HIDE DEF a, b
<1>5. a \o (b \o r) = (a \o b) \o r
  BY <1>2, ConcatAssociative
<1>6. Types((a \o b) \o r) = Types(a \o b) \cup Types(r)
  BY <1>2, TypesConcat
<1> QED
  BY <1>1, <1>3, <1>4, <1>5, <1>6 DEF b

\* An end writes messages that are neither Regular nor part of a handshake, or none.
LEMMA OnlyWritesStep ==
  ASSUME Parts, Parts', GInv,
         UNCHANGED <<wire, conn, opened, isReconnecting, incomingMsgId, outgoingMsgId,
                     outgoingUnackMsg, handshakeSent, handshakeOk, handedOff,
                     replayRequested>>,
         \A c \in Conn : broken[c] => broken'[c],
         \A e \in Ends :
           /\ writer'[e].paused = writer[e].paused
           /\ \E r \in Seq(Message) : /\ Types(r) \subseteq {"Ack", "KeepAlive"}
                                      /\ writer'[e].buf = writer[e].buf \o r
  PROVE  GInv'
<1>0. NoReplay /\ Contiguous /\ Requests /\ Silent /\ Pausing
  BY DEF GInv
<1>1. PICK w \in [Ends -> Seq(Message)] :
        \A e \in Ends : /\ Types(w[e]) \subseteq {"Ack", "KeepAlive"}
                        /\ writer'[e].buf = writer[e].buf \o w[e]
  <2> DEFINE w == [e \in Ends |-> CHOOSE r \in Seq(Message) :
                     Types(r) \subseteq {"Ack", "KeepAlive"} /\ writer'[e].buf = writer[e].buf \o r]
  <2>1. \A e \in Ends : /\ w[e] \in Seq(Message) /\ Types(w[e]) \subseteq {"Ack", "KeepAlive"}
                        /\ writer'[e].buf = writer[e].buf \o w[e]
    OBVIOUS
  <2>2. w \in [Ends -> Seq(Message)]
    BY <2>1
  <2> HIDE DEF w
  <2> QED
    BY <2>1, <2>2
<1>2. \A e \in Ends :
        /\ Stream(e)' = Stream(e) \o w[e]
        /\ \A type \in {"Regular", "Control", "ReplayRequest"} :
             /\ type \in Types(writer'[e].buf) <=> type \in Types(writer[e].buf)
             /\ type \in Types(Stream(e)') <=> type \in Types(Stream(e))
  <2> TAKE e \in Ends
  <2>1. /\ Stream(e)' = Stream(e) \o w[e]
        /\ Types(Stream(e)') = Types(Stream(e)) \cup Types(w[e])
        /\ Types(writer'[e].buf) = Types(writer[e].buf) \cup Types(w[e])
    BY <1>1, StreamGrows
  <2>2. \A type \in {"Regular", "Control", "ReplayRequest"} : type \notin Types(w[e])
    BY <1>1
  <2> QED
    BY <2>1, <2>2
<1>3. NoReplay'
  <2> SUFFICES ASSUME NEW e \in Ends
               PROVE  /\ ~replayRequested'[e]
                      /\ "ReplayRequest" \notin Types(writer'[e].buf)
                      /\ \A c \in Conn : "ReplayRequest" \notin Types(wire'[c][e])
                      /\ Types(outgoingUnackMsg'[e]) \subseteq {"Regular"}
    BY DEF NoReplay
  <2> QED
    BY <1>1, <1>2, <1>0 DEF NoReplay
<1>4. Contiguous'
  <2> SUFFICES ASSUME NEW e \in Ends
               PROVE  /\ \A c \in Conn : Gapless(wire'[c][Peer(e)], incomingMsgId'[Peer(e)])
                      /\ ~broken'[conn'[e]] =>
                           /\ Gapless(Stream(e)', incomingMsgId'[Peer(e)])
                           /\ ~isReconnecting'[e] =>
                                Reaches(Stream(e)', incomingMsgId'[Peer(e)], outgoingMsgId'[e])
    BY DEF Contiguous
  <2>1. /\ Stream(e) \in Seq(Message) /\ w[e] \in Seq(Message) /\ incomingMsgId[Peer(e)] \in Nat
        /\ conn[e] \in Conn /\ "Regular" \notin Types(w[e])
    BY <1>1, Shape, EndsFacts
  <2>2. /\ Gapless(Stream(e), incomingMsgId[Peer(e)]) => Gapless(Stream(e) \o w[e], incomingMsgId[Peer(e)])
        /\ \A id : Reaches(Stream(e), incomingMsgId[Peer(e)], id) =>
                     Reaches(Stream(e) \o w[e], incomingMsgId[Peer(e)], id)
    BY <2>1, GaplessConcatPlain
  <2> QED
    BY <1>0, <1>2, <2>1, <2>2 DEF Contiguous
<1>5. Requests'
  <2>1. \A c \in Conn : Pending(c)' => Pending(c)
    <3> TAKE c \in Conn
    <3>1. "Control" \in Types(writer'[Client].buf) => "Control" \in Types(writer[Client].buf)
      BY <1>1, <1>2, EndsFacts
    <3> QED
      BY <3>1 DEF Pending
  <2>2. Once(Stream(Client)', "Control")
    <3>1. /\ Stream(Client) \in Seq(Message) /\ w[Client] \in Seq(Message)
          /\ "Control" \notin Types(w[Client])
      BY <1>1, Shape, EndsFacts
    <3>2. Once(Stream(Client) \o w[Client], "Control")
      BY <1>0, <3>1, PlainOnce DEF Requests
    <3> QED
      BY <1>2, <3>2, EndsFacts
  <2>3. /\ "Control" \notin Types(writer'[Server].buf)
        /\ ~handshakeSent => "Control" \notin Types(Stream(Client)')
    BY <1>0, <1>1, <1>2, EndsFacts DEF Requests
  <2>4. conn[Client] \in Conn
    BY Shape, EndsFacts
  <2> QED
    BY <1>0, <2>1, <2>2, <2>3, <2>4 DEF Requests
<1>6. Silent'
  <2>1. "Regular" \in Types(Stream(Client)') => "Regular" \in Types(Stream(Client))
    BY <1>1, <1>2, EndsFacts
  <2> QED
    BY <1>0, <2>1 DEF Silent
<1>7. Pausing'
  BY <1>0, EndsFacts DEF Pausing
<1> QED
  BY <1>3, <1>4, <1>5, <1>6, <1>7 DEF GInv

\* What a writer passes on to its socket when it is flushed.
LEMMA FlushShape ==
  ASSUME Parts, NEW e \in Ends, NEW q,
         q = Transmit(wire, conn[e], e, Flushed(writer[e]))
  PROVE  /\ q \in [Conn -> [Ends -> Seq(Message)]]
         /\ \A c \in Conn, f \in Ends : c # conn[e] \/ f # Peer(e) => q[c][f] = wire[c][f]
         /\ broken[conn[e]] \/ writer[e].paused =>
              q[conn[e]][Peer(e)] = wire[conn[e]][Peer(e)]
         /\ ~broken[conn[e]] /\ ~writer[e].paused => q[conn[e]][Peer(e)] = Stream(e)
<1>1. /\ wire \in [Conn -> [Ends -> Seq(Message)]] /\ conn[e] \in Conn /\ Peer(e) \in Ends
      /\ writer[e].buf \in Seq(Message) /\ writer[e].paused \in BOOLEAN
      /\ wire[conn[e]][Peer(e)] \in Seq(Message) /\ Stream(e) \in Seq(Message)
  BY Shape, EndsFacts
<1>2. CASE broken[conn[e]]
  BY <1>1, <1>2 DEF Transmit
<1>3. CASE ~broken[conn[e]]
  <2> DEFINE r == wire[conn[e]][Peer(e)] \o Flushed(writer[e])
  <2>1. q = [wire EXCEPT ![conn[e]][Peer(e)] = r]
    BY <1>3 DEF Transmit
  <2>2. CASE writer[e].paused
    <3>1. r = wire[conn[e]][Peer(e)]
      BY <1>1, <2>2, ConcatEmptySeq DEF Flushed
    <3> HIDE DEF r
    <3> QED
      BY <1>1, <1>3, <2>1, <2>2, <3>1
  <2>3. CASE ~writer[e].paused
    <3>1. r = Stream(e)
      BY <2>3 DEF Flushed, Stream
    <3> HIDE DEF r
    <3> QED
      BY <1>1, <1>3, <2>1, <2>3, <3>1
  <2> QED
    BY <1>1, <2>2, <2>3
<1> QED
  BY <1>2, <1>3

\* What was written before the client's socket was handed over has no message that matters.
LEMMA ClientFlush ==
  ASSUME Parts, GInv, ~broken[conn[Client]], ~writer[Client].paused,
         conn[Client] \in handedOff \/ "Control" \in Types(Stream(Client))
  PROVE  "Regular" \notin Types(Stream(Client))
<1>1. conn[Client] \in Conn /\ Client \in Ends
  BY Shape, EndsFacts
<1>2. Types(Stream(Client)) = Types(wire[conn[Client]][Server]) \cup Types(writer[Client].buf)
  BY Shape, EndsFacts, TypesConcat DEF Stream, Peer
<1>3. CASE conn[Client] \in handedOff
  BY <1>3 DEF GInv, Pausing, Silent
<1>4. CASE "Control" \in Types(Stream(Client))
  <2>1. Pending(conn[Client])
    BY <1>2, <1>4 DEF Pending
  <2>2. isReconnecting[Client]
    BY <1>1, <2>1 DEF GInv, Requests
  <2> QED
    BY <2>2 DEF GInv, Silent
<1> QED
  BY <1>3, <1>4

\* WriteTimeout makes no gap.
LEMMA GapWriteTimeout ==
  ASSUME Parts, Parts', GInv, NEW e \in Ends, WriteTimeout(e)
  PROVE  GInv'
<1>0. NoReplay /\ Contiguous /\ Requests /\ Silent /\ Pausing
  BY DEF GInv
<1> DEFINE p == Peer(e)
           k == conn[e]
<1>1. /\ UNCHANGED <<isReconnecting, outgoingUnackMsg, outgoingMsgId, incomingMsgId,
                     replayRequested, conn, broken, opened, handshakeSent, handshakeOk,
                     handedOff>>
      /\ wire' = Transmit(wire, k, e, Flushed(writer[e]))
      /\ writer' = [writer EXCEPT ![e].timer = FALSE,
                                  ![e].buf = IF writer[e].paused THEN @ ELSE << >>]
  BY DEF WriteTimeout, protocolVars, socketVars, handshakeVars
<1>2. /\ p \in Ends /\ p # e /\ k \in Conn /\ \A f \in Ends : f # e => f = p
      /\ Peer(p) = e
  BY Shape, EndsFacts, SMTT(40) DEF Ends
<1>3. /\ \A f \in Ends \ {e} : writer'[f] = writer[f]
      /\ writer'[e].paused = writer[e].paused
      /\ writer'[e].buf = IF writer[e].paused THEN writer[e].buf ELSE << >>
  BY <1>1, Shape DEF WriterOf
<1>4. /\ \A c \in Conn, f \in Ends : c # k \/ f # p => wire'[c][f] = wire[c][f]
      /\ broken[k] \/ writer[e].paused => wire'[k][p] = wire[k][p]
      /\ ~broken[k] /\ ~writer[e].paused => wire'[k][p] = Stream(e)
  BY <1>1, FlushShape
<1>5. /\ Types(Stream(e)) = Types(wire[k][p]) \cup Types(writer[e].buf)
      /\ Stream(e) \in Seq(Message) /\ wire[k][p] \in Seq(Message)
  BY <1>2, Shape, TypesConcat DEF Stream
<1>6. /\ \A f \in Ends \ {e} : Stream(f)' = Stream(f)
      /\ ~broken[k] \/ writer[e].paused => Stream(e)' = Stream(e)
      /\ broken[k] /\ ~writer[e].paused => Stream(e)' = wire[k][p]
  <2>1. ASSUME NEW f \in Ends \ {e} PROVE Stream(f)' = Stream(f)
    <3>1. Peer(f) = e /\ e # p /\ conn[f] \in Conn /\ e \in Ends
      BY <1>2, Shape
    <3>2. wire'[conn[f]][e] = wire[conn[f]][e]
      BY <1>4, <3>1
    <3>3. Stream(f)' = wire'[conn'[f]][e] \o writer'[f].buf /\ Stream(f) = wire[conn[f]][e] \o writer[f].buf
      BY <3>1 DEF Stream
    <3> QED
      BY <1>1, <1>3, <3>2, <3>3
  <2>2. Stream(e)' = wire'[k][p] \o writer'[e].buf
    BY <1>1 DEF Stream
  <2>3. Stream(e) = wire[k][p] \o writer[e].buf
    BY DEF Stream
  <2> HIDE DEF p, k
  <2>4. writer[e].paused => Stream(e)' = Stream(e)
    BY <1>3, <1>4, <2>2, <2>3
  <2>5. ASSUME ~writer[e].paused PROVE Stream(e)' = wire'[k][p]
    <3>1. wire'[k][p] \in Seq(Message)
      BY <1>4, <1>5, <2>5
    <3> QED
      BY <1>3, <2>2, <2>5, <3>1, ConcatEmptySeq
  <2> QED
    BY <1>4, <2>1, <2>4, <2>5
<1> HIDE DEF p, k
<1>7. Types(wire'[k][p]) \subseteq Types(Stream(e)) /\ Types(Stream(e)') \subseteq Types(Stream(e))
  BY <1>4, <1>5, <1>6
<1>8. Types(writer'[e].buf) \subseteq Types(writer[e].buf)
  BY <1>3, TypesOfFew
<1>9. NoReplay'
  <2> SUFFICES ASSUME NEW f \in Ends
               PROVE  /\ ~replayRequested[f]
                      /\ "ReplayRequest" \notin Types(writer'[f].buf)
                      /\ \A c \in Conn : "ReplayRequest" \notin Types(wire'[c][f])
                      /\ Types(outgoingUnackMsg[f]) \subseteq {"Regular"}
    BY <1>1 DEF NoReplay
  <2>1. "ReplayRequest" \notin Types(Stream(e))
    BY <1>0, <1>2, <1>5 DEF NoReplay
  <2> QED
    BY <1>0, <1>2, <1>3, <1>4, <1>7, <1>8, <2>1 DEF NoReplay
<1>10. Contiguous'
  <2>1. \A f \in Ends, c \in Conn : Gapless(wire'[c][Peer(f)], incomingMsgId[Peer(f)])
    BY <1>0, <1>2, <1>4 DEF Contiguous, k, p
  <2>2. \A f \in Ends : ~broken[conn[f]] => Stream(f)' = Stream(f)
    BY <1>6 DEF k
  <2> QED
    BY <1>0, <1>1, <2>1, <2>2 DEF Contiguous
<1>11. \A c \in Conn : "Control" \in Types(wire'[c][Server]) =>
          \/ "Control" \in Types(wire[c][Server])
          \/ c = conn[Client] /\ "Control" \in Types(writer[Client].buf)
  <2>1. CASE e = Client
    <3>1. p = Server
      BY <2>1 DEF p, Peer
    <3> QED
      BY <1>2, <1>4, <1>5, <1>7, <2>1, <3>1, EndsFacts DEF k
  <2>2. CASE e = Server
    BY <1>2, <1>4, <2>2, EndsFacts DEF p
  <2> QED
    BY <2>1, <2>2 DEF Ends
<1>12. \A c \in Conn : Pending(c)' => Pending(c)
  <2>1. "Control" \in Types(writer'[Client].buf) => "Control" \in Types(writer[Client].buf)
    BY <1>2, <1>3, <1>8, EndsFacts
  <2> QED
    BY <1>1, <1>11, <2>1 DEF Pending
<1>13. Requests'
  <2>1. "Control" \notin Types(writer'[Server].buf)
    BY <1>0, <1>3, <1>8, EndsFacts DEF Requests
  <2>2. ASSUME NEW c \in Conn PROVE Once(wire'[c][Server], "Control")
    <3>1. CASE e = Client
      <4>1. p = Server
        BY <3>1 DEF p, Peer
      <4> QED
        BY <1>0, <1>2, <1>4, <3>1, <4>1, EndsFacts DEF Requests
    <3>2. CASE e = Server
      BY <1>0, <1>2, <1>4, <3>2, EndsFacts DEF Requests, p
    <3> QED
      BY <3>1, <3>2 DEF Ends
  <2>3. Once(Stream(Client)', "Control")
    <3>1. CASE e = Client
      <4>1. p = Server
        BY <3>1 DEF p, Peer
      <4> QED
        BY <1>0, <1>2, <1>6, <3>1, <4>1 DEF Requests
    <3>2. CASE e # Client
      BY <1>0, <1>6, <3>2, EndsFacts DEF Requests
    <3> QED
      BY <3>1, <3>2
  <2>4. ~handshakeSent => "Control" \notin Types(Stream(Client)')
    BY <1>0, <1>6, <1>7, EndsFacts DEF Requests
  <2>5. ASSUME NEW c \in Conn, Pending(c)
        PROVE  conn[Server] # c /\ wire'[c][Client] = << >> /\ c \notin handedOff
    <3>1. conn[Server] # c /\ wire[c][Client] = << >> /\ c \notin handedOff
      BY <1>0, <2>5 DEF Requests
    <3>2. wire'[c][Client] = wire[c][Client]
      <4>1. c # k \/ Client # p
        BY <3>1, EndsFacts DEF k, p, Peer
      <4> QED
        BY <1>4, <4>1, EndsFacts
    <3> QED
      BY <3>1, <3>2
  <2>6. ASSUME NEW c \in Conn, c > opened PROVE wire'[c][Server] = << >>
    <3>1. wire[c][Server] = << >> /\ conn[Client] # c
      BY <1>0, <2>6, Shape DEF Requests
    <3>2. c # k \/ Server # p
      BY <3>1, EndsFacts DEF k, p, Peer
    <3> QED
      BY <1>4, <3>1, <3>2, EndsFacts
  <2>7. conn[Client] \in Conn
    BY Shape, EndsFacts
  <2> QED
    BY <1>0, <1>1, <1>12, <2>1, <2>2, <2>3, <2>4, <2>5, <2>6, <2>7 DEF Requests
<1>14. Silent'
  <2>1. isReconnecting[Client] => "Regular" \notin Types(Stream(Client)')
    BY <1>0, <1>6, <1>7, EndsFacts DEF Silent
  <2>2. ASSUME NEW c \in Conn, c \in handedOff \/ "Control" \in Types(wire'[c][Server])
        PROVE  "Regular" \notin Types(wire'[c][Server])
    <3>1. CASE c # k \/ Server # p \/ broken[k] \/ writer[e].paused
      <4>1. wire'[c][Server] = wire[c][Server]
        BY <1>2, <1>4, <3>1, EndsFacts
      <4> QED
        BY <1>0, <2>2, <4>1 DEF Silent
    <3>2. CASE c = k /\ Server = p /\ ~broken[k] /\ ~writer[e].paused
      <4>1. e = Client /\ wire'[c][Server] = Stream(Client) /\ c = conn[Client]
        BY <1>4, <3>2, EndsFacts DEF Ends, p, k, Peer
      <4> QED
        BY <2>2, <3>2, <4>1, ClientFlush
    <3> QED
      BY <3>1, <3>2
  <2> QED
    BY <1>1, <2>1, <2>2 DEF Silent
<1>15. Pausing'
  <2>1. ASSUME NEW c \in handedOff PROVE wire'[c][Client] = wire[c][Client]
    <3>1. c \in Conn /\ (c # k \/ Client # p)
      <4>1. conn[Server] # c /\ c \in Conn
        BY <1>0, <2>1 DEF Pausing, Parts, Fields
      <4> QED
        BY <4>1, EndsFacts DEF k, p, Peer
    <3> QED
      BY <1>4, <3>1, EndsFacts
  <2>2. writer'[Client].paused = writer[Client].paused
    BY <1>3, EndsFacts
  <2> QED
    BY <1>0, <1>1, <2>1, <2>2 DEF Pausing
<1> QED
  BY <1>9, <1>10, <1>13, <1>14, <1>15 DEF GInv

\* End e hands messages to its writer.
LEMMA StreamWritten ==
  ASSUME Parts, Parts', NEW e \in Ends, NEW r \in Seq(Message),
         UNCHANGED <<wire, conn>>, writer' = [writer EXCEPT ![e] = WriteAll(@, r)]
  PROVE  /\ \A f \in Ends : f # e => writer'[f] = writer[f] /\ Stream(f)' = Stream(f)
         /\ writer'[e].paused = writer[e].paused
         /\ Stream(e)' = Stream(e) \o r
         /\ Stream(e)' \in Seq(Message)
         /\ \A type : /\ type \in Types(Stream(e)') <=> type \in Types(Stream(e)) \/ type \in Types(r)
                      /\ type \in Types(writer'[e].buf) <=>
                           type \in Types(writer[e].buf) \/ type \in Types(r)
<1>1. /\ \A f \in Ends : f # e => writer'[f] = writer[f]
      /\ writer'[e].paused = writer[e].paused
      /\ writer'[e].buf = writer[e].buf \o r
  BY Shape DEF WriterOf, WriteAll
<1>2. \A f \in Ends : f # e => Stream(f)' = Stream(f)
  BY <1>1 DEF Stream
<1>3. /\ Stream(e)' = Stream(e) \o r
      /\ Types(Stream(e)') = Types(Stream(e)) \cup Types(r)
      /\ Types(writer'[e].buf) = Types(writer[e].buf) \cup Types(r)
  BY <1>1, StreamGrows
<1>4. Stream(e) \o r \in Seq(Message)
  BY Shape, ConcatProperties
<1> QED
  BY <1>1, <1>2, <1>3, <1>4

\* End e writes Regular messages and acks, possibly at the end of a reconnection.
LEMMA WrittenRequests ==
  ASSUME Parts, Parts', GInv, NEW e \in Ends, NEW r \in Seq(Message),
         Types(r) \subseteq {"Regular", "Ack"},
         UNCHANGED <<wire, conn, opened, handshakeSent, handedOff, replayRequested>>,
         writer' = [writer EXCEPT ![e] = WriteAll(@, r)],
         \A f \in Ends : Types(outgoingUnackMsg'[f]) \subseteq {"Regular"},
         isReconnecting'[Client] => isReconnecting[Client],
         ~isReconnecting'[Server],
         handshakeOk' \/ ~isReconnecting'[Client] => handshakeOk \/ ~isReconnecting[Client]
  PROVE  NoReplay' /\ Requests'
<1>0. NoReplay /\ Contiguous /\ Requests /\ Silent /\ Pausing
  BY DEF GInv
<1>1. /\ \A f \in Ends : f # e => writer'[f] = writer[f] /\ Stream(f)' = Stream(f)
      /\ Stream(e)' = Stream(e) \o r
      /\ \A type : /\ type \in Types(Stream(e)') <=> type \in Types(Stream(e)) \/ type \in Types(r)
                   /\ type \in Types(writer'[e].buf) <=>
                        type \in Types(writer[e].buf) \/ type \in Types(r)
  BY StreamWritten
<1>2. "Control" \notin Types(r) /\ "ReplayRequest" \notin Types(r)
  OBVIOUS
<1>3. \A f \in Ends : \A type \in {"Control", "ReplayRequest"} :
        /\ type \in Types(Stream(f)') <=> type \in Types(Stream(f))
        /\ type \in Types(writer'[f].buf) <=> type \in Types(writer[f].buf)
  BY <1>1, <1>2
<1>4. NoReplay'
  <2> SUFFICES ASSUME NEW f \in Ends
               PROVE  /\ ~replayRequested'[f]
                      /\ "ReplayRequest" \notin Types(writer'[f].buf)
                      /\ \A c \in Conn : "ReplayRequest" \notin Types(wire'[c][f])
                      /\ Types(outgoingUnackMsg'[f]) \subseteq {"Regular"}
    BY DEF NoReplay
  <2> QED
    BY <1>0, <1>3 DEF NoReplay
<1>5. \A c \in Conn : Pending(c)' => Pending(c)
  BY <1>3, EndsFacts DEF Pending
<1>6. Once(Stream(Client)', "Control")
  <2>1. CASE e = Client
    <3>1. Once(Stream(Client) \o r, "Control")
      BY <1>0, <1>2, Shape, EndsFacts, PlainOnce DEF Requests
    <3> QED
      BY <1>1, <2>1, <3>1
  <2>2. CASE e # Client
    BY <1>0, <1>1, <2>2, EndsFacts DEF Requests
  <2> QED
    BY <2>1, <2>2
<1>7. /\ "Control" \notin Types(writer'[Server].buf)
      /\ ~handshakeSent => "Control" \notin Types(Stream(Client)')
  BY <1>0, <1>3, EndsFacts DEF Requests
<1>8. conn[Client] \in Conn
  BY Shape, EndsFacts
<1>9. Requests'
  BY <1>0, <1>5, <1>6, <1>7, <1>8 DEF Requests
<1> QED
  BY <1>4, <1>9

\* Send makes no gap.
LEMMA GapSend ==
  ASSUME Parts, Parts', GInv, NEW e \in Ends, Send(e)
  PROVE  GInv'
<1>0. NoReplay /\ Contiguous /\ Requests /\ Silent /\ Pausing
  BY DEF GInv
<1> DEFINE id == outgoingMsgId[e] + 1
           msg == [type |-> "Regular", id |-> id, ack |-> incomingMsgId[e],
                   data |-> Script[e][id]]
           n == incomingMsgId[Peer(e)]
<1>1. /\ UNCHANGED <<isReconnecting, incomingMsgId, replayRequested, wire, conn, broken,
                     opened, handshakeSent, handshakeOk, handedOff>>
      /\ outgoingMsgId' = [outgoingMsgId EXCEPT ![e] = id]
      /\ outgoingUnackMsg' = [outgoingUnackMsg EXCEPT ![e] = Append(@, msg)]
      /\ \/ isReconnecting[e] /\ UNCHANGED writer
         \/ ~isReconnecting[e] /\ writer' = [writer EXCEPT ![e] = WriteAll(@, <<msg>>)]
  BY DEF Send, incomingVars, socketVars, handshakeVars
<1>2. /\ outgoingMsgId[e] \in Nat /\ n \in Nat /\ Peer(e) \in Ends
      /\ outgoingMsgId \in [Ends -> Nat]
      /\ outgoingUnackMsg \in [Ends -> Seq(Message)] /\ Stream(e) \in Seq(Message)
      /\ conn[e] \in Conn
  BY Shape, EndsFacts DEF Parts, Fields, Unacked
<1>3. msg \in Message /\ msg.type = "Regular" /\ msg.id = id
  <2>1. Script[e][id] \in Data
    <3>1. id \in 1 .. Len(Script[e]) /\ Script[e] \in Seq(Data)
      BY <1>2, ConstantsAssumption, LenProperties DEF Send
    <3> QED
      BY <3>1, ElementOfSeq
  <2>2. incomingMsgId[e] \in Nat
    BY Shape
  <2> QED
    BY <1>2, <2>1, <2>2 DEF Message, MessageType
<1> HIDE DEF msg
<1>4. Types(<<msg>>) = {"Regular"} /\ <<msg>> \in Seq(Message)
  BY <1>3 DEF Types
<1>5. \A f \in Ends : Types(outgoingUnackMsg'[f]) \subseteq {"Regular"}
  <2> TAKE f \in Ends
  <2>1. Types(outgoingUnackMsg[e] \o <<msg>>) = Types(outgoingUnackMsg[e]) \cup Types(<<msg>>)
    BY <1>2, <1>4, TypesConcat
  <2>2. Append(outgoingUnackMsg[e], msg) = outgoingUnackMsg[e] \o <<msg>>
    BY <1>2, <1>3, AppendIsConcat
  <2>3. \A g \in Ends : Types(outgoingUnackMsg[g]) \subseteq {"Regular"}
    BY <1>0 DEF NoReplay
  <2>4. outgoingUnackMsg'[f] = IF f = e THEN outgoingUnackMsg[e] \o <<msg>> ELSE outgoingUnackMsg[f]
    BY <1>1, <1>2, <2>2
  <2> QED
    BY <1>4, <2>1, <2>3, <2>4
<1>6. \A f \in Ends : /\ outgoingMsgId'[f] = IF f = e THEN id ELSE outgoingMsgId[f]
  BY <1>1, <1>2
<1>7. CASE isReconnecting[e] /\ UNCHANGED writer
  <2>1. \A f \in Ends : Stream(f)' = Stream(f)
    BY <1>1, <1>7 DEF Stream
  <2>2. NoReplay'
    BY <1>0, <1>1, <1>5, <1>7 DEF NoReplay
  <2>3. Contiguous'
    BY <1>0, <1>1, <1>6, <1>7, <2>1 DEF Contiguous
  <2>4. Requests'
    <3>1. \A c \in Conn : Pending(c)' <=> Pending(c)
      BY <1>1, <1>7 DEF Pending
    <3> QED
      BY <1>0, <1>1, <1>7, <2>1, <3>1, EndsFacts, Shape DEF Requests
  <2>5. Silent' /\ Pausing'
    BY <1>0, <1>1, <1>7, <2>1, EndsFacts DEF Silent, Pausing
  <2> QED
    BY <2>2, <2>3, <2>4, <2>5 DEF GInv
<1>8. CASE ~isReconnecting[e] /\ writer' = [writer EXCEPT ![e] = WriteAll(@, <<msg>>)]
  <2>1. /\ \A f \in Ends : f # e => writer'[f] = writer[f] /\ Stream(f)' = Stream(f)
        /\ writer'[e].paused = writer[e].paused
        /\ Stream(e)' = Stream(e) \o <<msg>>
    BY <1>1, <1>4, <1>8, StreamWritten
  <2>2. NoReplay' /\ Requests'
    <3>1. ~isReconnecting'[Server]
      BY <1>0, <1>1 DEF Requests
    <3> QED
      BY <1>1, <1>4, <1>5, <1>8, <3>1, WrittenRequests
  <2>3. Contiguous'
    <3>1. ASSUME ~broken[conn[e]]
          PROVE  Gapless(Stream(e) \o <<msg>>, n) /\ Reaches(Stream(e) \o <<msg>>, n, id)
      <4>1. Gapless(Stream(e), n) /\ Reaches(Stream(e), n, outgoingMsgId[e])
        BY <1>0, <1>8, <3>1 DEF Contiguous
      <4>2. \A i \in 1 .. Len(<<msg>>) : <<msg>>[i] = msg /\ msg.id - 1 = outgoingMsgId[e]
        BY <1>2, <1>3
      <4>3. Gapless(Stream(e) \o <<msg>>, n)
        BY <1>2, <1>4, <4>1, <4>2, GaplessConcat
      <4>4. /\ Len(Stream(e)) + 1 \in 1 .. Len(Stream(e) \o <<msg>>)
            /\ (Stream(e) \o <<msg>>)[Len(Stream(e)) + 1] = msg
        BY <1>2, <1>4, ConcatProperties, LenProperties
      <4> QED
        BY <1>3, <4>3, <4>4 DEF Reaches
    <3> SUFFICES ASSUME NEW f \in Ends
                 PROVE  /\ \A c \in Conn : Gapless(wire[c][Peer(f)], incomingMsgId[Peer(f)])
                        /\ ~broken[conn[f]] =>
                             /\ Gapless(Stream(f)', incomingMsgId[Peer(f)])
                             /\ ~isReconnecting[f] =>
                                  Reaches(Stream(f)', incomingMsgId[Peer(f)], outgoingMsgId'[f])
      BY <1>1 DEF Contiguous
    <3> QED
      BY <1>0, <1>6, <2>1, <3>1 DEF Contiguous
  <2>4. Silent'
    BY <1>0, <1>1, <1>8, <2>1, EndsFacts DEF Silent
  <2>5. Pausing'
    BY <1>0, <1>1, <2>1, EndsFacts DEF Pausing
  <2> QED
    BY <2>2, <2>3, <2>4, <2>5 DEF GInv
<1> QED
  BY <1>1, <1>7, <1>8

\* The first message of a type is the only one.
LEMMA OnceAppended ==
  ASSUME NEW q \in Seq(Message), NEW m \in Message, NEW type, type \notin Types(q)
  PROVE  Once(q \o <<m>>, type)
<1>1. /\ Len(q) \in Nat /\ <<m>> \in Seq(Message) /\ Len(<<m>>) = 1
      /\ Len(q \o <<m>>) = Len(q) + 1
      /\ \A i \in 1 .. Len(q) + 1 :
           (q \o <<m>>)[i] = IF i <= Len(q) THEN q[i] ELSE <<m>>[i - Len(q)]
  BY ConcatProperties, LenProperties
<1>2. \A i \in 1 .. Len(q \o <<m>>) : (q \o <<m>>)[i].type = type => i = Len(q) + 1
  BY <1>1 DEF Types
<1> QED
  BY <1>2 DEF Once

\* ClientSendHandshake makes no gap.
LEMMA GapClientSendHandshake ==
  ASSUME Parts, Parts', GInv, ClientSendHandshake
  PROVE  GInv'
<1>0. NoReplay /\ Contiguous /\ Requests /\ Silent /\ Pausing
  BY DEF GInv
<1> DEFINE m == Plain("Control", 0)
<1>1. /\ UNCHANGED <<isReconnecting, outgoingUnackMsg, outgoingMsgId, incomingMsgId,
                     replayRequested, wire, conn, broken, opened, handshakeOk, handedOff>>
      /\ isReconnecting[Client] /\ ~handshakeSent /\ handshakeSent'
      /\ writer' = [writer EXCEPT ![Client] = WriteAll(@, <<m>>)]
  BY DEF ClientSendHandshake, protocolVars, socketVars
<1>2. m \in Message /\ <<m>> \in Seq(Message) /\ Types(<<m>>) = {"Control"}
  BY PlainType, TypesOfFew DEF MessageType
<1> HIDE DEF m
<1>3. /\ \A f \in Ends : f # Client => writer'[f] = writer[f] /\ Stream(f)' = Stream(f)
      /\ writer'[Client].paused = writer[Client].paused
      /\ Stream(Client)' = Stream(Client) \o <<m>>
      /\ \A type : /\ type \in Types(Stream(Client)') <=>
                        type \in Types(Stream(Client)) \/ type = "Control"
                   /\ type \in Types(writer'[Client].buf) <=>
                        type \in Types(writer[Client].buf) \/ type = "Control"
  <2>1. \A type : type \in Types(<<m>>) <=> type = "Control"
    BY <1>2
  <2>2. /\ \A f \in Ends : f # Client => writer'[f] = writer[f] /\ Stream(f)' = Stream(f)
        /\ writer'[Client].paused = writer[Client].paused
        /\ Stream(Client)' = Stream(Client) \o <<m>>
        /\ \A type : /\ type \in Types(Stream(Client)') <=>
                          type \in Types(Stream(Client)) \/ type \in Types(<<m>>)
                     /\ type \in Types(writer'[Client].buf) <=>
                          type \in Types(writer[Client].buf) \/ type \in Types(<<m>>)
    BY <1>1, <1>2, EndsFacts, StreamWritten
  <2> QED
    BY <2>1, <2>2
<1>4. NoReplay'
  <2> SUFFICES ASSUME NEW f \in Ends
               PROVE  /\ ~replayRequested[f]
                      /\ "ReplayRequest" \notin Types(writer'[f].buf)
                      /\ \A c \in Conn : "ReplayRequest" \notin Types(wire[c][f])
                      /\ Types(outgoingUnackMsg[f]) \subseteq {"Regular"}
    BY <1>1 DEF NoReplay
  <2> QED
    BY <1>0, <1>3 DEF NoReplay
<1>5. Contiguous'
  <2>1. /\ Stream(Client) \in Seq(Message) /\ incomingMsgId[Peer(Client)] \in Nat
        /\ "Regular" \notin Types(<<m>>)
    BY <1>2, Shape, EndsFacts
  <2>2. Gapless(Stream(Client), incomingMsgId[Peer(Client)]) =>
          Gapless(Stream(Client) \o <<m>>, incomingMsgId[Peer(Client)])
    BY <1>2, <2>1, GaplessConcatPlain
  <2> QED
    BY <1>0, <1>1, <1>3, <2>2 DEF Contiguous
<1>6. Requests'
  <2>1. \A c \in Conn : Pending(c)' => Pending(c)
    BY <1>1 DEF Pending
  <2>2. "Control" \notin Types(Stream(Client))
    BY <1>0, <1>1 DEF Requests
  <2>3. Once(Stream(Client)', "Control")
    BY <1>2, <1>3, <2>2, Shape, EndsFacts, OnceAppended
  <2>4. conn[Client] \in Conn /\ "Control" \notin Types(writer'[Server].buf)
    BY <1>0, <1>3, Shape, EndsFacts, ConstantsAssumption DEF Requests
  <2> QED
    BY <1>0, <1>1, <2>1, <2>3, <2>4 DEF Requests
<1>7. Silent'
  BY <1>0, <1>1, <1>3 DEF Silent
<1>8. Pausing'
  BY <1>0, <1>1, <1>3 DEF Pausing
<1> QED
  BY <1>4, <1>5, <1>6, <1>7, <1>8 DEF GInv

\* What a reconnected end writes after what is in the stream q.
LEMMA ReconnectionStream ==
  ASSUME Parts, NoReplay, NEW e \in Ends, NEW q \in Seq(Message),
         Gapless(q, incomingMsgId[Peer(e)])
  PROVE  /\ ReconnectionMessages(e) \in Seq(Message)
         /\ Types(ReconnectionMessages(e)) \subseteq {"Regular", "Ack"}
         /\ Gapless(q \o ReconnectionMessages(e), incomingMsgId[Peer(e)])
         /\ Reaches(q \o ReconnectionMessages(e), incomingMsgId[Peer(e)], outgoingMsgId[e])
<1> DEFINE u == outgoingUnackMsg[e]
           ack == <<Plain("Ack", incomingMsgId[e])>>
           n == incomingMsgId[Peer(e)]
           a == outgoingAckId[e]
<1>1. u \in Seq(Message) /\ n \in Nat /\ outgoingMsgId[e] \in Nat /\ Types(u) \subseteq {"Regular"}
  BY Shape, EndsFacts DEF NoReplay
<1>2. /\ a \in Nat /\ a <= n /\ a + Len(u) = outgoingMsgId[e]
      /\ \A i \in 1 .. Len(u) : u[i].id = a + i
  <2>1. a \in Nat /\ Len(u) \in Nat
    BY <1>1, LenProperties DEF Parts, Fields
  <2>2. a <= n /\ Len(u) = outgoingMsgId[e] - a /\ \A i \in 1 .. Len(u) : u[i].id = a + i
    BY DEF Parts, Counters, NothingForgotten
  <2> QED
    BY <1>1, <2>1, <2>2
<1>3. \A i \in 1 .. Len(u) : u[i].type = "Regular"
  BY <1>1 DEF Types
<1>4. ack \in Seq(Message) /\ Types(ack) = {"Ack"} /\ "Regular" \notin Types(ack)
  BY Shape, PlainType, TypesOfFew DEF MessageType
<1>5. ReconnectionMessages(e) = ack \o u
  BY DEF ReconnectionMessages
<1> HIDE DEF u, ack, n, a
<1>6. ack \o u \in Seq(Message) /\ Types(ack \o u) \subseteq {"Regular", "Ack"}
  BY <1>1, <1>4, TypesConcat, ConcatProperties, SMTT(40)
<1>7. q \o ack \in Seq(Message) /\ Gapless(q \o ack, n)
  BY <1>1, <1>4, GaplessConcatPlain, ConcatProperties DEF n
<1>8. Gapless((q \o ack) \o u, n) /\ Reaches((q \o ack) \o u, n, a + Len(u))
  BY <1>1, <1>2, <1>3, <1>7, GaplessQueue
<1>9. (q \o ack) \o u = q \o (ack \o u)
  BY <1>1, <1>4, ConcatAssociative
<1> QED
  BY <1>2, <1>5, <1>6, <1>8, <1>9 DEF n

\* ClientEndReconnection makes no gap.
LEMMA GapClientEndReconnection ==
  ASSUME Parts, Parts', GInv, ClientEndReconnection
  PROVE  GInv'
<1>0. NoReplay /\ Contiguous /\ Requests /\ Silent /\ Pausing
  BY DEF GInv
<1> DEFINE r == ReconnectionMessages(Client)
<1>1. /\ UNCHANGED <<outgoingUnackMsg, outgoingMsgId, incomingMsgId, replayRequested, wire,
                     conn, broken, opened, handshakeSent, handedOff>>
      /\ isReconnecting' = [isReconnecting EXCEPT ![Client] = FALSE]
      /\ handshakeOk /\ ~handshakeOk'
      /\ writer' = [writer EXCEPT ![Client] = WriteAll(@, r)]
  BY DEF ClientEndReconnection, outgoingVars, incomingVars, socketVars
<1>2. /\ r \in Seq(Message) /\ Types(r) \subseteq {"Regular", "Ack"}
      /\ \A q \in Seq(Message) :
           Gapless(q, incomingMsgId[Peer(Client)]) =>
             /\ Gapless(q \o r, incomingMsgId[Peer(Client)])
             /\ Reaches(q \o r, incomingMsgId[Peer(Client)], outgoingMsgId[Client])
  <2>1. Client \in Ends /\ Gapless(<< >>, incomingMsgId[Peer(Client)]) /\ << >> \in Seq(Message)
    BY EndsFacts, EmptySeq, GaplessNoRegular, TypesOfFew
  <2> QED
    BY <1>0, <2>1, ReconnectionStream
<1> HIDE DEF r
<1>3. /\ \A f \in Ends : f # Client => writer'[f] = writer[f] /\ Stream(f)' = Stream(f)
      /\ writer'[Client].paused = writer[Client].paused
      /\ Stream(Client)' = Stream(Client) \o r
  BY <1>1, <1>2, EndsFacts, StreamWritten
<1>4. /\ isReconnecting'[Client] = FALSE
      /\ \A f \in Ends : f # Client => isReconnecting'[f] = isReconnecting[f]
  BY <1>1, EndsFacts DEF Parts, Fields
<1>5. NoReplay' /\ Requests'
  <2>1. ~isReconnecting'[Server]
    BY <1>0, <1>4, EndsFacts, ConstantsAssumption DEF Requests
  <2>2. \A f \in Ends : Types(outgoingUnackMsg'[f]) \subseteq {"Regular"}
    BY <1>0, <1>1 DEF NoReplay
  <2> QED
    BY <1>1, <1>2, <1>4, <2>1, <2>2, EndsFacts, WrittenRequests
<1>6. Contiguous'
  <2>1. ~broken[conn[Client]] =>
          /\ Gapless(Stream(Client) \o r, incomingMsgId[Peer(Client)])
          /\ Reaches(Stream(Client) \o r, incomingMsgId[Peer(Client)], outgoingMsgId[Client])
    BY <1>0, <1>2, Shape, EndsFacts DEF Contiguous
  <2> SUFFICES ASSUME NEW f \in Ends
               PROVE  /\ \A c \in Conn : Gapless(wire[c][Peer(f)], incomingMsgId[Peer(f)])
                      /\ ~broken[conn[f]] =>
                           /\ Gapless(Stream(f)', incomingMsgId[Peer(f)])
                           /\ ~isReconnecting'[f] =>
                                Reaches(Stream(f)', incomingMsgId[Peer(f)], outgoingMsgId[f])
    BY <1>1 DEF Contiguous
  <2> QED
    BY <1>0, <1>3, <1>4, <2>1 DEF Contiguous
<1>7. Silent'
  BY <1>0, <1>1, <1>4 DEF Silent
<1>8. Pausing'
  BY <1>0, <1>1, <1>3 DEF Pausing
<1> QED
  BY <1>5, <1>6, <1>7, <1>8 DEF GInv

\* Head and tail of two sequences together.
LEMMA TailConcat ==
  ASSUME NEW q \in Seq(Message), NEW r \in Seq(Message), q # << >>
  PROVE  /\ q \o r \in Seq(Message) /\ q \o r # << >>
         /\ Head(q \o r) = Head(q) /\ Tail(q \o r) = Tail(q) \o r
<1>1. PICK m \in Message, t \in Seq(Message) : m = Head(q) /\ t = Tail(q)
  BY HeadTailProperties
<1>2. q = <<m>> \o t
  BY <1>1, HeadTailProperties
<1>3. <<m>> \in Seq(Message) /\ t \o r \in Seq(Message)
  BY ConcatProperties
<1>4. q \o r = <<m>> \o (t \o r)
  BY <1>2, <1>3, ConcatAssociative
<1>5. \A s \in Seq(Message) : Head(<<m>> \o s) = m /\ Tail(<<m>> \o s) = s
  <2> TAKE s \in Seq(Message)
  <2> DEFINE x == <<m>> \o s
  <2>1. /\ x \in Seq(Message) /\ Len(x) = 1 + Len(s) /\ Len(s) \in Nat
        /\ \A i \in 1 .. Len(x) : x[i] = IF i <= 1 THEN m ELSE s[i - 1]
    BY <1>3, ConcatProperties, LenProperties
  <2> HIDE DEF x
  <2>2. x # << >>
    BY <2>1, EmptySeq
  <2>3. Head(x) = x[1] /\ Tail(x) \in Seq(Message) /\ Len(Tail(x)) = Len(s)
        /\ \A i \in 1 .. Len(s) : Tail(x)[i] = x[i + 1]
    BY <2>1, <2>2, HeadTailProperties
  <2>4. \A i \in 1 .. Len(s) : Tail(x)[i] = s[i]
    BY <2>1, <2>3
  <2>5. Tail(x) = s
    BY <2>3, <2>4, SeqEqual
  <2> QED
    BY <2>1, <2>3, <2>5 DEF x
<1>6. q \o r # << >>
  <2>1. Len(q) \in Nat /\ Len(r) \in Nat /\ Len(q) # 0 /\ Len(q \o r) = Len(q) + Len(r)
    BY ConcatProperties, LenProperties, EmptySeq
  <2> QED
    BY <2>1, EmptySeq
<1> QED
  BY <1>1, <1>3, <1>4, <1>5, <1>6, ConcatProperties

\* The queue loses its front.
LEMMA AckTypes ==
  ASSUME Parts, NEW e \in Ends, NEW type \in MessageType, Read(e, type), NEW f \in Ends
  PROVE  Types(outgoingUnackMsg'[f]) \subseteq Types(outgoingUnackMsg[f])
<1> DEFINE q == outgoingUnackMsg[e]
           base == outgoingAckId[e]
           ack == Head(Incoming(e)).ack
<1>1. ack \in Nat /\ ack <= incomingMsgId[Peer(e)]
  BY ReadStep DEF Genuine, Message
<1>2. /\ base \in Nat /\ q \in Seq(Message) /\ Len(q) \in Nat
      /\ Len(q) = outgoingMsgId[e] - base
      /\ \A i \in 1 .. Len(q) : q[i].id = base + i
      /\ outgoingUnackMsg \in [Ends -> Seq(Message)]
  BY LenProperties DEF Parts, Fields, Unacked, Counters, NothingForgotten
<1>3. ack <= outgoingMsgId[e] /\ outgoingMsgId[e] \in Nat
  <2>1. incomingMsgId[Peer(e)] <= outgoingMsgId[e]
    BY EndsFacts DEF Parts, Counters, InOrderOnce
  <2>2. incomingMsgId[Peer(e)] \in Nat /\ outgoingMsgId[e] \in Nat
    BY Shape, EndsFacts
  <2> QED
    BY <1>1, <2>1, <2>2
<1>4. \/ /\ ack > base
         /\ outgoingUnackMsg' = [outgoingUnackMsg EXCEPT ![e] = DropAcked(@, ack)]
      \/ UNCHANGED outgoingUnackMsg
  BY DEF Read, AcceptAck
<1>5. CASE ack > base /\ outgoingUnackMsg' = [outgoingUnackMsg EXCEPT ![e] = DropAcked(@, ack)]
  <2> HIDE DEF ack, base
  <2>1. base <= ack /\ ack <= base + Len(q) /\ ack - base \in 0 .. Len(q)
    BY <1>1, <1>2, <1>3, <1>5
  <2>2. DropAcked(q, ack) = After(q, ack - base)
    BY <1>1, <1>2, <2>1, DropAckedLemma
  <2>3. Types(DropAcked(q, ack)) \subseteq Types(q)
    BY <1>2, <2>1, <2>2, TypesOfPart
  <2>4. outgoingUnackMsg'[f] = IF f = e THEN DropAcked(q, ack) ELSE outgoingUnackMsg[f]
    BY <1>2, <1>5
  <2> QED
    BY <2>3, <2>4
<1> QED
  BY <1>4, <1>5

\* End e takes a message from its socket.
LEMMA GapRead ==
  ASSUME Parts, Parts', GInv, NEW e \in Ends, NEW type \in MessageType, Read(e, type),
         UNCHANGED <<isReconnecting, outgoingMsgId, conn, broken, opened, handshakeSent,
                     handedOff, replayRequested>>,
         \A f \in Ends : f # e => incomingMsgId'[f] = incomingMsgId[f],
         incomingMsgId[e] <= incomingMsgId'[e],
         type = "Regular" => Head(Incoming(e)).id <= incomingMsgId'[e],
         \A f \in Ends : writer'[f].buf = writer[f].buf,
         handshakeOk' => handshakeOk \/ e = Client
  PROVE  NoReplay' /\ Contiguous' /\ Requests' /\ Silent'
<1>0. NoReplay /\ Contiguous /\ Requests /\ Silent /\ Pausing
  BY DEF GInv
<1> DEFINE p == Peer(e)
           k == conn[e]
           q == wire[k][e]
           n == incomingMsgId[e]
<1>1. /\ p \in Ends /\ p # e /\ k \in Conn /\ \A f \in Ends : f # e => f = p
      /\ Peer(p) = e /\ n \in Nat /\ incomingMsgId'[e] \in Nat
  <2>1. incomingMsgId'[e] \in Nat
    BY DEF Parts, Fields
  <2> QED
    BY <2>1, Shape, EndsFacts DEF Ends
<1>2. q \in Seq(Message) /\ q # << >> /\ Head(q).type = type
  BY Shape DEF Read, Incoming
<1>3. /\ wire'[k][e] = Tail(q)
      /\ \A c \in Conn, f \in Ends : c # k \/ f # e => wire'[c][f] = wire[c][f]
  <2>1. wire' = [wire EXCEPT ![k][e] = Tail(@)]
    BY DEF Read
  <2> QED
    BY <1>1, <2>1, Shape
<1>4. Types(Tail(q)) \subseteq Types(q) /\ Tail(q) \in Seq(Message)
  BY <1>2, TypesOfPart, HeadTailProperties
<1>5. \A c \in Conn, f \in Ends : Types(wire'[c][f]) \subseteq Types(wire[c][f])
  BY <1>3, <1>4
<1>6. Stream(e)' = Stream(e)
  BY <1>1, <1>3, Shape DEF Stream
<1>7. Stream(p)' = IF conn[p] = k THEN Tail(Stream(p)) ELSE Stream(p)
  <2>1. /\ Stream(p) = wire[conn[p]][e] \o writer[p].buf
        /\ Stream(p)' = wire'[conn[p]][e] \o writer[p].buf
    BY <1>1 DEF Stream
  <2>2. CASE conn[p] = k
    <3>1. Tail(q \o writer[p].buf) = Tail(q) \o writer[p].buf
      BY <1>1, <1>2, Shape, TailConcat
    <3> QED
      BY <1>3, <2>1, <2>2, <3>1
  <2>3. CASE conn[p] # k
    <3>1. conn[p] \in Conn
      BY <1>1, Shape
    <3> QED
      BY <1>3, <2>1, <2>3, <3>1
  <2> QED
    BY <2>2, <2>3
<1>8. conn[p] = k => /\ Stream(p) # << >> /\ Head(Stream(p)) = Head(q)
  <2>1. Stream(p) = wire[conn[p]][e] \o writer[p].buf
    BY <1>1 DEF Stream
  <2>2. q \o writer[p].buf # << >> /\ Head(q \o writer[p].buf) = Head(q)
    BY <1>1, <1>2, Shape, TailConcat
  <2> QED
    BY <2>1, <2>2
<1>9. Stream(p) \in Seq(Message) /\ Types(Stream(p)') \subseteq Types(Stream(p))
  BY <1>1, <1>7, <1>8, Shape, TypesOfPart
<1>10. NoReplay'
  <2> SUFFICES ASSUME NEW f \in Ends
               PROVE  /\ ~replayRequested'[f]
                      /\ "ReplayRequest" \notin Types(writer'[f].buf)
                      /\ \A c \in Conn : "ReplayRequest" \notin Types(wire'[c][f])
                      /\ Types(outgoingUnackMsg'[f]) \subseteq {"Regular"}
    BY DEF NoReplay
  <2>1. Types(outgoingUnackMsg'[f]) \subseteq Types(outgoingUnackMsg[f])
    BY AckTypes
  <2> QED
    BY <1>0, <1>5, <2>1 DEF NoReplay
<1>11. Contiguous'
  <2> DEFINE m == incomingMsgId'[e]
  <2>1. type = "Regular" => Head(q).id <= m
    BY DEF Incoming
  <2>2. \A c \in Conn : Gapless(wire[c][e], n)
    BY <1>0, <1>1 DEF Contiguous
  <2> HIDE DEF q, m, k, n
  <2>3. n <= m /\ m \in Nat /\ n \in Nat
    BY <1>1 DEF m, n
  <2>4. \A c \in Conn : Gapless(wire'[c][e], m)
    <3> TAKE c \in Conn
    <3>1. CASE c = k
      <4>1. Gapless(q, n)
        BY <2>2, <3>1 DEF q
      <4>2. Gapless(Tail(q), m)
        BY <1>2, <2>1, <2>3, <4>1, GaplessTail
      <4> QED
        BY <1>3, <3>1, <4>2
    <3>2. CASE c # k
      <4>1. wire[c][e] \in Seq(Message)
        BY Shape
      <4> QED
        BY <1>3, <2>2, <2>3, <3>2, <4>1, GaplessMonotonic
    <3> QED
      BY <3>1, <3>2
  <2>5. ASSUME ~broken[conn[p]]
        PROVE  /\ Gapless(Stream(p)', m)
               /\ ~isReconnecting[p] => Reaches(Stream(p)', m, outgoingMsgId[p])
    <3>1. /\ Gapless(Stream(p), n)
          /\ ~isReconnecting[p] => Reaches(Stream(p), n, outgoingMsgId[p])
      BY <1>0, <1>1, <2>5 DEF Contiguous, n
    <3>2. outgoingMsgId[p] \in Int
      BY <1>1, Shape
    <3>3. CASE conn[p] = k
      <4>1. /\ Stream(p) # << >> /\ Head(Stream(p)) = Head(q) /\ Stream(p)' = Tail(Stream(p))
        BY <1>7, <1>8, <3>3
      <4>2. Head(Stream(p)).type = "Regular" => Head(Stream(p)).id <= m
        BY <1>2, <2>1, <4>1
      <4> QED
        BY <1>9, <2>3, <3>1, <3>2, <4>1, <4>2, GaplessTail
    <3>4. CASE conn[p] # k
      BY <1>7, <1>9, <2>3, <3>1, <3>2, <3>4, GaplessMonotonic, ReachesMonotonic
    <3> QED
      BY <3>3, <3>4
  <2>6. /\ \A c \in Conn : Gapless(wire'[c][p], incomingMsgId'[p])
        /\ ~broken[conn[e]] =>
             /\ Gapless(Stream(e)', incomingMsgId'[p])
             /\ ~isReconnecting[e] => Reaches(Stream(e)', incomingMsgId'[p], outgoingMsgId[e])
    BY <1>0, <1>1, <1>3, <1>6 DEF Contiguous
  <2> SUFFICES ASSUME NEW f \in Ends
               PROVE  /\ \A c \in Conn : Gapless(wire'[c][Peer(f)], incomingMsgId'[Peer(f)])
                      /\ ~broken[conn[f]] =>
                           /\ Gapless(Stream(f)', incomingMsgId'[Peer(f)])
                           /\ ~isReconnecting[f] =>
                                Reaches(Stream(f)', incomingMsgId'[Peer(f)], outgoingMsgId[f])
    BY DEF Contiguous
  <2> QED
    BY <1>1, <2>4, <2>5, <2>6 DEF m
<1>12. \A f \in Ends : Types(Stream(f)') \subseteq Types(Stream(f))
  BY <1>1, <1>6, <1>9
<1>13. \A c \in Conn : Pending(c)' => Pending(c)
  BY <1>5, EndsFacts DEF Pending
<1>14. Requests'
  <2>1. \A c \in Conn : Once(wire'[c][Server], "Control")
    BY <1>0, <1>2, <1>3, OncePart, EndsFacts DEF Requests
  <2>2. Once(Stream(Client)', "Control")
    <3>1. CASE e = Client
      BY <1>0, <1>6, <3>1 DEF Requests
    <3>2. CASE p = Client
      BY <1>0, <1>7, <1>8, <1>9, <3>2, OncePart DEF Requests
    <3> QED
      BY <1>1, <3>1, <3>2, EndsFacts
  <2>3. ~handshakeSent => "Control" \notin Types(Stream(Client)')
    BY <1>0, <1>12, EndsFacts DEF Requests
  <2>4. ASSUME NEW c \in Conn, Pending(c)
        PROVE  conn[Server] # c /\ wire'[c][Client] = << >> /\ c \notin handedOff
    <3>1. conn[Server] # c /\ wire[c][Client] = << >> /\ c \notin handedOff
      BY <1>0, <2>4 DEF Requests
    <3> QED
      BY <1>2, <1>3, <3>1, EndsFacts
  <2>5. ASSUME NEW c \in Conn, c > opened PROVE wire'[c][Server] = << >>
    <3>1. wire[c][Server] = << >>
      BY <1>0, <2>5 DEF Requests
    <3> QED
      BY <1>2, <1>3, <3>1, EndsFacts
  <2>6. conn[Client] \in Conn
    BY Shape, EndsFacts
  <2>7. handshakeOk' \/ ~isReconnecting[Client] => ~Pending(conn[Client])
    <3>1. CASE e = Client
      BY <1>0, <1>2, <2>6, <3>1 DEF Requests
    <3>2. CASE e # Client
      BY <1>0, <3>2 DEF Requests
    <3> QED
      BY <3>1, <3>2
  <2>8. /\ conn'[Client] = opened' /\ ~isReconnecting'[Server]
        /\ "Control" \notin Types(writer'[Server].buf)
    BY <1>0, EndsFacts DEF Requests
  <2> QED
    BY <1>13, <2>1, <2>2, <2>3, <2>4, <2>5, <2>6, <2>7, <2>8 DEF Requests
<1>15. Silent'
  BY <1>0, <1>5, <1>12, EndsFacts DEF Silent
<1> QED
  BY <1>10, <1>11, <1>14, <1>15

\* What a read leaves of the promise that the client is paused.
LEMMA PausingRead ==
  ASSUME Parts, Parts', GInv, NEW e \in Ends, NEW type \in MessageType, Read(e, type),
         UNCHANGED <<conn, handedOff, isReconnecting>>,
         \A f \in Ends : f # e => writer'[f] = writer[f],
         \/ type = "Pause" /\ writer'[e].paused
         \/ type = "Resume"
         \/ type = "Control" /\ writer'[e].paused = writer[e].paused
         \/ /\ type \notin {"Pause", "Resume", "Control"}
            /\ handshakeOk' = handshakeOk /\ writer'[e].paused = writer[e].paused,
         handshakeOk' # handshakeOk => type = "Control" /\ e = Client
  PROVE  Pausing'
<1>0. Pausing
  BY DEF GInv
<1> DEFINE k == conn[e]
           q == wire[k][e]
<1>1. k \in Conn /\ q \in Seq(Message) /\ q # << >> /\ Head(q).type = type
  BY Shape DEF Read, Incoming
<1>2. /\ wire'[k][e] = Tail(q)
      /\ \A c \in Conn, f \in Ends : c # k \/ f # e => wire'[c][f] = wire[c][f]
  <2>1. wire' = [wire EXCEPT ![k][e] = Tail(@)]
    BY DEF Read
  <2> QED
    BY <1>1, <2>1, Shape
<1>3. Types(Tail(q)) \subseteq Types(q) /\ type \in Types(q)
  BY <1>1, TypesOfPart
<1>4. handedOff \subseteq Conn
  BY DEF Parts, Fields
<1>5. \A c \in handedOff : conn[Server] # c /\ "Resume" \notin Types(wire'[c][Client])
  BY <1>0, <1>2, <1>3, <1>4, EndsFacts DEF Pausing
<1>6. ASSUME conn[Client] \in handedOff, ~writer'[Client].paused
      PROVE  /\ ~handshakeOk' /\ isReconnecting[Client]
             /\ PausedFirst(wire'[conn[Client]][Client])
  <2>1. CASE e = Client
    <3>1. type # "Resume" /\ type # "Pause" /\ ~writer[Client].paused
      BY <1>0, <1>3, <1>6, <2>1, EndsFacts DEF Pausing
    <3>2. ~handshakeOk /\ isReconnecting[Client] /\ PausedFirst(q)
      BY <1>0, <1>6, <2>1, <3>1 DEF Pausing
    <3>3. type # "Control" /\ PausedFirst(Tail(q))
      BY <1>1, <3>1, <3>2, PausedFirstPart
    <3> QED
      BY <1>2, <2>1, <3>2, <3>3
  <2>2. CASE e # Client
    BY <1>0, <1>2, <1>4, <1>6, <2>2, EndsFacts DEF Pausing
  <2> QED
    BY <2>1, <2>2
<1> QED
  BY <1>5, <1>6 DEF Pausing

\* ReceiveRegular makes no gap.
LEMMA GapReceiveRegular ==
  ASSUME Parts, Parts', GInv, NEW e \in Ends, ReceiveRegular(e)
  PROVE  GInv'
<1> DEFINE m == Head(Incoming(e))
<1>1. /\ Read(e, "Regular") /\ "Regular" \in MessageType
      /\ AcceptRegular(e, m) \/ RequestReplay(e, m) \/ IgnoreRegular(e, m)
      /\ UNCHANGED <<isReconnecting, outgoingMsgId, conn, broken, opened, handshakeSent,
                     handshakeOk, handedOff>>
  BY DEF ReceiveRegular, MessageType, socketVars, handshakeVars
<1>2. Contiguous /\ ~replayRequested[e] /\ incomingMsgId[e] \in Nat /\ incomingMsgId \in [Ends -> Nat]
  BY Shape DEF GInv, NoReplay, Parts, Fields
<1>3. m.id <= incomingMsgId[e] + 1 /\ m.id \in Nat
  <2> DEFINE q == wire[conn[e]][e]
  <2>1. q \in Seq(Message) /\ q # << >> /\ Head(q).type = "Regular" /\ m = Head(q)
    BY <1>1, Shape DEF Read, Incoming
  <2>2. Gapless(q, incomingMsgId[e])
    BY <1>2, Shape, EndsFacts DEF Contiguous
  <2>3. Len(q) # 0 /\ Len(q) \in Nat /\ Head(q) = q[1]
    BY <2>1, EmptySeq
  <2>4. 1 \in 1 .. Len(q) /\ q[1].type = "Regular" /\ q[1].id \in Nat /\ 1 - 1 = 0
    BY <2>1, <2>3, Elements
  <2> HIDE DEF q
  <2>5. q[1].id <= incomingMsgId[e] + 1
    BY <2>2, <2>4 DEF Gapless
  <2> QED
    BY <2>1, <2>3, <2>4, <2>5
<1> HIDE DEF m
<1>4. /\ \A f \in Ends : f # e => incomingMsgId'[f] = incomingMsgId[f]
      /\ incomingMsgId[e] <= incomingMsgId'[e]
      /\ m.id <= incomingMsgId'[e]
      /\ UNCHANGED <<replayRequested, writer>>
  <2>1. CASE AcceptRegular(e, m)
    BY <1>2, <1>3, <2>1 DEF AcceptRegular
  <2>2. CASE RequestReplay(e, m)
    BY <1>2, <1>3, <2>2 DEF RequestReplay
  <2>3. CASE IgnoreRegular(e, m)
    BY <1>2, <1>3, <2>3 DEF IgnoreRegular, incomingVars
  <2> QED
    BY <1>1, <2>1, <2>2, <2>3
<1>5. NoReplay' /\ Contiguous' /\ Requests' /\ Silent'
  BY <1>1, <1>4, GapRead DEF m
<1>6. Pausing'
  BY <1>1, <1>4, PausingRead
<1> QED
  BY <1>5, <1>6 DEF GInv

\* Reading any other message makes no gap.
LEMMA GapReceiveOther ==
  ASSUME Parts, Parts', GInv, NEW e \in Ends,
         \/ ReceiveAck(e)
         \/ ReceivePauseOrResume(e)
         \/ e = Client /\ ReceiveControl
  PROVE  GInv'
<1>1. incomingMsgId[e] \in Nat /\ writer \in [Ends -> WriterOf(Message)]
  BY Shape
<1>2. CASE ReceiveAck(e)
  <2>1. PICK type \in {"Ack", "KeepAlive"} : Read(e, type)
    BY <1>2 DEF ReceiveAck
  <2>2. /\ UNCHANGED <<isReconnecting, outgoingMsgId, conn, broken, opened, handshakeSent,
                       handshakeOk, handedOff, replayRequested, incomingMsgId, writer>>
        /\ type \in MessageType
    BY <1>2 DEF ReceiveAck, incomingVars, socketVars, handshakeVars, MessageType
  <2>3. NoReplay' /\ Contiguous' /\ Requests' /\ Silent'
    BY <1>1, <2>1, <2>2, GapRead
  <2>4. Pausing'
    BY <2>1, <2>2, PausingRead
  <2> QED
    BY <2>3, <2>4 DEF GInv
<1>3. CASE ReceivePauseOrResume(e)
  <2>1. PICK type \in {"Pause", "Resume"} :
          /\ Read(e, type)
          /\ writer' = [writer EXCEPT ![e] = IF type = "Pause" THEN Pause(@) ELSE Resume(@)]
    BY <1>3 DEF ReceivePauseOrResume
  <2>2. /\ UNCHANGED <<isReconnecting, outgoingMsgId, conn, broken, opened, handshakeSent,
                       handshakeOk, handedOff, replayRequested, incomingMsgId>>
        /\ type \in MessageType
    BY <1>3 DEF ReceivePauseOrResume, incomingVars, socketVars, handshakeVars, MessageType
  <2>3. /\ \A f \in Ends : f # e => writer'[f] = writer[f]
        /\ \A f \in Ends : writer'[f].buf = writer[f].buf
        /\ type = "Pause" => writer'[e].paused
    BY <1>1, <2>1 DEF Pause, Resume, WriterOf
  <2>4. NoReplay' /\ Contiguous' /\ Requests' /\ Silent'
    BY <1>1, <2>1, <2>2, <2>3, GapRead
  <2>5. Pausing'
    BY <2>1, <2>2, <2>3, PausingRead
  <2> QED
    BY <2>4, <2>5 DEF GInv
<1>4. CASE e = Client /\ ReceiveControl
  <2>1. /\ Read(e, "Control") /\ "Control" \in MessageType
        /\ UNCHANGED <<isReconnecting, outgoingMsgId, conn, broken, opened, handshakeSent,
                       handedOff, replayRequested, incomingMsgId, writer>>
    BY <1>4 DEF ReceiveControl, incomingVars, socketVars, MessageType
  <2>2. NoReplay' /\ Contiguous' /\ Requests' /\ Silent'
    BY <1>1, <1>4, <2>1, GapRead
  <2>3. Pausing'
    BY <1>4, <2>1, PausingRead
  <2> QED
    BY <2>2, <2>3 DEF GInv
<1> QED
  BY <1>2, <1>3, <1>4

\* No replay is ever requested or awaited.
LEMMA NoReplayAction ==
  ASSUME Parts, GInv, NEW e \in Ends
  PROVE  ~ReceiveReplayRequest(e) /\ ~ReplayWindowEnds(e)
<1>1. ~replayRequested[e] /\ "ReplayRequest" \notin Types(wire[conn[e]][e])
  BY Shape DEF GInv, NoReplay
<1>2. wire[conn[e]][e] \in Seq(Message)
  BY Shape
<1> QED
  BY <1>1, <1>2, TypesOfPart DEF ReceiveReplayRequest, Read, Incoming, ReplayWindowEnds

\* Two sequences together have a type once if one of them has.
LEMMA OnceSplit ==
  ASSUME NEW q \in Seq(Message), NEW r \in Seq(Message), NEW type
  PROVE  Once(q \o r, type) <=> /\ Once(q, type) /\ Once(r, type)
                                /\ ~(type \in Types(q) /\ type \in Types(r))
<1> DEFINE s == q \o r
<1>1. /\ Len(q) \in Nat /\ Len(r) \in Nat /\ Len(s) = Len(q) + Len(r)
      /\ \A i \in 1 .. Len(q) + Len(r) : s[i] = IF i <= Len(q) THEN q[i] ELSE r[i - Len(q)]
  BY ConcatProperties, LenProperties
<1> HIDE DEF s
<1>2. \A i \in 1 .. Len(q) : i \in 1 .. Len(s) /\ s[i] = q[i]
  BY <1>1
<1>3. \A i \in 1 .. Len(r) : /\ Len(q) + i \in 1 .. Len(s) /\ s[Len(q) + i] = r[i]
                             /\ \A j \in 1 .. Len(q) : Len(q) + i # j
                             /\ \A j \in 1 .. Len(r) : Len(q) + i = Len(q) + j => i = j
  BY <1>1
<1>4. \A i \in 1 .. Len(s) :
        \/ i \in 1 .. Len(q) /\ s[i] = q[i]
        \/ \E j \in 1 .. Len(r) : i = Len(q) + j /\ s[i] = r[j]
  <2> TAKE i \in 1 .. Len(s)
  <2>1. CASE i <= Len(q)
    BY <1>1, <2>1
  <2>2. CASE ~(i <= Len(q))
    <3>1. i - Len(q) \in 1 .. Len(r) /\ i = Len(q) + (i - Len(q)) /\ s[i] = r[i - Len(q)]
      BY <1>1, <2>2
    <3> QED
      BY <3>1
  <2> QED
    BY <2>1, <2>2
<1>5. ASSUME Once(s, type)
      PROVE  Once(q, type) /\ Once(r, type) /\ ~(type \in Types(q) /\ type \in Types(r))
  <2>1. Once(q, type)
    BY <1>2, <1>5 DEF Once
  <2>2. Once(r, type)
    BY <1>3, <1>5 DEF Once
  <2>3. ~(type \in Types(q) /\ type \in Types(r))
    <3> SUFFICES ASSUME NEW i \in 1 .. Len(q), NEW j \in 1 .. Len(r), q[i].type = type, r[j].type = type
                 PROVE  FALSE
      BY DEF Types
    <3> QED
      BY <1>2, <1>3, <1>5 DEF Once
  <2> QED
    BY <2>1, <2>2, <2>3
<1>6. ASSUME Once(q, type), Once(r, type), ~(type \in Types(q) /\ type \in Types(r))
      PROVE  Once(s, type)
  <2>1. ASSUME NEW i \in 1 .. Len(s), NEW j \in 1 .. Len(s), s[i].type = type, s[j].type = type
        PROVE  i = j
    <3>1. ~\E k \in 1 .. Len(q), l \in 1 .. Len(r) : q[k].type = type /\ r[l].type = type
      BY <1>6 DEF Types
    <3>2. CASE i \in 1 .. Len(q) /\ s[i] = q[i]
      BY <1>4, <1>6, <2>1, <3>1, <3>2 DEF Once
    <3>3. ASSUME NEW k \in 1 .. Len(r), i = Len(q) + k, s[i] = r[k]
          PROVE  i = j
      BY <1>4, <1>6, <2>1, <3>1, <3>3 DEF Once
    <3> QED
      BY <1>4, <3>2, <3>3
  <2> QED
    BY <2>1 DEF Once
<1> QED
  BY <1>5, <1>6 DEF s

\* A dead socket loses the end of what is in flight.
LEMMA GapLoseTail ==
  ASSUME Parts, Parts', GInv, NEW c \in Conn, NEW e \in Ends, LoseTail(c, e)
  PROVE  GInv'
<1>0. NoReplay /\ Contiguous /\ Requests /\ Silent /\ Pausing
  BY DEF GInv
<1> DEFINE q == wire[c][e]
           r == Prefix(q, Len(q) - 1)
<1>1. /\ UNCHANGED <<isReconnecting, outgoingUnackMsg, outgoingMsgId, incomingMsgId,
                     replayRequested, writer, conn, broken, opened, handshakeSent,
                     handshakeOk, handedOff>>
      /\ broken[c] /\ q # << >>
      /\ wire' = [wire EXCEPT ![c][e] = r]
  BY DEF LoseTail, protocolVars, socketVars, handshakeVars
<1>2. q \in Seq(Message) /\ Len(q) - 1 \in -1 .. Len(q) /\ Len(q) - 1 \in Nat
  <2>1. q \in Seq(Message)
    BY Shape
  <2>2. Len(q) \in Nat /\ Len(q) # 0
    BY <1>1, <2>1, EmptySeq
  <2> HIDE DEF q
  <2> QED
    BY <2>1, <2>2
<1> HIDE DEF q
<1>3. /\ wire'[c][e] = r
      /\ \A d \in Conn, f \in Ends : d # c \/ f # e => wire'[d][f] = wire[d][f]
  <2> HIDE DEF r
  <2> QED
    BY <1>1, Shape
<1>4. /\ Types(r) \subseteq Types(q)
      /\ \A n \in Nat : Gapless(q, n) => Gapless(r, n)
      /\ Once(q, "Control") => Once(r, "Control")
      /\ PausedFirst(q) => PausedFirst(r)
  BY <1>2, TypesOfPart, GaplessPrefix, OncePart, PausedFirstPart
<1> HIDE DEF r
<1>5. \A d \in Conn, f \in Ends : Types(wire'[d][f]) \subseteq Types(wire[d][f])
  BY <1>3, <1>4 DEF q
<1>6. \A f \in Ends : ~broken[conn[f]] => Stream(f)' = Stream(f)
  BY <1>1, <1>3, Shape, EndsFacts DEF Stream
<1>7. ASSUME NEW f \in Ends PROVE Types(Stream(f)') \subseteq Types(Stream(f))
  <2>1. Types(Stream(f)) = Types(wire[conn[f]][Peer(f)]) \cup Types(writer[f].buf)
    <3>1. wire[conn[f]][Peer(f)] \in Seq(Message) /\ writer[f].buf \in Seq(Message)
      BY Shape, EndsFacts
    <3>2. Stream(f) = wire[conn[f]][Peer(f)] \o writer[f].buf
      BY DEF Stream
    <3> QED
      BY <3>1, <3>2, TypesConcat
  <2>2. /\ conn[f] \in Conn /\ Peer(f) \in Ends /\ writer[f].buf \in Seq(Message)
        /\ wire'[conn[f]][Peer(f)] \in Seq(Message)
    <3>1. wire' \in [Conn -> [Ends -> Seq(Message)]]
      BY DEF Parts, Wires, Network
    <3> QED
      BY <3>1, Shape, EndsFacts
  <2>3. Stream(f)' = wire'[conn[f]][Peer(f)] \o writer[f].buf
    BY <1>1 DEF Stream
  <2>4. Types(Stream(f)') = Types(wire'[conn[f]][Peer(f)]) \cup Types(writer[f].buf)
    BY <2>2, <2>3, TypesConcat
  <2>5. Types(wire'[conn[f]][Peer(f)]) \subseteq Types(wire[conn[f]][Peer(f)])
    BY <1>5, <2>2
  <2> QED
    BY <2>1, <2>4, <2>5
<1>8. NoReplay'
  BY <1>0, <1>1, <1>5 DEF NoReplay
<1>9. Contiguous'
  <2>1. \A d \in Conn, f \in Ends : Gapless(wire'[d][Peer(f)], incomingMsgId[Peer(f)])
    <3> TAKE d \in Conn, f \in Ends
    <3>1. Gapless(wire[d][Peer(f)], incomingMsgId[Peer(f)]) /\ incomingMsgId[Peer(f)] \in Nat
      BY <1>0, Shape, EndsFacts DEF Contiguous
    <3> QED
      BY <1>3, <1>4, <3>1, EndsFacts DEF q
  <2> QED
    BY <1>0, <1>1, <1>6, <2>1 DEF Contiguous
<1>10. Once(Stream(Client)', "Control")
  <2>1. CASE c = conn[Client] /\ e = Server
    <3> DEFINE b == writer[Client].buf
    <3>1. Stream(Client) = q \o b /\ Stream(Client)' = r \o b
      BY <1>1, <1>3, <2>1, EndsFacts, ConstantsAssumption DEF Stream, Peer, q
    <3>2. q \in Seq(Message) /\ b \in Seq(Message) /\ Len(q) \in Nat
      BY <1>2, Shape, EndsFacts, LenProperties
    <3> HIDE DEF b
    <3>3. Once(q \o b, "Control")
      BY <1>0, <3>1 DEF Requests
    <3>4. Once(r \o b, "Control")
      <4>1. r \in Seq(Message)
        BY <1>2, PrefixType DEF r
      <4> QED
        BY <1>4, <3>2, <3>3, <4>1, OnceSplit
    <3> QED
      BY <3>1, <3>4
  <2>2. CASE c # conn[Client] \/ e # Server
    <3>1. Stream(Client)' = Stream(Client)
      BY <1>1, <1>3, <2>2, Shape, EndsFacts, ConstantsAssumption DEF Stream, Peer
    <3> QED
      BY <1>0, <3>1 DEF Requests
  <2> QED
    BY <2>1, <2>2
<1>11. Requests'
  <2>1. \A d \in Conn : Pending(d)' => Pending(d)
    BY <1>1, <1>5, EndsFacts DEF Pending
  <2>2. \A d \in Conn : Once(wire'[d][Server], "Control")
    BY <1>0, <1>3, <1>4, EndsFacts DEF Requests, q
  <2>3. ~handshakeSent => "Control" \notin Types(Stream(Client)')
    BY <1>0, <1>7, EndsFacts DEF Requests
  <2>4. \A d \in Conn : wire[d][Client] = << >> => wire'[d][Client] = << >>
    BY <1>1, <1>3, EndsFacts DEF q
  <2>5. \A d \in Conn : wire[d][Server] = << >> => wire'[d][Server] = << >>
    BY <1>1, <1>3, EndsFacts DEF q
  <2>6. conn[Client] \in Conn
    BY Shape, EndsFacts
  <2> QED
    BY <1>0, <1>1, <1>10, <2>1, <2>2, <2>3, <2>4, <2>5, <2>6 DEF Requests
<1>12. Silent'
  BY <1>0, <1>1, <1>5, <1>7, EndsFacts DEF Silent
<1>13. Pausing'
  <2>1. handedOff \subseteq Conn
    BY DEF Parts, Fields
  <2>2. conn[Client] \in handedOff =>
          (PausedFirst(wire[conn[Client]][Client]) => PausedFirst(wire'[conn[Client]][Client]))
    BY <1>3, <1>4, <2>1, EndsFacts DEF q
  <2>3. \A d \in handedOff : "Resume" \notin Types(wire'[d][Client])
    BY <1>0, <1>5, <2>1, EndsFacts DEF Pausing
  <2> QED
    BY <1>0, <1>1, <2>2, <2>3 DEF Pausing
<1> QED
  BY <1>8, <1>9, <1>11, <1>12, <1>13 DEF GInv

\* ClientBeginReconnection makes no gap.
LEMMA GapClientBeginReconnection ==
  ASSUME Parts, Parts', GInv, ClientBeginReconnection
  PROVE  GInv'
<1>0. NoReplay /\ Contiguous /\ Requests /\ Silent /\ Pausing
  BY DEF GInv
<1> DEFINE old == conn[Client]
           new == opened + 1
           q == Transmit(wire, old, Client, Flushed(writer[Client]))
<1>1. /\ UNCHANGED <<outgoingUnackMsg, outgoingMsgId, incomingMsgId, handedOff>>
      /\ opened < MaxConn /\ opened' = new
      /\ conn' = [conn EXCEPT ![Client] = new]
      /\ broken' = [broken EXCEPT ![old] = TRUE]
      /\ wire' = LeaveSocket(wire, Client)
      /\ writer' = [writer EXCEPT ![Client] = NewWriter]
      /\ isReconnecting' = [isReconnecting EXCEPT ![Client] = TRUE]
      /\ replayRequested' = [replayRequested EXCEPT ![Client] = FALSE]
      /\ ~handshakeSent' /\ ~handshakeOk'
  BY DEF ClientBeginReconnection, outgoingVars
<1>2. /\ Client \in Ends /\ Server \in Ends /\ Client # Server /\ Ends = {Client, Server}
      /\ Peer(Client) = Server /\ Peer(Server) = Client
      /\ old \in Conn /\ old = opened /\ opened \in Nat /\ new \in Conn /\ new \in Nat
      /\ Conn \subseteq Nat /\ conn[Server] \in Conn
  <2>1. opened \in Nat /\ MaxConn \in Nat
    BY Shape, ConstantsAssumption
  <2>2. new \in Conn
    BY <1>1, <2>1 DEF Conn
  <2> QED
    BY <1>0, <2>1, <2>2, Shape, EndsFacts, ConstantsAssumption DEF Ends, Peer, Requests
<1>3. /\ conn'[Client] = new /\ conn'[Server] = conn[Server]
      /\ writer'[Client].buf = << >> /\ writer'[Server] = writer[Server]
      /\ isReconnecting'[Client] /\ isReconnecting'[Server] = isReconnecting[Server]
      /\ replayRequested'[Client] = FALSE /\ replayRequested'[Server] = replayRequested[Server]
      /\ \A c \in Conn : broken'[c] = IF c = old THEN TRUE ELSE broken[c]
  <2>1. /\ conn \in [Ends -> Conn] /\ isReconnecting \in [Ends -> BOOLEAN]
        /\ replayRequested \in [Ends -> BOOLEAN] /\ broken \in [Conn -> BOOLEAN]
        /\ writer \in [Ends -> WriterOf(Message)]
    BY DEF Parts, Fields, Writers
  <2> QED
    BY <1>1, <1>2, <2>1 DEF NewWriter
<1>4. /\ q \in [Conn -> [Ends -> Seq(Message)]]
      /\ \A c \in Conn, f \in Ends : c # old \/ f # Server => q[c][f] = wire[c][f]
      /\ broken[old] \/ writer[Client].paused => q[old][Server] = wire[old][Server]
      /\ ~broken[old] /\ ~writer[Client].paused => q[old][Server] = Stream(Client)
  <2>1. q = Transmit(wire, conn[Client], Client, Flushed(writer[Client]))
    OBVIOUS
  <2> HIDE DEF q
  <2>2. /\ q \in [Conn -> [Ends -> Seq(Message)]]
        /\ \A c \in Conn, f \in Ends : c # conn[Client] \/ f # Peer(Client) => q[c][f] = wire[c][f]
        /\ broken[conn[Client]] \/ writer[Client].paused =>
              q[conn[Client]][Peer(Client)] = wire[conn[Client]][Peer(Client)]
        /\ ~broken[conn[Client]] /\ ~writer[Client].paused =>
              q[conn[Client]][Peer(Client)] = Stream(Client)
    <3>1. Client \in Ends
      BY <1>2
    <3> QED
      BY <2>1, <3>1, FlushShape, Zenon
  <2> QED
    BY <1>2, <2>2
<1>5. wire' = [q EXCEPT ![old][Client] = << >>]
  BY <1>1 DEF LeaveSocket
<1> HIDE DEF q, old, new
<1>6. /\ \A c \in Conn, f \in Ends : c # old => wire'[c][f] = wire[c][f]
      /\ wire'[old][Client] = << >>
      /\ broken[old] \/ writer[Client].paused => wire'[old][Server] = wire[old][Server]
      /\ ~broken[old] /\ ~writer[Client].paused => wire'[old][Server] = Stream(Client)
  BY <1>2, <1>4, <1>5
<1>7. new \in Conn /\ new > opened /\ new # old
  BY <1>2 DEF new
<1>8. Pending(new) /\ conn[Server] # new /\ new \notin handedOff
      /\ wire[new][Server] = << >> /\ wire[new][Client] = << >>
  <2>1. Pending(new)
    BY <1>7 DEF Pending
  <2> QED
    BY <1>0, <1>7, <2>1 DEF Requests
<1>9. Stream(Client)' = << >> /\ Types(Stream(Client)') = {}
  <2>1. Stream(Client)' = wire'[new][Server] \o << >>
    BY <1>2, <1>3 DEF Stream
  <2>2. << >> \o << >> = << >>
    BY ConcatEmptySeq, EmptySeq
  <2> QED
    BY <1>2, <1>6, <1>7, <1>8, <2>1, <2>2, TypesOfFew
<1>10. conn[Server] # old => Stream(Server)' = Stream(Server)
  BY <1>2, <1>3, <1>6 DEF Stream
<1>11. Types(Stream(Client)) = Types(wire[old][Server]) \cup Types(writer[Client].buf)
  <2>1. wire[old][Server] \in Seq(Message) /\ writer[Client].buf \in Seq(Message)
    BY <1>2, Shape
  <2>2. Stream(Client) = wire[old][Server] \o writer[Client].buf
    BY <1>2 DEF Stream, old
  <2> QED
    BY <2>1, <2>2, TypesConcat
<1>12. \A type : type \in Types(wire'[old][Server]) =>
                   type \in Types(wire[old][Server]) \/ type \in Types(writer[Client].buf)
  BY <1>6, <1>11
<1>13. NoReplay'
  <2>1. \A c \in Conn, f \in Ends : "ReplayRequest" \notin Types(wire'[c][f])
    <3> TAKE c \in Conn, f \in Ends
    <3>1. CASE c # old
      BY <1>0, <1>6, <3>1 DEF NoReplay
    <3>2. CASE c = old /\ f = Server
      BY <1>0, <1>2, <1>12, <3>2 DEF NoReplay
    <3>3. CASE c = old /\ f = Client
      BY <1>6, <3>3, TypesOfFew
    <3> QED
      BY <1>2, <3>1, <3>2, <3>3
  <2>2. \A f \in Ends : ~replayRequested'[f] /\ "ReplayRequest" \notin Types(writer'[f].buf)
    BY <1>0, <1>2, <1>3, TypesOfFew DEF NoReplay
  <2> QED
    BY <1>0, <1>1, <2>1, <2>2 DEF NoReplay
<1>14. Contiguous'
  <2>1. \A n : Gapless(<< >>, n)
    BY GaplessNoRegular, TypesOfFew
  <2>2. \A c \in Conn : Gapless(wire'[c][Server], incomingMsgId[Server])
    <3> TAKE c \in Conn
    <3>1. Gapless(wire[c][Server], incomingMsgId[Server])
      BY <1>0, <1>2 DEF Contiguous
    <3>2. ~broken[old] => Gapless(Stream(Client), incomingMsgId[Server])
      BY <1>0, <1>2 DEF Contiguous, old
    <3> QED
      BY <1>2, <1>4, <1>6, <3>1, <3>2, Shape
  <2>3. \A c \in Conn : Gapless(wire'[c][Client], incomingMsgId[Client])
    BY <1>0, <1>2, <1>6, <2>1 DEF Contiguous
  <2>4. ~broken'[conn[Server]] =>
          /\ Gapless(Stream(Server)', incomingMsgId[Client])
          /\ ~isReconnecting[Server] => Reaches(Stream(Server)', incomingMsgId[Client], outgoingMsgId[Server])
    BY <1>0, <1>2, <1>3, <1>10 DEF Contiguous
  <2>5. \A f \in Ends, c \in Conn : Gapless(wire'[c][Peer(f)], incomingMsgId'[Peer(f)])
    BY <1>1, <1>2, <2>2, <2>3
  <2>6. \A f \in Ends : ~broken'[conn'[f]] =>
          /\ Gapless(Stream(f)', incomingMsgId'[Peer(f)])
          /\ ~isReconnecting'[f] => Reaches(Stream(f)', incomingMsgId'[Peer(f)], outgoingMsgId'[f])
    <3> TAKE f \in Ends
    <3>1. CASE f = Client
      BY <1>3, <1>9, <2>1, <3>1
    <3>2. CASE f = Server
      BY <1>1, <1>2, <1>3, <2>4, <3>2
    <3> QED
      BY <1>2, <3>1, <3>2
  <2> QED
    BY <2>5, <2>6 DEF Contiguous
<1>15. \A c \in Conn : Pending(c)' => Pending(c)
  <2> TAKE c \in Conn
  <2>1. "Control" \in Types(wire'[c][Server]) => Pending(c)
    BY <1>2, <1>6, <1>12 DEF Pending, old
  <2>2. c > opened' => c > opened
    BY <1>1, <1>2 DEF new
  <2>3. "Control" \notin Types(writer'[Client].buf)
    BY <1>3, TypesOfFew
  <2> QED
    BY <1>3, <1>8, <2>1, <2>2, <2>3 DEF Pending
<1>16. Requests'
  <2>1. \A c \in Conn : Once(wire'[c][Server], "Control")
    BY <1>0, <1>2, <1>4, <1>6, Shape DEF Requests
  <2>2. Once(Stream(Client)', "Control") /\ "Control" \notin Types(Stream(Client)')
    <3>1. Once(<< >>, "Control")
      BY EmptySeq, OnceRest, TypesOfFew
    <3> QED
      BY <1>9, <3>1
  <2>3. \A c \in Conn : Pending(c) => conn[Server] # c /\ wire'[c][Client] = << >> /\ c \notin handedOff
    BY <1>0, <1>2, <1>6 DEF Requests
  <2>4. \A c \in Conn : c > opened' => wire'[c][Server] = << >>
    <3> SUFFICES ASSUME NEW c \in Conn, c > opened' PROVE wire'[c][Server] = << >>
      OBVIOUS
    <3>1. c # old /\ c > opened
      BY <1>1, <1>2 DEF new
    <3> QED
      BY <1>0, <1>2, <1>6, <3>1 DEF Requests
  <2>5. conn'[Client] = opened' /\ ~isReconnecting'[Server] /\ "Control" \notin Types(writer'[Server].buf)
    BY <1>0, <1>1, <1>3 DEF Requests
  <2> QED
    BY <1>1, <1>3, <1>15, <2>1, <2>2, <2>3, <2>4, <2>5 DEF Requests
<1>17. Silent'
  <2>1. ASSUME NEW c \in Conn, c \in handedOff \/ "Control" \in Types(wire'[c][Server])
        PROVE  "Regular" \notin Types(wire'[c][Server])
    <3>1. CASE c # old \/ broken[old] \/ writer[Client].paused
      <4>1. wire'[c][Server] = wire[c][Server]
        BY <1>2, <1>6, <3>1
      <4> QED
        BY <1>0, <2>1, <4>1 DEF Silent
    <3>2. CASE c = old /\ ~broken[old] /\ ~writer[Client].paused
      <4>1. wire'[c][Server] = Stream(Client)
        BY <1>6, <3>2
      <4> QED
        BY <2>1, <3>2, <4>1, ClientFlush DEF old
    <3> QED
      BY <1>2, <1>4, <3>1, <3>2, Shape
  <2> QED
    BY <1>1, <1>9, <2>1 DEF Silent
<1>18. Pausing'
  <2>1. \A c \in handedOff : conn[Server] # c /\ "Resume" \notin Types(wire'[c][Client])
    <3> TAKE c \in handedOff
    <3>1. c \in Conn
      BY DEF Parts, Fields
    <3> QED
      BY <1>0, <1>2, <1>6, <3>1, TypesOfFew DEF Pausing
  <2> QED
    BY <1>1, <1>3, <1>8, <2>1 DEF Pausing
<1> QED
  BY <1>13, <1>14, <1>16, <1>17, <1>18 DEF GInv

\* Dropping the first messages keeps a type at most once.
LEMMA OnceAfter ==
  ASSUME NEW q \in Seq(Message), NEW type, Once(q, type), NEW k \in 0 .. Len(q)
  PROVE  Once(After(q, k), type)
<1>1. Len(q) \in Nat /\ \A i \in k + 1 .. Len(q) : q[i] \in Message
  BY Elements
<1> DEFINE p == After(q, k)
<1>2. /\ Len(p) = IF k + 1 <= Len(q) THEN Len(q) - (k + 1) + 1 ELSE 0
      /\ \A i \in 1 .. Len(q) - (k + 1) + 1 : p[i] = q[k + 1 + i - 1]
  BY <1>1, SubSeqProperties DEF After
<1> HIDE DEF p
<1>3. \A i \in 1 .. Len(p) : k + i \in 1 .. Len(q) /\ p[i] = q[k + i]
  BY <1>1, <1>2
<1>4. \A i, j \in 1 .. Len(p) : k + i = k + j => i = j
  BY <1>1, <1>2
<1> QED
  BY <1>3, <1>4 DEF Once, p

\* Messages without an id in front of others do not count.
LEMMA PlainFront ==
  ASSUME NEW q \in Seq(Message), NEW b \in Seq(Message), NEW n \in Nat,
         "Regular" \notin Types(q)
  PROVE  /\ Gapless(q \o b, n) <=> Gapless(b, n)
         /\ \A id : Reaches(q \o b, n, id) <=> Reaches(b, n, id)
<1> DEFINE s == q \o b
<1>1. /\ Len(q) \in Nat /\ Len(b) \in Nat /\ Len(s) = Len(q) + Len(b)
      /\ \A i \in 1 .. Len(q) + Len(b) : s[i] = IF i <= Len(q) THEN q[i] ELSE b[i - Len(q)]
  BY ConcatProperties, LenProperties
<1>2. \A i \in 1 .. Len(q) : q[i].type # "Regular"
  BY DEF Types
<1> HIDE DEF s
<1>3. \A i \in 1 .. Len(s) : s[i].type = "Regular" =>
        /\ i - Len(q) \in 1 .. Len(b) /\ s[i] = b[i - Len(q)]
        /\ i = Len(q) + (i - Len(q))
  <2> TAKE i \in 1 .. Len(s)
  <2>1. CASE i <= Len(q)
    <3>1. i \in 1 .. Len(q) /\ s[i] = q[i]
      BY <1>1, <2>1
    <3> QED
      BY <1>2, <3>1
  <2>2. CASE ~(i <= Len(q))
    BY <1>1, <2>2
  <2> QED
    BY <2>1, <2>2
<1>4. \A i \in 1 .. Len(b) : Len(q) + i \in 1 .. Len(s) /\ s[Len(q) + i] = b[i]
  BY <1>1
<1>5. ASSUME Gapless(s, n) PROVE Gapless(b, n)
  <2> SUFFICES ASSUME NEW i \in 1 .. Len(b), b[i].type = "Regular"
               PROVE  \/ b[i].id <= n + 1
                      \/ \E j \in 1 .. i - 1 : b[j].type = "Regular" /\ b[i].id <= b[j].id + 1
    BY DEF Gapless
  <2> DEFINE k == Len(q) + i
  <2>1. k \in 1 .. Len(s) /\ s[k] = b[i]
    BY <1>4
  <2>2. \A j \in 1 .. k - 1 : s[j].type = "Regular" =>
          j - Len(q) \in 1 .. i - 1 /\ s[j] = b[j - Len(q)]
    <3> SUFFICES ASSUME NEW j \in 1 .. k - 1, s[j].type = "Regular"
                 PROVE  j - Len(q) \in 1 .. i - 1 /\ s[j] = b[j - Len(q)]
      OBVIOUS
    <3>1. j \in 1 .. Len(s) /\ j < k
      BY <1>1
    <3>2. j - Len(q) \in 1 .. Len(b) /\ s[j] = b[j - Len(q)]
      BY <1>3, <3>1
    <3> QED
      BY <1>1, <3>1, <3>2
  <2> HIDE DEF k
  <2> QED
    BY <1>5, <2>1, <2>2 DEF Gapless
<1>6. ASSUME Gapless(b, n) PROVE Gapless(s, n)
  <2> SUFFICES ASSUME NEW i \in 1 .. Len(s), s[i].type = "Regular"
               PROVE  \/ s[i].id <= n + 1
                      \/ \E j \in 1 .. i - 1 : s[j].type = "Regular" /\ s[i].id <= s[j].id + 1
    BY DEF Gapless
  <2> DEFINE k == i - Len(q)
  <2>1. k \in 1 .. Len(b) /\ s[i] = b[k]
    BY <1>3
  <2>2. \A j \in 1 .. k - 1 : Len(q) + j \in 1 .. i - 1 /\ s[Len(q) + j] = b[j]
    BY <1>1, <1>4, <2>1
  <2> HIDE DEF k
  <2> QED
    BY <1>6, <2>1, <2>2 DEF Gapless
<1>7. \A id : Reaches(s, n, id) <=> Reaches(b, n, id)
  BY <1>3, <1>4 DEF Reaches
<1> QED
  BY <1>5, <1>6, <1>7 DEF s

\* Dropping the first messages makes no gap if none of them is Regular.
LEMMA FrontDropped ==
  ASSUME NEW q \in Seq(Message), NEW b \in Seq(Message), NEW n \in Nat,
         "Regular" \notin Types(q), NEW k \in 0 .. Len(q)
  PROVE  /\ After(q, k) \in Seq(Message)
         /\ Types(After(q, k)) \subseteq Types(q)
         /\ Types(After(q, k) \o b) \subseteq Types(q \o b)
         /\ Gapless(After(q, k), n)
         /\ Gapless(q \o b, n) => Gapless(After(q, k) \o b, n)
         /\ \A id : Reaches(q \o b, n, id) => Reaches(After(q, k) \o b, n, id)
         /\ \A type : Once(q, type) => Once(After(q, k), type)
         /\ \A type : Once(q \o b, type) => Once(After(q, k) \o b, type)
<1> DEFINE t == After(q, k)
<1>1. t \in Seq(Message) /\ Types(t) \subseteq Types(q)
  BY AfterType, TypesOfPart
<1>2. \A type : Once(q, type) => Once(t, type)
  BY OnceAfter
<1> HIDE DEF t
<1>3. Types(t \o b) \subseteq Types(q \o b)
  <2>1. Types(t \o b) = Types(t) \cup Types(b) /\ Types(q \o b) = Types(q) \cup Types(b)
    BY <1>1, TypesConcat
  <2> QED
    BY <1>1, <2>1
<1>4. "Regular" \notin Types(t)
  BY <1>1
<1>5. /\ Gapless(t \o b, n) <=> Gapless(q \o b, n)
      /\ \A id : Reaches(t \o b, n, id) <=> Reaches(q \o b, n, id)
  <2>1. /\ Gapless(t \o b, n) <=> Gapless(b, n)
        /\ \A id : Reaches(t \o b, n, id) <=> Reaches(b, n, id)
    BY <1>1, <1>4, PlainFront
  <2>2. /\ Gapless(q \o b, n) <=> Gapless(b, n)
        /\ \A id : Reaches(q \o b, n, id) <=> Reaches(b, n, id)
    BY PlainFront
  <2> QED
    BY <2>1, <2>2
<1>6. ASSUME NEW type, Once(q \o b, type) PROVE Once(t \o b, type)
  <2>1. /\ Once(q, type) /\ Once(b, type) /\ ~(type \in Types(q) /\ type \in Types(b))
    BY <1>6, OnceSplit
  <2>2. Once(t, type) /\ ~(type \in Types(t) /\ type \in Types(b))
    BY <1>1, <1>2, <2>1
  <2> QED
    BY <1>1, <2>1, <2>2, OnceSplit
<1>7. Gapless(t, n)
  BY <1>4, GaplessNoRegular
<1> QED
  BY <1>1, <1>2, <1>3, <1>5, <1>6, <1>7 DEF t

\* The server has read the request of a connection.
LEMMA RequestRead ==
  ASSUME Parts, GInv, NEW c \in Conn, NEW i \in 1 .. Len(wire[c][Server]), IsRequest(c, i)
  PROVE  /\ Pending(c) /\ c <= opened /\ conn[Server] # c /\ wire[c][Client] = << >>
         /\ c \notin handedOff
         /\ "Control" \in Types(wire[c][Server]) /\ "Regular" \notin Types(wire[c][Server])
         /\ "Control" \notin Types(After(wire[c][Server], i))
         /\ c = conn[Client] => /\ isReconnecting[Client] /\ handshakeSent /\ ~handshakeOk
                                /\ "Control" \notin Types(writer[Client].buf)
<1>0. Requests /\ Silent
  BY DEF GInv
<1> DEFINE q == wire[c][Server]
<1>1. q \in Seq(Message) /\ i \in 1 .. Len(q) /\ q[i].type = "Control"
  BY Shape, EndsFacts DEF IsRequest
<1>2. "Control" \in Types(q)
  BY <1>1 DEF Types
<1>3. Pending(c)
  BY <1>2 DEF Pending
<1>4. conn[Server] # c /\ wire[c][Client] = << >> /\ c \notin handedOff /\ Once(q, "Control")
  BY <1>0, <1>3 DEF Requests
<1>5. c <= opened
  <2>1. q # << >>
    BY <1>2, TypesOfFew
  <2> QED
    BY <1>0, <2>1, Shape DEF Requests
<1>6. "Regular" \notin Types(q)
  BY <1>0, <1>2 DEF Silent
<1>7. "Control" \notin Types(After(q, i))
  BY <1>1, <1>4, OnceRest
<1>8. ASSUME c = conn[Client]
      PROVE  /\ isReconnecting[Client] /\ handshakeSent /\ ~handshakeOk
             /\ "Control" \notin Types(writer[Client].buf)
  <2>1. isReconnecting[Client] /\ ~handshakeOk
    BY <1>0, <1>3, <1>8 DEF Requests
  <2>2. Stream(Client) = q \o writer[Client].buf /\ writer[Client].buf \in Seq(Message)
    BY <1>8, Shape, EndsFacts, ConstantsAssumption DEF Stream, Peer
  <2>3. Once(q \o writer[Client].buf, "Control")
    BY <1>0, <2>2 DEF Requests
  <2>4. "Control" \notin Types(writer[Client].buf)
    BY <1>1, <1>2, <2>2, <2>3, OnceSplit
  <2>5. "Control" \in Types(Stream(Client))
    BY <1>1, <1>2, <2>2, TypesConcat
  <2> QED
    BY <1>0, <2>1, <2>4, <2>5 DEF Requests
<1> QED
  BY <1>2, <1>3, <1>4, <1>5, <1>6, <1>7, <1>8

\* The stream of the client when messages in front were read or lost.
LEMMA ClientStream ==
  ASSUME Parts, GInv, NEW c \in Conn, NEW k \in 0 .. Len(wire[c][Server]),
         "Regular" \notin Types(wire[c][Server]),
         wire'[c][Server] = After(wire[c][Server], k),
         conn'[Client] = conn[Client], writer'[Client] = writer[Client],
         \/ conn[Client] = c
         \/ wire'[conn[Client]][Server] = wire[conn[Client]][Server]
  PROVE  /\ Types(Stream(Client)') \subseteq Types(Stream(Client))
         /\ Once(Stream(Client)', "Control")
         /\ ~broken[conn[Client]] =>
              /\ Gapless(Stream(Client)', incomingMsgId[Server])
              /\ ~isReconnecting[Client] =>
                   Reaches(Stream(Client)', incomingMsgId[Server], outgoingMsgId[Client])
<1>0. Contiguous /\ Once(Stream(Client), "Control")
  BY DEF GInv, Requests
<1>1. Peer(Client) = Server /\ Client \in Ends /\ Server \in Ends
  BY EndsFacts DEF Peer
<1>2. ~broken[conn[Client]] =>
        /\ Gapless(Stream(Client), incomingMsgId[Server])
        /\ ~isReconnecting[Client] =>
             Reaches(Stream(Client), incomingMsgId[Server], outgoingMsgId[Client])
  BY <1>0, <1>1 DEF Contiguous
<1>3. CASE conn[Client] = c
  <2> DEFINE q == wire[c][Server]
             b == writer[Client].buf
  <2>1. Stream(Client) = q \o b /\ Stream(Client)' = After(q, k) \o b
    BY <1>1, <1>3 DEF Stream
  <2>2. q \in Seq(Message) /\ b \in Seq(Message) /\ incomingMsgId[Server] \in Nat
    BY <1>1, Shape
  <2>3. /\ Types(After(q, k) \o b) \subseteq Types(q \o b)
        /\ Gapless(q \o b, incomingMsgId[Server]) => Gapless(After(q, k) \o b, incomingMsgId[Server])
        /\ \A id : Reaches(q \o b, incomingMsgId[Server], id) =>
                     Reaches(After(q, k) \o b, incomingMsgId[Server], id)
        /\ Once(q \o b, "Control") => Once(After(q, k) \o b, "Control")
    <3> HIDE DEF b
    <3> QED
      BY <2>2, FrontDropped
  <2> QED
    BY <1>0, <1>2, <2>1, <2>3
<1>4. CASE wire'[conn[Client]][Server] = wire[conn[Client]][Server]
  <2>1. Stream(Client)' = Stream(Client)
    BY <1>1, <1>4 DEF Stream
  <2> QED
    BY <1>0, <1>2, <2>1
<1> QED
  BY <1>3, <1>4

\* A hand over skips nothing that counts, and the client is paused.
LEMMA GapServerHandOff ==
  ASSUME Parts, Parts', GInv, NEW c \in Conn, ServerHandOff(c)
  PROVE  GInv'
<1>0. NoReplay /\ Contiguous /\ Requests /\ Silent /\ Pausing
  BY DEF GInv
<1> DEFINE answer == <<Plain("Pause", 0), Plain("Control", 0)>>
           q == wire[c][Server]
<1>1. PICK i \in 1 .. Len(q) :
        /\ IsRequest(c, i)
        /\ wire' = [Transmit(wire, c, Server, answer) EXCEPT ![c][Server] = After(@, i)]
  BY DEF ServerHandOff
<1>2. /\ UNCHANGED <<isReconnecting, outgoingUnackMsg, outgoingMsgId, incomingMsgId,
                     replayRequested, writer, conn, broken, opened, handshakeSent,
                     handshakeOk>>
      /\ handedOff' = handedOff \cup {c}
  BY DEF ServerHandOff, protocolVars, socketVars
<1>3. /\ Pending(c) /\ c <= opened /\ conn[Server] # c /\ wire[c][Client] = << >>
      /\ c \notin handedOff
      /\ "Control" \in Types(q) /\ "Regular" \notin Types(q)
      /\ "Control" \notin Types(After(q, i))
      /\ c = conn[Client] => /\ isReconnecting[Client] /\ handshakeSent /\ ~handshakeOk
                             /\ "Control" \notin Types(writer[Client].buf)
  BY <1>1, RequestRead
<1>4. /\ Client \in Ends /\ Server \in Ends /\ Client # Server /\ Ends = {Client, Server}
      /\ Peer(Client) = Server /\ Peer(Server) = Client
      /\ conn[Client] \in Conn /\ conn[Server] \in Conn /\ handedOff \subseteq Conn
      /\ q \in Seq(Message) /\ i \in 0 .. Len(q)
  <2>1. q \in Seq(Message) /\ Len(q) \in Nat
    BY Shape, EndsFacts, LenProperties
  <2>2. i \in 0 .. Len(q)
    BY <2>1
  <2> HIDE DEF q
  <2> QED
    BY <2>1, <2>2, Shape, EndsFacts, ConstantsAssumption DEF Ends, Peer, Parts, Fields
<1>5. answer \in Seq(Message) /\ Types(answer) = {"Pause", "Control"} /\ PausedFirst(answer)
  <2>1. Plain("Pause", 0) \in Message /\ Plain("Control", 0) \in Message
    BY PlainType DEF MessageType
  <2>2. PausedFirst(answer)
    BY DEF PausedFirst, Plain
  <2> QED
    BY <2>1, <2>2, TypesOfFew
<1> HIDE DEF answer
<1>6. /\ wire'[c][Server] = After(q, i)
      /\ wire'[c][Client] = IF broken[c] THEN << >> ELSE answer
      /\ \A d \in Conn, f \in Ends : d # c => wire'[d][f] = wire[d][f]
  <2> DEFINE t == Transmit(wire, c, Server, answer)
  <2>1. /\ t \in [Conn -> [Ends -> Seq(Message)]]
        /\ t[c][Server] = q
        /\ t[c][Client] = IF broken[c] THEN << >> ELSE answer
        /\ \A d \in Conn, f \in Ends : d # c => t[d][f] = wire[d][f]
    <3>1. << >> \o answer = answer /\ wire \in [Conn -> [Ends -> Seq(Message)]]
      BY <1>5, Shape, ConcatEmptySeq
    <3>2. CASE broken[c]
      BY <1>3, <1>4, <3>1, <3>2 DEF Transmit
    <3>3. CASE ~broken[c]
      <4>1. t = [wire EXCEPT ![c][Client] = answer]
        BY <1>3, <1>4, <3>1, <3>3 DEF Transmit
      <4> HIDE DEF t
      <4> QED
        BY <1>3, <1>4, <1>5, <3>1, <3>3, <4>1
    <3> QED
      BY <3>2, <3>3
  <2>2. wire' = [t EXCEPT ![c][Server] = After(q, i)]
    <3>1. wire' = [t EXCEPT ![c][Server] = After(t[c][Server], i)]
      BY <1>1
    <3> QED
      BY <2>1, <3>1
  <2> HIDE DEF t
  <2> QED
    BY <1>4, <2>1, <2>2
<1>7. Types(After(q, i)) \subseteq Types(q) /\ "Regular" \notin Types(After(q, i))
  BY <1>3, <1>4, TypesOfPart
<1> HIDE DEF q
<1>8. Types(wire'[c][Client]) \subseteq {"Pause", "Control"}
  BY <1>5, <1>6, TypesOfFew
<1>9. Stream(Server)' = Stream(Server)
  BY <1>2, <1>3, <1>4, <1>6 DEF Stream
<1>10. /\ Types(Stream(Client)') \subseteq Types(Stream(Client))
       /\ Once(Stream(Client)', "Control")
       /\ ~broken[conn[Client]] =>
            /\ Gapless(Stream(Client)', incomingMsgId[Server])
            /\ ~isReconnecting[Client] =>
                 Reaches(Stream(Client)', incomingMsgId[Server], outgoingMsgId[Client])
  BY <1>2, <1>3, <1>4, <1>6, ClientStream DEF q
<1>11. NoReplay'
  <2>1. \A d \in Conn, f \in Ends : "ReplayRequest" \notin Types(wire'[d][f])
    <3> TAKE d \in Conn, f \in Ends
    <3>1. CASE d = c /\ f = Server
      BY <1>0, <1>4, <1>6, <1>7, <3>1 DEF NoReplay, q
    <3>2. CASE d = c /\ f = Client
      BY <1>8, <3>2
    <3>3. CASE d # c
      BY <1>0, <1>6, <3>3 DEF NoReplay
    <3> QED
      BY <1>4, <3>1, <3>2, <3>3
  <2> QED
    BY <1>0, <1>2, <2>1 DEF NoReplay
<1>12. Contiguous'
  <2>1. \A d \in Conn, f \in Ends : Gapless(wire'[d][Peer(f)], incomingMsgId[Peer(f)])
    <3> TAKE d \in Conn, f \in Ends
    <3>1. CASE d = c
      <4>1. "Regular" \notin Types(wire'[c][Server]) /\ "Regular" \notin Types(wire'[c][Client])
        BY <1>6, <1>7, <1>8
      <4> QED
        BY <1>4, <3>1, <4>1, GaplessNoRegular
    <3>2. CASE d # c
      BY <1>0, <1>6, <3>2, EndsFacts DEF Contiguous
    <3> QED
      BY <3>1, <3>2
  <2>2. \A f \in Ends : ~broken[conn[f]] =>
          /\ Gapless(Stream(f)', incomingMsgId[Peer(f)])
          /\ ~isReconnecting[f] => Reaches(Stream(f)', incomingMsgId[Peer(f)], outgoingMsgId[f])
    <3> TAKE f \in Ends
    <3>1. CASE f = Client
      BY <1>4, <1>10, <3>1
    <3>2. CASE f = Server
      BY <1>0, <1>4, <1>9, <3>2 DEF Contiguous
    <3> QED
      BY <1>4, <3>1, <3>2
  <2> QED
    BY <1>2, <2>1, <2>2 DEF Contiguous
<1>13. \A d \in Conn : Pending(d)' => Pending(d) /\ d # c
  <2> TAKE d \in Conn
  <2>1. CASE d = c
    <3>1. "Control" \notin Types(wire'[c][Server])
      BY <1>3, <1>6
    <3>2. ~(c > opened)
      BY <1>3, Shape
    <3> QED
      BY <1>2, <1>3, <2>1, <3>1, <3>2 DEF Pending
  <2>2. CASE d # c
    BY <1>2, <1>4, <1>6, <2>2 DEF Pending
  <2> QED
    BY <2>1, <2>2
<1>14. Requests'
  <2>1. \A d \in Conn : Once(wire'[d][Server], "Control")
    <3>1. Once(wire'[c][Server], "Control")
      <4>1. wire'[c][Server] \in Seq(Message) /\ "Control" \notin Types(wire'[c][Server])
        BY <1>3, <1>4, <1>6, AfterType
      <4> QED
        BY <4>1, OnceRest
    <3> QED
      BY <1>0, <1>4, <1>6, <3>1 DEF Requests
  <2>2. \A d \in Conn : d > opened => wire'[d][Server] = << >>
    <3>1. \A d \in Conn : d > opened => d # c
      BY <1>3, Shape
    <3> QED
      BY <1>0, <1>4, <1>6, <3>1 DEF Requests
  <2>3. \A d \in Conn : Pending(d)' =>
          conn[Server] # d /\ wire'[d][Client] = << >> /\ d \notin handedOff'
    BY <1>0, <1>2, <1>4, <1>6, <1>13 DEF Requests
  <2>4. ~handshakeSent => "Control" \notin Types(Stream(Client)')
    BY <1>0, <1>10 DEF Requests
  <2>5. /\ conn[Client] = opened /\ ~isReconnecting[Server]
        /\ "Control" \notin Types(writer[Server].buf)
        /\ handshakeOk \/ ~isReconnecting[Client] => ~Pending(conn[Client])
    BY <1>0 DEF Requests
  <2>6. handshakeOk \/ ~isReconnecting[Client] => ~Pending(conn[Client])'
    BY <1>2, <1>4, <1>13, <2>5
  <2> QED
    BY <1>2, <1>10, <2>1, <2>2, <2>3, <2>4, <2>5, <2>6 DEF Requests
<1>15. Silent'
  <2>1. \A d \in Conn : d \in handedOff' \/ "Control" \in Types(wire'[d][Server]) =>
                          "Regular" \notin Types(wire'[d][Server])
    BY <1>0, <1>2, <1>4, <1>6, <1>7 DEF Silent
  <2> QED
    BY <1>0, <1>2, <1>10, <2>1 DEF Silent
<1>16. Pausing'
  <2>1. \A d \in handedOff' : conn[Server] # d /\ "Resume" \notin Types(wire'[d][Client])
    BY <1>0, <1>2, <1>3, <1>4, <1>6, <1>8 DEF Pausing
  <2>2. ASSUME conn[Client] \in handedOff', ~writer[Client].paused
        PROVE  ~handshakeOk /\ isReconnecting[Client] /\ PausedFirst(wire'[conn[Client]][Client])
    <3>1. CASE conn[Client] = c
      <4>1. PausedFirst(<< >>)
        BY DEF PausedFirst
      <4> QED
        BY <1>3, <1>5, <1>6, <3>1, <4>1
    <3>2. CASE conn[Client] # c
      BY <1>0, <1>2, <1>4, <1>6, <2>2, <3>2 DEF Pausing
    <3> QED
      BY <3>1, <3>2
  <2> QED
    BY <1>2, <2>1, <2>2 DEF Pausing
<1> QED
  BY <1>11, <1>12, <1>14, <1>15, <1>16 DEF GInv

\* The server's protocol moves to connection c.
LEMMA AcceptWires ==
  ASSUME Parts, GInv, NEW c \in Conn, c # conn[Server],
         NEW rest \in Seq(Message), NEW reply \in Seq(Message), NEW extra \in Seq(Message),
         AcceptReconnection(c, rest, reply, extra)
  PROVE  /\ \A d \in Conn, f \in Ends : d # c /\ d # conn[Server] => wire'[d][f] = wire[d][f]
         /\ wire'[conn[Server]][Server] = << >>
         /\ \/ wire'[conn[Server]][Client] = wire[conn[Server]][Client]
            \/ /\ ~broken[conn[Server]]
               /\ wire'[conn[Server]][Client] = Stream(Server)
         /\ wire'[c][Server] = rest
         /\ wire'[c][Client] = IF broken[c] THEN wire[c][Client]
                               ELSE wire[c][Client] \o reply
<1> DEFINE old == conn[Server]
           t == Transmit(wire, conn[Server], Server, Flushed(writer[Server]))
           l == LeaveSocket(wire, Server)
           u == Transmit(l, c, Server, reply)
<1>1. /\ Client \in Ends /\ Server \in Ends /\ Client # Server /\ Ends = {Client, Server}
      /\ Peer(Server) = Client /\ old \in Conn
      /\ wire \in [Conn -> [Ends -> Seq(Message)]]
  BY Shape, EndsFacts, ConstantsAssumption DEF Ends, Peer
<1>2. /\ t \in [Conn -> [Ends -> Seq(Message)]]
      /\ \A d \in Conn, f \in Ends : d # old \/ f # Client => t[d][f] = wire[d][f]
      /\ \/ t[old][Client] = wire[old][Client]
         \/ ~broken[old] /\ t[old][Client] = Stream(Server)
  <2>1. t = Transmit(wire, conn[Server], Server, Flushed(writer[Server]))
    OBVIOUS
  <2>3. Server \in Ends
    BY <1>1
  <2> HIDE DEF t
  <2>2. /\ t \in [Conn -> [Ends -> Seq(Message)]]
        /\ \A d \in Conn, f \in Ends : d # conn[Server] \/ f # Peer(Server) => t[d][f] = wire[d][f]
        /\ broken[conn[Server]] \/ writer[Server].paused =>
              t[conn[Server]][Peer(Server)] = wire[conn[Server]][Peer(Server)]
        /\ ~broken[conn[Server]] /\ ~writer[Server].paused =>
              t[conn[Server]][Peer(Server)] = Stream(Server)
    BY <2>1, <2>3, FlushShape, ZenonT(60)
  <2> QED
    BY <1>1, <2>2
<1>3. l = [t EXCEPT ![old][Server] = << >>]
  BY DEF LeaveSocket
<1> HIDE DEF t, l
<1>4. /\ l \in [Conn -> [Ends -> Seq(Message)]]
      /\ \A d \in Conn, f \in Ends : d # old => l[d][f] = wire[d][f]
      /\ l[old][Server] = << >> /\ l[old][Client] = t[old][Client]
  BY <1>1, <1>2, <1>3, EmptySeq
<1>5. /\ u \in [Conn -> [Ends -> Seq(Message)]]
      /\ \A d \in Conn, f \in Ends : d # c => u[d][f] = l[d][f]
      /\ u[c][Client] = IF broken[c] THEN wire[c][Client] ELSE wire[c][Client] \o reply
  <2>1. CASE broken[c]
    BY <1>1, <1>4, <2>1 DEF Transmit
  <2>2. CASE ~broken[c]
    <3> DEFINE r == wire[c][Client] \o reply
    <3>1. r \in Seq(Message)
      BY <1>1, ConcatProperties
    <3>2. u = [l EXCEPT ![c][Client] = r]
      BY <1>1, <1>4, <2>2 DEF Transmit
    <3> HIDE DEF r, u
    <3>3. u[c][Client] = r /\ u \in [Conn -> [Ends -> Seq(Message)]]
      BY <1>1, <1>4, <3>1, <3>2
    <3>4. \A d \in Conn, f \in Ends : d # c => u[d][f] = l[d][f]
      BY <1>1, <1>4, <3>2
    <3> QED
      BY <2>2, <3>3, <3>4 DEF r
  <2> QED
    BY <2>1, <2>2
<1>6. wire' = [u EXCEPT ![c][Server] = rest]
  BY DEF AcceptReconnection, l
<1> HIDE DEF u
<1>7. /\ wire'[c][Server] = rest /\ wire'[c][Client] = u[c][Client]
      /\ \A d \in Conn, f \in Ends : d # c => wire'[d][f] = l[d][f]
  BY <1>1, <1>4, <1>5, <1>6
<1>8. \A d \in Conn, f \in Ends : d # c /\ d # old => wire'[d][f] = wire[d][f]
  BY <1>4, <1>7
<1>9. wire'[old][Server] = << >> /\ wire'[old][Client] = t[old][Client]
  BY <1>1, <1>4, <1>7
<1>10. wire'[c][Client] = IF broken[c] THEN wire[c][Client] ELSE wire[c][Client] \o reply
  BY <1>5, <1>7
<1> QED
  BY <1>2, <1>7, <1>8, <1>9, <1>10

\* Accepting a reconnection on socket c, whoever does.
LEMMA GapAccept ==
  ASSUME Parts, Parts', GInv, NEW c \in Conn, NEW k \in 0 .. Len(wire[c][Server]),
         NEW reply \in Seq(Message), NEW extra \in Seq(Message),
         AcceptReconnection(c, After(wire[c][Server], k), reply, extra),
         handedOff' = handedOff \ {c}, c # conn[Server], c <= opened,
         Types(reply) \subseteq {"Control"}, Types(extra) \subseteq {"Resume"},
         "Regular" \notin Types(wire[c][Server]),
         "Control" \notin Types(After(wire[c][Server], k)),
         c = conn[Client] => /\ isReconnecting[Client] => handshakeSent
                             /\ "Control" \notin Types(writer[Client].buf)
  PROVE  GInv'
<1>0. NoReplay /\ Contiguous /\ Requests /\ Silent /\ Pausing
  BY DEF GInv
<1> DEFINE q == wire[c][Server]
           rest == After(q, k)
           old == conn[Server]
           again == ReconnectionMessages(Server)
           w == again \o extra
<1>1. /\ UNCHANGED <<isReconnecting, outgoingUnackMsg, outgoingMsgId, incomingMsgId,
                     opened, handshakeSent, handshakeOk>>
      /\ conn' = [conn EXCEPT ![Server] = c]
      /\ broken' = [broken EXCEPT ![old] = TRUE]
      /\ replayRequested' = [replayRequested EXCEPT ![Server] = FALSE]
      /\ writer' = [writer EXCEPT ![Server] = WriteAll(NewWriter, w)]
  BY DEF AcceptReconnection, outgoingVars
<1>2. /\ Client \in Ends /\ Server \in Ends /\ Client # Server /\ Ends = {Client, Server}
      /\ Peer(Client) = Server /\ Peer(Server) = Client
      /\ conn[Client] \in Conn /\ old \in Conn /\ handedOff \subseteq Conn
      /\ incomingMsgId[Client] \in Nat /\ incomingMsgId[Server] \in Nat
  BY Shape, EndsFacts, ConstantsAssumption DEF Ends, Peer, Parts, Fields
<1>3. /\ q \in Seq(Message) /\ rest \in Seq(Message) /\ Types(rest) \subseteq Types(q)
      /\ "Regular" \notin Types(rest)
  BY <1>2, Shape, AfterType, TypesOfPart
<1>4. /\ conn'[Client] = conn[Client] /\ conn'[Server] = c
      /\ writer'[Client] = writer[Client]
      /\ replayRequested'[Server] = FALSE /\ replayRequested'[Client] = replayRequested[Client]
      /\ \A d \in Conn : broken'[d] = IF d = old THEN TRUE ELSE broken[d]
  <2>1. /\ conn \in [Ends -> Conn] /\ replayRequested \in [Ends -> BOOLEAN]
        /\ broken \in [Conn -> BOOLEAN] /\ writer \in [Ends -> WriterOf(Message)]
    BY DEF Parts, Fields, Writers
  <2> HIDE DEF w
  <2> QED
    BY <1>1, <1>2, <2>1
<1>5. /\ again \in Seq(Message) /\ Types(again) \subseteq {"Regular", "Ack"}
      /\ \A s \in Seq(Message) :
           Gapless(s, incomingMsgId[Client]) =>
             /\ Gapless(s \o again, incomingMsgId[Client])
             /\ Reaches(s \o again, incomingMsgId[Client], outgoingMsgId[Server])
  <2>1. Gapless(<< >>, incomingMsgId[Client]) /\ << >> \in Seq(Message)
    BY EmptySeq, GaplessNoRegular, TypesOfFew
  <2> QED
    BY <1>0, <1>2, <2>1, ReconnectionStream
<1> HIDE DEF again
<1>6. w \in Seq(Message) /\ Types(w) \subseteq {"Regular", "Ack", "Resume"}
  BY <1>5, TypesConcat, ConcatProperties
<1>7. writer'[Server].buf = w
  <2>1. writer'[Server] = WriteAll(NewWriter, w)
    <3>1. writer \in [Ends -> WriterOf(Message)]
      BY Shape
    <3> HIDE DEF w
    <3> QED
      BY <1>1, <1>2, <3>1
  <2>2. << >> \o w = w
    BY <1>6, ConcatEmptySeq
  <2> HIDE DEF w
  <2> QED
    BY <2>1, <2>2 DEF WriteAll, NewWriter
<1>8. /\ \A d \in Conn, f \in Ends : d # c /\ d # old => wire'[d][f] = wire[d][f]
      /\ wire'[old][Server] = << >>
      /\ \/ wire'[old][Client] = wire[old][Client]
         \/ ~broken[old] /\ wire'[old][Client] = Stream(Server)
      /\ wire'[c][Server] = rest
      /\ wire'[c][Client] = IF broken[c] THEN wire[c][Client] ELSE wire[c][Client] \o reply
  BY <1>3, AcceptWires
<1> HIDE DEF rest, w
<1>9. \A type : type \in Types(Stream(Server)) =>
                  type \in Types(wire[old][Client]) \/ type \in Types(writer[Server].buf)
  <2>1. wire[old][Client] \in Seq(Message) /\ writer[Server].buf \in Seq(Message)
    BY <1>2, Shape
  <2>2. Stream(Server) = wire[old][Client] \o writer[Server].buf
    BY <1>2 DEF Stream
  <2>3. Types(Stream(Server)) = Types(wire[old][Client]) \cup Types(writer[Server].buf)
    BY <2>1, <2>2, TypesConcat
  <2> QED
    BY <2>3
<1>a. wire'[c][Client] \in Seq(Message) /\ Gapless(wire'[c][Client], incomingMsgId[Client])
  <2>1. wire[c][Client] \in Seq(Message) /\ wire[c][Client] \o reply \in Seq(Message)
    BY <1>2, Shape, ConcatProperties
  <2>2. Gapless(wire[c][Client], incomingMsgId[Client])
    BY <1>0, <1>2 DEF Contiguous
  <2>3. "Regular" \notin Types(reply)
    OBVIOUS
  <2>4. Gapless(wire[c][Client] \o reply, incomingMsgId[Client])
    BY <1>2, <2>1, <2>2, <2>3, GaplessConcatPlain
  <2> QED
    BY <1>8, <2>1, <2>2, <2>4
<1>10. \A type : type \in Types(wire'[c][Client]) =>
                   type \in Types(wire[c][Client]) \/ type = "Control"
  <2>1. wire[c][Client] \in Seq(Message)
    BY <1>2, Shape
  <2>2. Types(wire[c][Client] \o reply) = Types(wire[c][Client]) \cup Types(reply)
    BY <2>1, TypesConcat
  <2> QED
    BY <1>8, <2>2
<1>11. Stream(Server)' = wire'[c][Client] \o w
  BY <1>2, <1>4, <1>7 DEF Stream
<1>12. /\ Gapless(Stream(Server)', incomingMsgId[Client])
       /\ Reaches(Stream(Server)', incomingMsgId[Client], outgoingMsgId[Server])
  <2> DEFINE a == wire'[c][Client]
             s == a \o again
  <2>1. a \in Seq(Message) /\ Gapless(a, incomingMsgId[Client]) /\ Stream(Server)' = a \o w
    BY <1>a, <1>11
  <2> HIDE DEF a
  <2>2. /\ s \in Seq(Message) /\ Gapless(s, incomingMsgId[Client])
        /\ Reaches(s, incomingMsgId[Client], outgoingMsgId[Server])
    BY <1>5, <2>1, ConcatProperties
  <2>3. a \o w = s \o extra
    BY <1>5, <2>1, ConcatAssociative, SMTT(40) DEF w
  <2>4. "Regular" \notin Types(extra)
    OBVIOUS
  <2> HIDE DEF s
  <2>5. /\ Gapless(s \o extra, incomingMsgId[Client])
        /\ Reaches(s \o extra, incomingMsgId[Client], outgoingMsgId[Server])
    BY <1>2, <2>2, <2>4, GaplessConcatPlain
  <2> QED
    BY <2>1, <2>3, <2>5
<1>13. /\ Types(Stream(Client)') \subseteq Types(Stream(Client))
       /\ Once(Stream(Client)', "Control")
       /\ ~broken'[conn[Client]] =>
            /\ Gapless(Stream(Client)', incomingMsgId[Server])
            /\ ~isReconnecting[Client] =>
                 Reaches(Stream(Client)', incomingMsgId[Server], outgoingMsgId[Client])
  <2>1. CASE conn[Client] # old
    <3>1. conn[Client] = c \/ wire'[conn[Client]][Server] = wire[conn[Client]][Server]
      BY <1>2, <1>8, <2>1
    <3>2. broken'[conn[Client]] = broken[conn[Client]]
      BY <1>2, <1>4, <2>1
    <3> QED
      BY <1>4, <1>8, <3>1, <3>2, ClientStream DEF rest, q
  <2>2. CASE conn[Client] = old
    <3> DEFINE b == writer[Client].buf
               a == wire[old][Server]
    <3>1. a \in Seq(Message) /\ b \in Seq(Message)
      BY <1>2, Shape, SMTT(40)
    <3>2. Stream(Client) = a \o b /\ Stream(Client)' = << >> \o b
      BY <1>2, <1>4, <1>8, <2>2 DEF Stream
    <3>3. << >> \o b = b
      BY <3>1, ConcatEmptySeq
    <3> HIDE DEF a, b
    <3>4. Types(b) \subseteq Types(a \o b) /\ Once(b, "Control")
      <4>1. Once(a \o b, "Control")
        BY <1>0, <3>2 DEF Requests
      <4> QED
        BY <3>1, <4>1, TypesConcat, OnceSplit
    <3>5. broken'[conn[Client]]
      BY <1>2, <1>4, <2>2
    <3> QED
      BY <3>2, <3>3, <3>4, <3>5
  <2> QED
    BY <2>1, <2>2
<1>14. NoReplay'
  <2>1. \A d \in Conn, f \in Ends : "ReplayRequest" \notin Types(wire'[d][f])
    <3> TAKE d \in Conn, f \in Ends
    <3>1. CASE d = c /\ f = Server
      BY <1>0, <1>2, <1>3, <1>8, <3>1 DEF NoReplay
    <3>2. CASE d = c /\ f = Client
      BY <1>0, <1>2, <1>10, <3>2 DEF NoReplay
    <3>3. CASE d = old /\ f = Server
      BY <1>8, <3>3, TypesOfFew
    <3>4. CASE d = old /\ f = Client
      BY <1>0, <1>2, <1>8, <1>9, <3>4 DEF NoReplay
    <3>5. CASE d # c /\ d # old
      BY <1>0, <1>8, <3>5 DEF NoReplay
    <3> QED
      BY <1>2, <3>1, <3>2, <3>3, <3>4, <3>5
  <2>2. "ReplayRequest" \notin Types(writer'[Server].buf)
    BY <1>6, <1>7
  <2>3. \A f \in Ends : ~replayRequested'[f] /\ "ReplayRequest" \notin Types(writer'[f].buf)
    BY <1>0, <1>2, <1>4, <2>2 DEF NoReplay
  <2> QED
    BY <1>0, <1>1, <2>1, <2>3 DEF NoReplay
<1>15. Contiguous'
  <2>1. \A n : Gapless(<< >>, n)
    BY GaplessNoRegular, TypesOfFew
  <2>2. \A d \in Conn : Gapless(wire'[d][Server], incomingMsgId[Server])
    <3> TAKE d \in Conn
    <3>1. Gapless(wire[d][Server], incomingMsgId[Server])
      BY <1>0, <1>2 DEF Contiguous
    <3>2. Gapless(rest, incomingMsgId[Server])
      BY <1>3, GaplessNoRegular
    <3> QED
      BY <1>2, <1>8, <2>1, <3>1, <3>2
  <2>3. \A d \in Conn : Gapless(wire'[d][Client], incomingMsgId[Client])
    <3> TAKE d \in Conn
    <3>1. Gapless(wire[d][Client], incomingMsgId[Client])
      BY <1>0, <1>2 DEF Contiguous
    <3>2. ~broken[old] => Gapless(Stream(Server), incomingMsgId[Client])
      BY <1>0, <1>2 DEF Contiguous
    <3>3. CASE d = c
      BY <1>a, <3>3
    <3>4. CASE d = old
      BY <1>8, <3>1, <3>2, <3>4
    <3>5. CASE d # c /\ d # old
      BY <1>2, <1>8, <3>1, <3>5
    <3> QED
      BY <3>3, <3>4, <3>5
  <2>4. \A f \in Ends, d \in Conn : Gapless(wire'[d][Peer(f)], incomingMsgId'[Peer(f)])
    BY <1>1, <1>2, <2>2, <2>3
  <2>5. \A f \in Ends : ~broken'[conn'[f]] =>
          /\ Gapless(Stream(f)', incomingMsgId'[Peer(f)])
          /\ ~isReconnecting'[f] => Reaches(Stream(f)', incomingMsgId'[Peer(f)], outgoingMsgId'[f])
    <3> TAKE f \in Ends
    <3>1. CASE f = Client
      BY <1>1, <1>2, <1>4, <1>13, <3>1
    <3>2. CASE f = Server
      BY <1>1, <1>2, <1>12, <3>2
    <3> QED
      BY <1>2, <3>1, <3>2
  <2> QED
    BY <2>4, <2>5 DEF Contiguous
<1>16. \A d \in Conn : Pending(d)' => Pending(d) /\ d # c
  <2> TAKE d \in Conn
  <2>1. CASE d = c
    <3>1. "Control" \notin Types(wire'[c][Server])
      BY <1>8 DEF rest, q
    <3>2. ~(c > opened)
      BY Shape
    <3> QED
      BY <1>1, <1>4, <2>1, <3>1, <3>2 DEF Pending
  <2>2. CASE d = old /\ d # c
    <3>1. "Control" \notin Types(wire'[d][Server])
      BY <1>8, <2>2, TypesOfFew
    <3> QED
      BY <1>1, <1>4, <2>2, <3>1 DEF Pending
  <2>3. CASE d # c /\ d # old
    BY <1>1, <1>2, <1>4, <1>8, <2>3 DEF Pending
  <2> QED
    BY <2>1, <2>2, <2>3
<1>17. Requests'
  <2>1. \A d \in Conn : Once(wire'[d][Server], "Control")
    <3> TAKE d \in Conn
    <3>1. Once(<< >>, "Control")
      BY EmptySeq, OnceRest, TypesOfFew
    <3>2. Once(rest, "Control")
      <4>1. "Control" \notin Types(rest)
        BY DEF rest, q
      <4> QED
        BY <1>3, <4>1, OnceRest
    <3> QED
      BY <1>0, <1>2, <1>8, <3>1, <3>2 DEF Requests
  <2>2. \A d \in Conn : d > opened => wire'[d][Server] = << >>
    <3>1. \A d \in Conn : d > opened => d # c
      BY Shape
    <3> QED
      BY <1>0, <1>2, <1>8, <3>1 DEF Requests
  <2>3. \A d \in Conn : Pending(d)' =>
          conn'[Server] # d /\ wire'[d][Client] = << >> /\ d \notin handedOff'
    <3> SUFFICES ASSUME NEW d \in Conn, Pending(d)'
                 PROVE  conn'[Server] # d /\ wire'[d][Client] = << >> /\ d \notin handedOff'
      OBVIOUS
    <3>1. Pending(d) /\ d # c
      BY <1>16
    <3>2. old # d /\ wire[d][Client] = << >> /\ d \notin handedOff
      BY <1>0, <3>1 DEF Requests
    <3> QED
      BY <1>2, <1>4, <1>8, <3>1, <3>2
  <2>4. ~handshakeSent => "Control" \notin Types(Stream(Client)')
    BY <1>0, <1>13 DEF Requests
  <2>5. /\ conn[Client] = opened /\ ~isReconnecting[Server]
        /\ handshakeOk \/ ~isReconnecting[Client] => ~Pending(conn[Client])
    BY <1>0 DEF Requests
  <2>6. handshakeOk \/ ~isReconnecting[Client] => ~Pending(conn[Client])'
    BY <1>2, <1>4, <1>16, <2>5
  <2>7. "Control" \notin Types(writer'[Server].buf)
    BY <1>6, <1>7
  <2> QED
    BY <1>1, <1>4, <1>13, <2>1, <2>2, <2>3, <2>4, <2>5, <2>6, <2>7 DEF Requests
<1>18. Silent'
  <2>1. \A d \in Conn : d \in handedOff' \/ "Control" \in Types(wire'[d][Server]) =>
                          "Regular" \notin Types(wire'[d][Server])
    <3> SUFFICES ASSUME NEW d \in Conn, d \in handedOff' \/ "Control" \in Types(wire'[d][Server])
                 PROVE  "Regular" \notin Types(wire'[d][Server])
      OBVIOUS
    <3>1. CASE d = c
      BY <1>3, <1>8, <3>1
    <3>2. CASE d = old
      BY <1>8, <3>2, TypesOfFew
    <3>3. CASE d # c /\ d # old
      BY <1>0, <1>2, <1>8, <3>3 DEF Silent
    <3> QED
      BY <3>1, <3>2, <3>3
  <2> QED
    BY <1>0, <1>1, <1>13, <2>1 DEF Silent
<1>19. Pausing'
  <2>1. \A d \in handedOff' : d \in handedOff /\ d # c /\ d # old /\ wire'[d][Client] = wire[d][Client]
    BY <1>0, <1>2, <1>8 DEF Pausing
  <2> QED
    BY <1>0, <1>1, <1>4, <2>1 DEF Pausing
<1> QED
  BY <1>14, <1>15, <1>17, <1>18, <1>19 DEF GInv

\* ServerAccept makes no gap.
LEMMA GapServerAccept ==
  ASSUME Parts, Parts', GInv, NEW c \in Conn, ServerAccept(c)
  PROVE  GInv'
<1>1. PICK i \in 1 .. Len(wire[c][Server]) :
        /\ IsRequest(c, i)
        /\ AcceptReconnection(c, After(wire[c][Server], i), <<Plain("Control", 0)>>, << >>)
  BY DEF ServerAccept
<1>2. /\ c <= opened /\ conn[Server] # c /\ c \notin handedOff
      /\ "Regular" \notin Types(wire[c][Server])
      /\ "Control" \notin Types(After(wire[c][Server], i))
      /\ c = conn[Client] => handshakeSent /\ "Control" \notin Types(writer[Client].buf)
  BY <1>1, RequestRead
<1>3. handedOff' = handedOff \ {c}
  BY <1>2 DEF ServerAccept
<1>4. /\ <<Plain("Control", 0)>> \in Seq(Message) /\ << >> \in Seq(Message)
      /\ Types(<<Plain("Control", 0)>>) \subseteq {"Control"} /\ Types(<< >>) \subseteq {"Resume"}
  <2>1. Plain("Control", 0) \in Message
    BY PlainType DEF MessageType
  <2> QED
    BY <2>1, TypesOfFew, EmptySeq
<1>5. i \in 0 .. Len(wire[c][Server])
  <2>1. Len(wire[c][Server]) \in Nat
    BY Shape, EndsFacts, LenProperties
  <2> QED
    BY <2>1
<1> QED
  BY <1>1, <1>2, <1>3, <1>4, <1>5, GapAccept

\* ServerTakeHandedOff makes no gap.
LEMMA GapServerTakeHandedOff ==
  ASSUME Parts, Parts', GInv, NEW c \in Conn, ServerTakeHandedOff(c)
  PROVE  GInv'
<1>0. Requests /\ Silent /\ Pausing
  BY DEF GInv
<1>1. PICK k \in 0 .. Len(wire[c][Server]) :
        AcceptReconnection(c, After(wire[c][Server], k), << >>, <<Plain("Resume", 0)>>)
  BY DEF ServerTakeHandedOff
<1>2. c \in handedOff /\ handedOff' = handedOff \ {c}
  BY DEF ServerTakeHandedOff
<1>3. ~Pending(c) /\ conn[Server] # c /\ "Regular" \notin Types(wire[c][Server])
  BY <1>0, <1>2 DEF Requests, Silent, Pausing
<1>4. /\ "Control" \notin Types(wire[c][Server]) /\ ~(c > opened)
      /\ c = conn[Client] => /\ isReconnecting[Client] => handshakeSent
                             /\ "Control" \notin Types(writer[Client].buf)
  BY <1>3 DEF Pending
<1>5. c <= opened
  BY <1>4, Shape
<1>6. "Control" \notin Types(After(wire[c][Server], k))
  BY <1>4, Shape, EndsFacts, TypesOfPart
<1>7. /\ <<Plain("Resume", 0)>> \in Seq(Message) /\ << >> \in Seq(Message)
      /\ Types(<<Plain("Resume", 0)>>) \subseteq {"Resume"} /\ Types(<< >>) \subseteq {"Control"}
  <2>1. Plain("Resume", 0) \in Message
    BY PlainType DEF MessageType
  <2> QED
    BY <2>1, TypesOfFew, EmptySeq
<1> QED
  BY <1>1, <1>2, <1>3, <1>4, <1>5, <1>6, <1>7, GapAccept

\* A step that at most writes an Ack or a KeepAlive keeps the invariant.
LEMMA OnlyWrites ==
  ASSUME Parts, Parts', GInv, NEW e \in Ends,
         UNCHANGED <<wire, conn, opened, isReconnecting, incomingMsgId, outgoingMsgId,
                     outgoingUnackMsg, handshakeSent, handshakeOk, handedOff,
                     replayRequested, broken>>,
         \/ UNCHANGED writer
         \/ \E type \in {"Ack", "KeepAlive"}, ack \in Nat :
              writer' = [writer EXCEPT ![e] = WriteAll(@, <<Plain(type, ack)>>)]
  PROVE  GInv'
<1>1. \A f \in Ends : writer[f].buf \in Seq(Message) /\ writer[f].buf = writer[f].buf \o << >>
  BY Shape, ConcatEmptySeq
<1>2. << >> \in Seq(Message) /\ Types(<< >>) \subseteq {"Ack", "KeepAlive"}
  BY EmptySeq, TypesOfFew
<1>3. CASE UNCHANGED writer
  BY <1>1, <1>2, <1>3, OnlyWritesStep
<1>4. ASSUME NEW type \in {"Ack", "KeepAlive"}, NEW ack \in Nat,
             writer' = [writer EXCEPT ![e] = WriteAll(@, <<Plain(type, ack)>>)]
      PROVE  GInv'
  <2> DEFINE r == <<Plain(type, ack)>>
  <2>1. r \in Seq(Message) /\ Types(r) \subseteq {"Ack", "KeepAlive"}
    BY PlainType, TypesOfFew DEF MessageType
  <2>4. writer' = [writer EXCEPT ![e] = WriteAll(@, r)]
    BY <1>4
  <2> HIDE DEF r
  <2>2. /\ \A f \in Ends : writer'[f].paused = writer[f].paused
        /\ \A f \in Ends \ {e} : writer'[f].buf = writer[f].buf
        /\ writer'[e].buf = writer[e].buf \o r
    <3>1. /\ \A f \in Ends \ {e} : writer'[f] = writer[f]
          /\ writer'[e] = WriteAll(writer[e], r)
      BY <2>4, Shape
    <3>2. writer'[e].paused = writer[e].paused /\ writer'[e].buf = writer[e].buf \o r
      <4>1. writer[e] \in WriterOf(Message)
        BY Shape
      <4> DEFINE w == writer[e]
      <4> HIDE DEF w
      <4>2. w \in WriterOf(Message) => /\ WriteAll(w, r).paused = w.paused
                                       /\ WriteAll(w, r).buf = w.buf \o r
        BY DEF WriterOf, WriteAll
      <4> QED
        BY <3>1, <4>1, <4>2 DEF w
    <3> QED
      BY <3>1, <3>2
  <2>3. \A f \in Ends : \E x \in Seq(Message) :
          Types(x) \subseteq {"Ack", "KeepAlive"} /\ writer'[f].buf = writer[f].buf \o x
    BY <1>1, <1>2, <2>1, <2>2
  <2> QED
    BY <2>2, <2>3, OnlyWritesStep
<1> QED
  BY <1>3, <1>4

\* Every step keeps it, on sockets that lose nothing before they break.
LEMMA StepGInv == MaxLoss = 0 /\ Parts /\ Parts' /\ GInv /\ [Next]_vars => GInv'
<1> SUFFICES ASSUME MaxLoss = 0, Parts, Parts', GInv, [Next]_vars
             PROVE  GInv'
  OBVIOUS
<1>1. CASE UNCHANGED vars
  <2>1. Client \in Ends
    BY EndsFacts
  <2> QED
    BY <1>1, <2>1, OnlyWrites DEF vars
<1>2. ASSUME NEW e \in Ends, Send(e) PROVE GInv'
  BY <1>2, GapSend
<1>3. ASSUME NEW e \in Ends, WriteTimeout(e) PROVE GInv'
  BY <1>3, GapWriteTimeout
<1>4. ASSUME NEW e \in Ends, IncomingAckTimeout(e) PROVE GInv'
  <2>1. incomingMsgId[e] \in Nat /\ "Ack" \in {"Ack", "KeepAlive"}
    BY Shape
  <2> QED
    BY <1>4, <2>1, OnlyWrites DEF IncomingAckTimeout, outgoingVars, socketVars, handshakeVars
<1>5. ASSUME NEW e \in Ends, OutgoingAckTimeout(e) PROVE GInv'
  BY <1>5, OnlyWrites DEF OutgoingAckTimeout, outgoingVars, incomingVars, socketVars, handshakeVars
<1>6. ASSUME NEW e \in Ends, SendKeepAlive(e) PROVE GInv'
  <2>1. incomingMsgId[e] \in Nat /\ "KeepAlive" \in {"Ack", "KeepAlive"}
    BY Shape
  <2> QED
    BY <1>6, <2>1, OnlyWrites DEF SendKeepAlive, outgoingVars, incomingVars, socketVars, handshakeVars
<1>7. ASSUME NEW e \in Ends, ReplayWindowEnds(e) PROVE GInv'
  BY <1>7, NoReplayAction
<1>8. ASSUME NEW e \in Ends, Receive(e) PROVE GInv'
  BY <1>8, NoReplayAction, GapReceiveRegular, GapReceiveOther DEF Receive
<1>9. ASSUME ClientBeginReconnection PROVE GInv'
  BY <1>9, GapClientBeginReconnection
<1>10. ASSUME ClientSendHandshake PROVE GInv'
  BY <1>10, GapClientSendHandshake
<1>11. ASSUME ClientEndReconnection PROVE GInv'
  BY <1>11, GapClientEndReconnection
<1>12. ASSUME NEW c \in Conn, ServerAccept(c) PROVE GInv'
  BY <1>12, GapServerAccept
<1>13. ASSUME NEW c \in Conn, ServerHandOff(c) PROVE GInv'
  BY <1>13, GapServerHandOff
<1>14. ASSUME NEW c \in Conn, ServerTakeHandedOff(c) PROVE GInv'
  BY <1>14, GapServerTakeHandedOff
<1>15. ASSUME NEW c \in Conn, Break(c) PROVE GInv'
  <2>1. /\ UNCHANGED <<wire, conn, opened, isReconnecting, incomingMsgId, outgoingMsgId,
                       outgoingUnackMsg, handshakeSent, handshakeOk, handedOff,
                       replayRequested, writer>>
        /\ broken' = [broken EXCEPT ![c] = TRUE]
    BY <1>15 DEF Break, protocolVars, handshakeVars
  <2>2. \A d \in Conn : broken[d] => broken'[d]
    BY <2>1 DEF Parts, Fields
  <2>3. \A f \in Ends : \E r \in Seq(Message) :
          Types(r) \subseteq {"Ack", "KeepAlive"} /\ writer'[f].buf = writer[f].buf \o r
    <3>1. << >> \in Seq(Message) /\ Types(<< >>) \subseteq {"Ack", "KeepAlive"}
      BY EmptySeq, TypesOfFew
    <3>2. \A f \in Ends : writer[f].buf = writer[f].buf \o << >>
      BY Shape, ConcatEmptySeq
    <3> QED
      BY <2>1, <3>1, <3>2
  <2> QED
    BY <2>1, <2>2, <2>3, OnlyWritesStep
<1>16. ASSUME NEW c \in Conn, NEW e \in Ends, LoseTail(c, e) PROVE GInv'
  BY <1>16, GapLoseTail
<1>17. ASSUME NEW c \in Conn, NEW e \in Ends, LoseAny(c, e) PROVE GInv'
  <2>1. losses \in Nat /\ losses < 0
    BY <1>17 DEF LoseAny, Parts, Fields
  <2> QED
    BY <2>1
<1> QED
  BY <1>1, <1>2, <1>3, <1>4, <1>5, <1>6, <1>7, <1>8, <1>9, <1>10, <1>11, <1>12, <1>13,
     <1>14, <1>15, <1>16, <1>17 DEF Next

\* The head of a stream without gaps is the next message or an old one.
LEMMA GInvNoGap == Parts /\ GInv => NoGap
<1> SUFFICES ASSUME Parts, GInv, NEW e \in Ends
             PROVE  /\ ~replayRequested[e]
                    /\ \A m \in {Head(q) : q \in {Incoming(e)} \ {<< >>}} :
                         m.type = "Regular" => m.id <= incomingMsgId[e] + 1
  BY DEF NoGap
<1>1. ~replayRequested[e]
  BY DEF GInv, NoReplay
<1>2. ASSUME Incoming(e) # << >>, Head(Incoming(e)).type = "Regular"
      PROVE  Head(Incoming(e)).id <= incomingMsgId[e] + 1
  <2> DEFINE q == Incoming(e)
             n == incomingMsgId[e]
  <2>1. q \in Seq(Message) /\ n \in Nat /\ Gapless(q, n)
    BY Shape, EndsFacts DEF GInv, Contiguous, Incoming
  <2>2. Len(q) \in Nat /\ Len(q) # 0 /\ Head(q) = q[1]
    BY <1>2, <2>1, EmptySeq
  <2>3. 1 \in 1 .. Len(q) /\ 1 - 1 = 0
    BY <2>2
  <2> HIDE DEF q, n
  <2>4. Head(q).type = "Regular" => Head(q).id <= n + 1
    BY <2>1, <2>2, <2>3 DEF Gapless
  <2> QED
    BY <1>2, <2>4 DEF q, n
<1> QED
  BY <1>1, <1>2

(***************************************************************************)
(* If sockets lose nothing before they break, no reader meets a gap.       *)
(***************************************************************************)
THEOREM NoGapCorrect == MaxLoss = 0 => (Spec => []NoGap)
<1> SUFFICES ASSUME MaxLoss = 0 PROVE Spec => []NoGap
  OBVIOUS
<1>1. Init => Parts /\ GInv
  BY InitParts, GInvInit
<1>2. Parts /\ GInv /\ [Next]_vars => (Parts /\ GInv)'
  BY StepParts, StepGInv
<1>3. Parts /\ GInv => NoGap
  BY GInvNoGap
<1> QED
  BY <1>1, <1>2, <1>3, PTL DEF Spec
=============================================================================
