------------------- MODULE ExtensionHostConnection_proofs -------------------
(***************************************************************************)
(* Proofs of the safety properties of ExtensionHostConnection.             *)
(***************************************************************************)
EXTENDS ExtensionHostConnection, SequenceTheorems, TLAPS

(***************************************************************************)
(* The inductive invariant.                                                *)
(***************************************************************************)
\* start() runs once, for the first socket, and the process, its READY message
\* and what is sent to it come after one another.
StartedOnce ==
  /\ start = "no" <=> request[1] # "done"
  /\ start = "no" =>
       /\ ~registered
       /\ connectionData = NoSocket
       /\ \A n \in Socket : request[n] = "done" => life[n] = "ended"
  /\ start \in {"no", "preparing", "failed"} <=> process = "none"
  /\ process = "none" => draining = {} /\ toProcess = <<>> /\ current = NoSocket
  /\ process \in {"none", "starting"} => ready = "none"

\* What the client has not opened yet is untouched.
Unopened ==
  \A n \in Socket : n > client => life[n] = "unused" /\ request[n] = "none"

\* A held socket has been accepted.
HeldIsAccepted ==
  \A n \in {connectionData, current} \cup draining \cup OnChannel :
    n # NoSocket => request[n] = "done"

\* A message names a socket if it is to carry one, and has no handle only if
\* the socket has ended.
MessageMatches(m) ==
  /\ m.type = "socket" <=> m.socket # NoSocket
  /\ m.type = "socket" /\ ~m.handle => life[m.socket] = "ended"

MessagesMatch == \A i \in DOMAIN toProcess : MessageMatches(toProcess[i])

\* Until READY is handled, a connection in the table has a socket.
WaitingSocket == registered /\ ready # "handled" => connectionData # NoSocket

IInv ==
  /\ TypeOK
  /\ StartedOnce
  /\ Unopened
  /\ HeldIsAccepted
  /\ MessagesMatch
  /\ OneOwner
  /\ WaitingSocket
  /\ GraceOnlyWhenDisconnected
  /\ NoSocketForgotten

(***************************************************************************)
(* Sequences of messages.                                                  *)
(***************************************************************************)
LEMMA AppendSockets ==
  ASSUME NEW q \in Seq(Message), NEW m \in Message
  PROVE  SocketsOf(Append(q, m)) = SocketsOf(q) \cup ({m.socket} \ {NoSocket})
<1>1. DOMAIN Append(q, m) = DOMAIN q \cup {Len(q) + 1}
  OBVIOUS
<1>2. \A i \in DOMAIN q : Append(q, m)[i] = q[i]
  OBVIOUS
<1>3. Append(q, m)[Len(q) + 1] = m
  OBVIOUS
<1> QED
  BY <1>1, <1>2, <1>3 DEF SocketsOf

LEMMA AppendSentOnce ==
  ASSUME NEW q \in Seq(Message), NEW m \in Message,
         SentOnce(q),
         \A i \in DOMAIN q : q[i].type = "socket" <=> q[i].socket # NoSocket,
         m.type = "socket" <=> m.socket # NoSocket,
         m.socket \notin SocketsOf(q)
  PROVE  SentOnce(Append(q, m))
<1>1. DOMAIN Append(q, m) = DOMAIN q \cup {Len(q) + 1}
  OBVIOUS
<1>2. \A i \in DOMAIN q : Append(q, m)[i] = q[i]
  OBVIOUS
<1>3. Append(q, m)[Len(q) + 1] = m
  OBVIOUS
<1>4. \A i \in DOMAIN q : q[i].socket = m.socket => m.socket = NoSocket
  BY DEF SocketsOf
<1> QED
  BY <1>1, <1>2, <1>3, <1>4 DEF SentOnce

LEMMA AppendElements ==
  ASSUME NEW q \in Seq(Message), NEW m \in Message
  PROVE  \A i \in DOMAIN Append(q, m) :
           \/ i \in DOMAIN q /\ Append(q, m)[i] = q[i]
           \/ Append(q, m)[i] = m
OBVIOUS

LEMMA TailElements ==
  ASSUME NEW q \in Seq(Message), q # <<>>
  PROVE  /\ Tail(q) \in Seq(Message)
         /\ Head(q) \in Message
         /\ 1 \in DOMAIN q
         /\ Head(q) = q[1]
         /\ \A i \in DOMAIN Tail(q) : i + 1 \in DOMAIN q /\ Tail(q)[i] = q[i + 1]
         /\ \A i \in DOMAIN q : i = 1 \/ (i - 1 \in DOMAIN Tail(q) /\ Tail(q)[i - 1] = q[i])
OBVIOUS

LEMMA TailSockets ==
  ASSUME NEW q \in Seq(Message), q # <<>>
  PROVE  /\ SocketsOf(Tail(q)) \subseteq SocketsOf(q)
         /\ SocketsOf(q) \subseteq SocketsOf(Tail(q)) \cup {Head(q).socket}
         /\ Head(q).socket \in SocketsOf(q) \cup {NoSocket}
<1>1. SocketsOf(Tail(q)) \subseteq SocketsOf(q)
  BY TailElements DEF SocketsOf
<1>2. ASSUME NEW n \in SocketsOf(q), n # Head(q).socket
      PROVE  n \in SocketsOf(Tail(q))
  <2>1. PICK i \in DOMAIN q : q[i].socket = n /\ n # NoSocket
    BY DEF SocketsOf
  <2>2. i - 1 \in DOMAIN Tail(q) /\ Tail(q)[i - 1].socket = n
    BY <1>2, <2>1, TailElements
  <2> QED
    BY <2>1, <2>2 DEF SocketsOf
<1>3. Head(q).socket \in SocketsOf(q) \cup {NoSocket}
  BY TailElements DEF SocketsOf
<1> QED
  BY <1>1, <1>2, <1>3

LEMMA TailSentOnce ==
  ASSUME NEW q \in Seq(Message), q # <<>>, SentOnce(q)
  PROVE  /\ SentOnce(Tail(q))
         /\ Head(q).type = "socket" => Head(q).socket \notin SocketsOf(Tail(q))
<1>1. \A i \in DOMAIN Tail(q) : i \in Nat
  OBVIOUS
<1>2. SentOnce(Tail(q))
  BY <1>1, TailElements DEF SentOnce
<1>3. ASSUME Head(q).type = "socket", Head(q).socket \in SocketsOf(Tail(q))
      PROVE  FALSE
  <2>1. PICK i \in DOMAIN Tail(q) : Tail(q)[i].socket = Head(q).socket
    BY <1>3 DEF SocketsOf
  <2>2. /\ i + 1 \in DOMAIN q /\ q[i + 1].socket = q[1].socket
        /\ 1 \in DOMAIN q /\ q[1].type = "socket"
    BY <1>3, <2>1, TailElements
  <2> QED
    BY <1>1, <2>1, <2>2 DEF SentOnce
<1> QED
  BY <1>2, <1>3

(***************************************************************************)
(* Each action preserves the invariant.                                    *)
(***************************************************************************)
LEMMA ClientOpenInvariant ==
  ASSUME IInv, ClientOpen
  PROVE  IInv'
<1> USE ConstantsAssumption DEF Socket, NoSocket, ClientOpen, clientVars, bounds,
                                serverVars, processVars, IInv
<1>1. client' \in Socket /\ life[client'] = "unused" /\ request[client'] = "none"
  BY DEF TypeOK, Unopened
<1>2. TypeOK'
  BY <1>1 DEF TypeOK
<1>3. StartedOnce'
  BY <1>1 DEF TypeOK, StartedOnce
<1>4. Unopened'
  BY <1>1 DEF TypeOK, Unopened
<1>5. HeldIsAccepted'
  BY <1>1 DEF TypeOK, HeldIsAccepted, OnChannel, SocketsOf
<1>6. MessagesMatch'
  BY <1>1 DEF TypeOK, MessagesMatch, MessageMatches, Message
<1>7. OneOwner'
  BY DEF OneOwner, OnChannel, SocketsOf
<1>8. WaitingSocket'
  BY DEF WaitingSocket
<1>9. GraceOnlyWhenDisconnected'
  BY <1>1 DEF TypeOK, GraceOnlyWhenDisconnected
<1>10. NoSocketForgotten'
  BY <1>1 DEF TypeOK, NoSocketForgotten, Held, OnChannel, SocketsOf
<1> QED
  BY <1>2, <1>3, <1>4, <1>5, <1>6, <1>7, <1>8, <1>9, <1>10

LEMMA HeldAreSockets ==
  ASSUME TypeOK
  PROVE  \A n \in {connectionData, current} \cup draining \cup OnChannel :
           n # NoSocket => n \in Socket
<1>1. \A i \in DOMAIN toProcess : toProcess[i] \in Message
  BY DEF TypeOK
<1>2. \A m \in Message : m.socket \in Socket \cup {NoSocket}
  BY DEF Message
<1> QED
  BY <1>1, <1>2 DEF TypeOK, OnChannel, SocketsOf

\* A step of the client or of the network that opens no socket.
LEMMA ClientStepInvariant ==
  ASSUME IInv, TypeOK',
         \A n \in Socket :
           \/ life'[n] = life[n]
           \/ life[n] \notin {"unused", "ended"} /\ life'[n] \notin {"unused", "open"},
         UNCHANGED <<client, request, serverVars, toProcess, ready, processVars>>
  PROVE  IInv'
<1> USE DEF serverVars, processVars, IInv
<1>1. StartedOnce'
  BY DEF TypeOK, StartedOnce
<1>2. \A n \in Socket : life'[n] = "unused" => life[n] = "unused"
  BY DEF TypeOK
<1>3. Unopened'
  BY DEF TypeOK, Unopened
<1>4. HeldIsAccepted'
  BY DEF HeldIsAccepted, OnChannel, SocketsOf
<1>5. MessagesMatch'
  <2> SUFFICES ASSUME NEW i \in DOMAIN toProcess
               PROVE  MessageMatches(toProcess[i])'
    BY DEF MessagesMatch
  <2>1. toProcess[i] \in Message /\ MessageMatches(toProcess[i])
    BY DEF TypeOK, MessagesMatch
  <2>2. toProcess[i].type = "socket" => toProcess[i].socket \in Socket
    BY <2>1 DEF MessageMatches, Message
  <2> QED
    BY <2>1, <2>2 DEF MessageMatches
<1>6. OneOwner'
  BY DEF OneOwner, OnChannel, SocketsOf
<1>7. WaitingSocket'
  BY DEF WaitingSocket
<1>8. GraceOnlyWhenDisconnected'
  BY DEF TypeOK, GraceOnlyWhenDisconnected
<1>9. NoSocketForgotten'
  BY DEF TypeOK, NoSocketForgotten, Held, OnChannel, SocketsOf
<1> QED
  BY <1>1, <1>3, <1>4, <1>5, <1>6, <1>7, <1>8, <1>9

LEMMA ClientAnsweredInvariant == IInv /\ ClientAnswered => IInv'
<1> SUFFICES ASSUME IInv, ClientAnswered PROVE IInv'
  OBVIOUS
<1>1. TypeOK'
  BY DEF IInv, TypeOK, ClientAnswered, serverVars, processVars, bounds
<1> QED
  BY <1>1, ClientStepInvariant DEF ClientAnswered

LEMMA ClientTriesAnotherInvariant == IInv /\ ClientTriesAnother => IInv'
<1> SUFFICES ASSUME IInv, ClientTriesAnother PROVE IInv'
  OBVIOUS
<1>1. TypeOK'
  BY DEF IInv, TypeOK, ClientTriesAnother, serverVars, processVars, bounds
<1> QED
  BY <1>1, ClientStepInvariant DEF ClientTriesAnother

LEMMA ClientGivesUpInvariant == IInv /\ ClientGivesUp => IInv'
<1> SUFFICES ASSUME IInv, ClientGivesUp PROVE IInv'
  OBVIOUS
<1>1. TypeOK'
  BY DEF IInv, TypeOK, ClientGivesUp, serverVars, processVars, bounds
<1> QED
  BY <1>1, ClientStepInvariant DEF ClientGivesUp

LEMMA ClientLeavesInvariant == IInv /\ ClientLeaves => IInv'
<1> SUFFICES ASSUME IInv, ClientLeaves PROVE IInv'
  OBVIOUS
<1>1. TypeOK'
  <2>1. life' \in [Socket -> {"unused", "open", "bye", "gone", "ended"}]
    BY DEF IInv, TypeOK, ClientLeaves
  <2> QED
    BY <2>1 DEF IInv, TypeOK, ClientLeaves, serverVars, processVars, bounds
<1>2. \A n \in Socket : \/ life'[n] = life[n]
                        \/ life[n] = "open" /\ life'[n] = "bye"
  <2>1. /\ life \in [Socket -> {"unused", "open", "bye", "gone", "ended"}]
        /\ life[client] = "open" /\ life' = [life EXCEPT ![client] = "bye"]
    BY DEF IInv, TypeOK, ClientLeaves
  <2> QED
    BY <2>1
<1> QED
  BY <1>1, <1>2, ClientStepInvariant DEF ClientLeaves

LEMMA ClientTimeoutInvariant == IInv /\ ClientTimeout => IInv'
<1> SUFFICES ASSUME IInv, ClientTimeout PROVE IInv'
  OBVIOUS
<1>1. TypeOK'
  <2>1. life' \in [Socket -> {"unused", "open", "bye", "gone", "ended"}]
    BY DEF IInv, TypeOK, ClientTimeout
  <2> QED
    BY <2>1 DEF IInv, TypeOK, ClientTimeout, clientVars, serverVars, processVars, bounds
<1>2. \A n \in Socket : \/ life'[n] = life[n]
                        \/ life[n] = "open" /\ life'[n] = "gone"
  <2>1. /\ life \in [Socket -> {"unused", "open", "bye", "gone", "ended"}]
        /\ life[client] = "open" /\ life' = [life EXCEPT ![client] = "gone"]
    BY DEF IInv, TypeOK, ClientTimeout
  <2> QED
    BY <2>1
<1> QED
  BY <1>1, <1>2, ClientStepInvariant DEF ClientTimeout, clientVars

LEMMA SocketBreaksInvariant ==
  ASSUME NEW n \in Socket
  PROVE  IInv /\ SocketBreaks(n) => IInv'
<1> SUFFICES ASSUME IInv, SocketBreaks(n) PROVE IInv'
  OBVIOUS
<1>1. TypeOK'
  BY ConstantsAssumption DEF IInv, TypeOK, SocketBreaks, serverVars, processVars
<1>2. \A m \in Socket : \/ life'[m] = life[m]
                        \/ life[m] = "open" /\ life'[m] \in {"gone", "ended"}
  BY DEF IInv, TypeOK, SocketBreaks
<1> QED
  BY <1>1, <1>2, ClientStepInvariant DEF SocketBreaks

LEMMA SocketEndsInvariant ==
  ASSUME NEW n \in Socket
  PROVE  IInv /\ SocketEnds(n) => IInv'
<1> SUFFICES ASSUME IInv, SocketEnds(n) PROVE IInv'
  OBVIOUS
<1>1. TypeOK'
  BY DEF IInv, TypeOK, SocketEnds, clientVars, serverVars, processVars, bounds
<1>2. \A m \in Socket : \/ life'[m] = life[m]
                        \/ life[m] \in {"gone", "bye"} /\ life'[m] = "ended"
  BY DEF IInv, TypeOK, SocketEnds
<1> QED
  BY <1>1, <1>2, ClientStepInvariant DEF SocketEnds, clientVars

\* ReduceGraceTime is sent or not.
LEMMA ShortenInvariant ==
  ASSUME IInv, TypeOK', ShortenReconnectionGraceTime,
         UNCHANGED <<client, clientState, life, serverVars, ready, processVars>>,
         \A n \in Socket : \/ request'[n] = request[n]
                           \/ request[n] = "sent" /\ request'[n] = "accepted"
  PROVE  IInv'
<1> USE DEF serverVars, processVars, IInv
<1>1. ReduceGraceTime \in Message
  BY DEF ReduceGraceTime, Message, NoSocket
<1>2. toProcess' = toProcess \/ toProcess' = Append(toProcess, ReduceGraceTime)
  BY DEF ShortenReconnectionGraceTime
<1>3. OnChannel' = OnChannel
  <2>1. SocketsOf(Append(toProcess, ReduceGraceTime)) = SocketsOf(toProcess)
    <3>1. SocketsOf(Append(toProcess, ReduceGraceTime))
            = SocketsOf(toProcess) \cup ({ReduceGraceTime.socket} \ {NoSocket})
      BY <1>1, AppendSockets DEF TypeOK
    <3> QED
      BY <3>1 DEF ReduceGraceTime
  <2> QED
    BY <1>2, <2>1 DEF OnChannel
<1>4. 1 \in Socket
  BY ConstantsAssumption DEF Socket
<1>5. StartedOnce'
  BY <1>4 DEF TypeOK, StartedOnce, ShortenReconnectionGraceTime, Alive
<1>6. Unopened'
  BY DEF TypeOK, Unopened
<1>7. HeldIsAccepted'
  BY <1>3, HeldAreSockets DEF HeldIsAccepted, TypeOK
<1>8. MessageMatches(ReduceGraceTime)
  BY DEF MessageMatches, ReduceGraceTime, NoSocket
<1>9. MessagesMatch'
  <2>1. CASE toProcess' = toProcess
    BY <2>1 DEF MessagesMatch, MessageMatches
  <2>2. CASE toProcess' = Append(toProcess, ReduceGraceTime)
    <3>1. \A i \in DOMAIN toProcess' :
            \/ i \in DOMAIN toProcess /\ toProcess'[i] = toProcess[i]
            \/ toProcess'[i] = ReduceGraceTime
      BY <1>1, <2>2, AppendElements DEF TypeOK
    <3>2. MessageMatches(ReduceGraceTime)'
      BY DEF MessageMatches, ReduceGraceTime, NoSocket
    <3> QED
      BY <3>1, <3>2 DEF MessagesMatch, MessageMatches
  <2> QED
    BY <1>2, <2>1, <2>2
<1>10. SentOnce(toProcess')
  <2>1. ReduceGraceTime.socket \notin SocketsOf(toProcess)
    BY DEF SocketsOf, ReduceGraceTime
  <2>2. /\ SentOnce(toProcess)
        /\ \A i \in DOMAIN toProcess :
             toProcess[i].type = "socket" <=> toProcess[i].socket # NoSocket
        /\ ReduceGraceTime.type = "socket" <=> ReduceGraceTime.socket # NoSocket
    BY <1>8 DEF OneOwner, MessagesMatch, MessageMatches
  <2>3. SentOnce(Append(toProcess, ReduceGraceTime))
    BY <1>1, <2>1, <2>2, AppendSentOnce DEF TypeOK
  <2> QED
    BY <1>2, <2>2, <2>3
<1>11. OneOwner'
  BY <1>3, <1>10 DEF OneOwner
<1>12. WaitingSocket'
  BY DEF WaitingSocket
<1>13. GraceOnlyWhenDisconnected'
  BY DEF GraceOnlyWhenDisconnected
<1>14. NoSocketForgotten'
  BY <1>3 DEF NoSocketForgotten, Held, TypeOK
<1> QED
  BY <1>5, <1>6, <1>7, <1>9, <1>11, <1>12, <1>13, <1>14

LEMMA ShortenType ==
  TypeOK /\ ShortenReconnectionGraceTime => toProcess' \in Seq(Message)
<1>1. ReduceGraceTime \in Message
  BY DEF ReduceGraceTime, Message
<1> QED
  BY <1>1 DEF TypeOK, ShortenReconnectionGraceTime

LEMMA AuthenticateInvariant ==
  ASSUME NEW n \in Socket
  PROVE  IInv /\ Authenticate(n) => IInv'
<1> SUFFICES ASSUME IInv, Authenticate(n) PROVE IInv'
  OBVIOUS
<1>1. TypeOK'
  <2>1. toProcess' \in Seq(Message)
    BY ShortenType DEF IInv, Authenticate
  <2> QED
    BY <2>1 DEF IInv, TypeOK, Authenticate, serverVars, processVars, bounds
<1>2. \A m \in Socket : \/ request'[m] = request[m]
                        \/ request[m] = "sent" /\ request'[m] = "accepted"
  BY DEF IInv, TypeOK, Authenticate
<1> QED
  BY <1>1, <1>2, ShortenInvariant DEF Authenticate

LEMMA AuthenticateOtherInvariant == IInv /\ AuthenticateOther => IInv'
<1> SUFFICES ASSUME IInv, AuthenticateOther PROVE IInv'
  OBVIOUS
<1>1. TypeOK'
  <2>1. toProcess' \in Seq(Message)
    BY ShortenType DEF IInv, AuthenticateOther
  <2> QED
    BY <2>1, ConstantsAssumption
       DEF IInv, TypeOK, AuthenticateOther, serverVars, processVars
<1> QED
  BY <1>1, ShortenInvariant DEF AuthenticateOther

LEMMA ConnectInvariant ==
  ASSUME NEW n \in Socket, IInv, HandleConnectionType(n), Connect(n)
  PROVE  IInv'
<1> USE DEF IInv, HandleConnectionType, Connect, processVars, bounds
<1>1. /\ start = "no" /\ process = "none" /\ ready = "none" /\ draining = {}
      /\ toProcess = <<>> /\ current = NoSocket
  BY DEF TypeOK, StartedOnce
<1>2. OnChannel = {} /\ OnChannel' = {}
  BY <1>1 DEF OnChannel, SocketsOf
<1>3. TypeOK'
  BY DEF TypeOK
<1>4. StartedOnce'
  BY <1>1 DEF TypeOK, StartedOnce
<1>5. Unopened'
  BY DEF TypeOK, Unopened
<1>6. HeldIsAccepted'
  BY <1>1, <1>2 DEF TypeOK, HeldIsAccepted
<1>7. MessagesMatch'
  BY <1>1 DEF MessagesMatch
<1>8. OneOwner'
  BY <1>1, <1>2 DEF OneOwner, SentOnce
<1>9. WaitingSocket'
  BY DEF WaitingSocket, Socket, NoSocket
<1>10. GraceOnlyWhenDisconnected'
  BY DEF GraceOnlyWhenDisconnected
<1>11. NoSocketForgotten'
  BY <1>1 DEF TypeOK, StartedOnce, NoSocketForgotten, Held
<1> QED
  BY <1>3, <1>4, <1>5, <1>6, <1>7, <1>8, <1>9, <1>10, <1>11

LEMMA AcceptReconnectionInvariant ==
  ASSUME NEW n \in Socket, IInv, HandleConnectionType(n), AcceptReconnection(n)
  PROVE  IInv'
<1> USE DEF IInv, HandleConnectionType, AcceptReconnection, processVars, bounds
<1>1. /\ start # "no" /\ request[n] = "accepted" /\ n # NoSocket
      /\ request' = [request EXCEPT ![n] = "done"]
  BY DEF StartedOnce, Socket, NoSocket
<1>2. OnChannel' = OnChannel
  BY DEF OnChannel
<1>3. n \notin {connectionData, current} \cup draining \cup OnChannel
  BY <1>1 DEF HeldIsAccepted
<1>4. connectionData # NoSocket => connectionData \in Socket
  BY DEF TypeOK
<1>5. TypeOK'
  <2>1. CASE start = "forked"
    BY <2>1 DEF TypeOK
  <2>2. CASE start # "forked"
    <3>1. ready = "none" /\ connectionData # NoSocket
      BY <1>1, <2>2 DEF TypeOK, StartedOnce, WaitingSocket
    <3> QED
      BY <2>2, <3>1 DEF TypeOK
  <2> QED
    BY <2>1, <2>2
<1>6. StartedOnce'
  BY <1>1 DEF TypeOK, StartedOnce
<1>7. Unopened'
  BY <1>1 DEF TypeOK, Unopened
<1>8. HeldIsAccepted'
  BY <1>1, <1>2, HeldAreSockets DEF TypeOK, HeldIsAccepted
<1>9. MessagesMatch'
  BY DEF MessagesMatch, MessageMatches
<1>10. OneOwner'
  BY <1>1, <1>2, <1>3 DEF OneOwner
<1>11. WaitingSocket'
  BY <1>1 DEF WaitingSocket
<1>12. GraceOnlyWhenDisconnected'
  BY DEF GraceOnlyWhenDisconnected
<1>13. NoSocketForgotten'
  <2> SUFFICES ASSUME registered, process # "dead",
                      NEW m \in Socket, request'[m] = "done", life[m] = "open"
               PROVE  m \in Held' \cup displaced'
    BY DEF NoSocketForgotten
  <2>1. CASE m = n
    BY <2>1 DEF Held
  <2>2. CASE m # n
    <3>1. m \in Held \cup displaced
      BY <1>1, <2>2 DEF TypeOK, NoSocketForgotten
    <3> QED
      BY <3>1, <1>2 DEF Held
  <2> QED
    BY <2>1, <2>2
<1> QED
  BY <1>5, <1>6, <1>7, <1>8, <1>9, <1>10, <1>11, <1>12, <1>13

LEMMA RejectReconnectionInvariant ==
  ASSUME NEW n \in Socket, IInv, HandleConnectionType(n), RejectReconnection(n)
  PROVE  IInv'
<1> USE DEF IInv, HandleConnectionType, RejectReconnection, processVars, bounds
<1>1. \A m \in Socket : life'[m] = life[m] \/ life'[m] = "ended"
  BY DEF TypeOK
<1>2. n # NoSocket /\ request[n] = "accepted"
  BY DEF Socket, NoSocket
<1>3. OnChannel' = OnChannel
  BY DEF OnChannel
<1>4. TypeOK'
  BY DEF TypeOK
<1>5. StartedOnce'
  <2>1. life'[n] = "ended"
    BY DEF TypeOK
  <2> QED
    BY <1>1, <2>1 DEF TypeOK, StartedOnce
<1>6. Unopened'
  BY <1>2 DEF TypeOK, Unopened
<1>7. HeldIsAccepted'
  BY <1>3, HeldAreSockets DEF TypeOK, HeldIsAccepted
<1>8. MessagesMatch'
  <2> SUFFICES ASSUME NEW i \in DOMAIN toProcess
               PROVE  MessageMatches(toProcess[i])'
    BY DEF MessagesMatch
  <2>1. toProcess[i] \in Message /\ MessageMatches(toProcess[i])
    BY DEF TypeOK, MessagesMatch
  <2>2. toProcess[i].type = "socket" => toProcess[i].socket \in Socket
    BY <2>1 DEF MessageMatches, Message
  <2> QED
    BY <1>1, <2>1, <2>2 DEF MessageMatches
<1>9. OneOwner'
  BY <1>3 DEF OneOwner
<1>10. WaitingSocket'
  BY DEF WaitingSocket
<1>11. GraceOnlyWhenDisconnected'
  BY <1>1 DEF TypeOK, GraceOnlyWhenDisconnected
<1>12. NoSocketForgotten'
  BY DEF NoSocketForgotten
<1> QED
  BY <1>4, <1>5, <1>6, <1>7, <1>8, <1>9, <1>10, <1>11, <1>12

LEMMA HandleConnectionTypeInvariant ==
  ASSUME NEW n \in Socket
  PROVE  IInv /\ HandleConnectionType(n) => IInv'
BY ConnectInvariant, AcceptReconnectionInvariant, RejectReconnectionInvariant
   DEF HandleConnectionType

LEMMA ForkInvariant == IInv /\ Fork => IInv'
<1> SUFFICES ASSUME IInv, Fork PROVE IInv'
  OBVIOUS
<1> USE DEF IInv, Fork, clientVars, bounds
<1>1. OnChannel' = OnChannel
  BY DEF OnChannel
<1>2. TypeOK'
  BY DEF TypeOK
<1>3. StartedOnce'
  BY DEF StartedOnce
<1>4. Unopened'
  BY DEF Unopened
<1>5. HeldIsAccepted'
  BY <1>1 DEF HeldIsAccepted
<1>6. MessagesMatch'
  BY DEF MessagesMatch, MessageMatches
<1>7. OneOwner'
  BY <1>1 DEF OneOwner
<1>8. WaitingSocket'
  BY DEF WaitingSocket
<1>9. GraceOnlyWhenDisconnected'
  BY DEF GraceOnlyWhenDisconnected
<1>10. NoSocketForgotten'
  BY <1>1 DEF StartedOnce, NoSocketForgotten, Held
<1> QED
  BY <1>2, <1>3, <1>4, <1>5, <1>6, <1>7, <1>8, <1>9, <1>10

LEMMA StartFailsInvariant == IInv /\ StartFails => IInv'
<1> SUFFICES ASSUME IInv, StartFails PROVE IInv'
  OBVIOUS
<1> USE DEF IInv, StartFails, clientVars, processVars, bounds
<1>1. OnChannel' = OnChannel
  BY DEF OnChannel
<1>2. TypeOK'
  BY DEF TypeOK
<1>3. StartedOnce'
  BY DEF StartedOnce
<1>4. Unopened'
  BY DEF Unopened
<1>5. HeldIsAccepted'
  BY <1>1 DEF HeldIsAccepted
<1>6. MessagesMatch'
  BY DEF MessagesMatch, MessageMatches
<1>7. OneOwner'
  BY <1>1 DEF OneOwner
<1>8. WaitingSocket' /\ GraceOnlyWhenDisconnected'
  BY DEF WaitingSocket, GraceOnlyWhenDisconnected
<1>9. NoSocketForgotten'
  BY <1>1 DEF NoSocketForgotten, Held
<1> QED
  BY <1>2, <1>3, <1>4, <1>5, <1>6, <1>7, <1>8, <1>9

LEMMA HandleReadyInvariant == IInv /\ HandleReady => IInv'
<1> SUFFICES ASSUME IInv, HandleReady PROVE IInv'
  OBVIOUS
<1> USE DEF IInv, HandleReady, clientVars, processVars, bounds
<1>1. OnChannel' = OnChannel
  BY DEF OnChannel
<1>2. connectionData \in Socket /\ connectionData # NoSocket
  BY DEF TypeOK, WaitingSocket
<1>3. process \notin {"none", "starting"}
  BY DEF StartedOnce
<1>4. TypeOK'
  BY <1>2 DEF TypeOK
<1>5. StartedOnce'
  BY <1>3 DEF StartedOnce
<1>6. Unopened'
  BY DEF Unopened
<1>7. HeldIsAccepted'
  BY <1>1 DEF HeldIsAccepted
<1>8. MessagesMatch'
  BY DEF MessagesMatch, MessageMatches
<1>9. OneOwner'
  <2>1. NoSocket \notin draining \cup OnChannel
    BY DEF TypeOK, OnChannel, SocketsOf, Socket, NoSocket
  <2> QED
    BY <1>1, <1>2, <2>1 DEF OneOwner
<1>10. WaitingSocket' /\ GraceOnlyWhenDisconnected'
  BY DEF WaitingSocket, GraceOnlyWhenDisconnected
<1>11. NoSocketForgotten'
  BY <1>1 DEF NoSocketForgotten, Held, Socket, NoSocket
<1> QED
  BY <1>4, <1>5, <1>6, <1>7, <1>8, <1>9, <1>10, <1>11

LEMMA SendSocketInvariant ==
  ASSUME NEW n \in Socket
  PROVE  IInv /\ SendSocket(n) => IInv'
<1> SUFFICES ASSUME IInv, SendSocket(n) PROVE IInv'
  OBVIOUS
<1> USE DEF IInv, SendSocket, clientVars, processVars, bounds
<1> DEFINE m == SocketMessage(n)
<1>1. /\ m \in Message /\ m.type = "socket" /\ m.socket = n
      /\ n # NoSocket /\ MessageMatches(m)
  <2>1. m = [type |-> "socket", socket |-> n, handle |-> life[n] # "ended"]
    BY DEF SocketMessage
  <2>2. n # NoSocket
    BY DEF Socket, NoSocket
  <2>3. m \in Message
    BY <2>1 DEF Message
  <2>4. m.type = "socket" /\ m.socket = n /\ m.handle = (life[n] # "ended")
    BY <2>1
  <2> QED
    BY <2>2, <2>3, <2>4 DEF MessageMatches
<1>2. toProcess' = toProcess \/ toProcess' = Append(toProcess, m)
  OBVIOUS
<1>3. n \notin {connectionData, current} \cup OnChannel
  BY <1>1 DEF OneOwner
<1> HIDE DEF m
<1>4. OnChannel' = IF Alive THEN OnChannel \cup {n} ELSE OnChannel
  <2>1. SocketsOf(Append(toProcess, m)) = OnChannel \cup {n}
    BY <1>1, AppendSockets DEF TypeOK, OnChannel
  <2> QED
    BY <2>1 DEF OnChannel, m
<1>5. toProcess' \in Seq(Message)
  BY <1>1, <1>2 DEF TypeOK
<1>6. TypeOK'
  BY <1>5 DEF TypeOK
<1>7. StartedOnce'
  BY DEF StartedOnce
<1>8. Unopened'
  BY DEF Unopened
<1>9. HeldIsAccepted'
  BY <1>4 DEF HeldIsAccepted
<1>10. MessagesMatch'
  <2>1. \A i \in DOMAIN toProcess' : MessageMatches(toProcess'[i])
    BY <1>1, <1>2, AppendElements DEF TypeOK, MessagesMatch
  <2> QED
    BY <2>1 DEF MessagesMatch, MessageMatches
<1>11. OneOwner'
  <2>1. \A i \in DOMAIN toProcess :
          toProcess[i].type = "socket" <=> toProcess[i].socket # NoSocket
    BY DEF MessagesMatch, MessageMatches
  <2>2. SentOnce(toProcess')
    BY <1>1, <1>2, <1>3, <2>1, AppendSentOnce DEF TypeOK, OneOwner, OnChannel
  <2> QED
    BY <1>3, <1>4, <2>2 DEF OneOwner
<1>12. WaitingSocket' /\ GraceOnlyWhenDisconnected'
  BY DEF WaitingSocket, GraceOnlyWhenDisconnected
<1>13. NoSocketForgotten'
  <2>1. registered /\ process # "dead" => Alive
    BY DEF TypeOK, StartedOnce, Alive
  <2> QED
    BY <1>4, <2>1 DEF NoSocketForgotten, Held
<1> QED
  BY <1>6, <1>7, <1>8, <1>9, <1>10, <1>11, <1>12, <1>13

\* Sockets that end without a client noticing, by HandleExit, Exit and Receive.
LEMMA EndsMessagesMatch ==
  ASSUME TypeOK, MessagesMatch, toProcess' = toProcess,
         \A n \in Socket : life'[n] = life[n] \/ life'[n] = "ended"
  PROVE  MessagesMatch'
<1> SUFFICES ASSUME NEW i \in DOMAIN toProcess
             PROVE  MessageMatches(toProcess[i])'
  BY DEF MessagesMatch
<1>1. toProcess[i] \in Message /\ MessageMatches(toProcess[i])
  BY DEF TypeOK, MessagesMatch
<1>2. toProcess[i].type = "socket" => toProcess[i].socket \in Socket
  BY <1>1 DEF MessageMatches, Message
<1> QED
  BY <1>1, <1>2 DEF MessageMatches

LEMMA HandleExitInvariant == IInv /\ HandleExit => IInv'
<1> SUFFICES ASSUME IInv, HandleExit PROVE IInv'
  OBVIOUS
<1> USE DEF IInv, HandleExit, clientVars, processVars, bounds
<1>1. OnChannel' = OnChannel
  BY DEF OnChannel
<1>2. \A n \in Socket : life'[n] = life[n] \/ life'[n] = "ended"
  OBVIOUS
<1>3. TypeOK'
  BY DEF TypeOK
<1>4. StartedOnce'
  BY <1>2 DEF StartedOnce
<1>5. Unopened'
  <2>1. \A n \in Socket : n = connectionData => request[n] = "done"
    BY DEF HeldIsAccepted, Socket, NoSocket
  <2> QED
    BY <2>1 DEF Unopened
<1>6. HeldIsAccepted'
  BY <1>1 DEF HeldIsAccepted
<1>7. MessagesMatch'
  BY <1>2, EndsMessagesMatch
<1>8. OneOwner'
  <2>1. NoSocket \notin draining \cup OnChannel
    BY DEF TypeOK, OnChannel, SocketsOf, Socket, NoSocket
  <2> QED
    BY <1>1, <2>1 DEF OneOwner
<1>9. WaitingSocket'
  BY DEF WaitingSocket
<1>10. GraceOnlyWhenDisconnected'
  BY <1>2 DEF TypeOK, GraceOnlyWhenDisconnected
<1>11. NoSocketForgotten'
  BY DEF NoSocketForgotten
<1> QED
  BY <1>3, <1>4, <1>5, <1>6, <1>7, <1>8, <1>9, <1>10, <1>11

LEMMA ExitInvariant == IInv /\ Alive /\ Exit => IInv'
<1> SUFFICES ASSUME IInv, Alive, Exit PROVE IInv'
  OBVIOUS
<1> USE DEF IInv, Exit, clientVars, serverVars, bounds
<1>1. OnChannel' = {}
  BY DEF OnChannel, SocketsOf
<1>2. \A n \in Socket : \/ life'[n] = life[n]
                        \/ life'[n] = "ended" /\ n \in {current} \cup OnChannel
  OBVIOUS
<1>3. TypeOK'
  <2>1. life' \in [Socket -> {"unused", "open", "bye", "gone", "ended"}]
    BY DEF TypeOK
  <2>2. toProcess' \in Seq(Message)
    OBVIOUS
  <2> QED
    BY <2>1, <2>2 DEF TypeOK
<1>4. StartedOnce'
  BY DEF StartedOnce, Alive
<1>5. Unopened'
  <2>1. \A n \in Socket : n \in {current} \cup OnChannel => request[n] = "done"
    BY DEF HeldIsAccepted, Socket, NoSocket
  <2> QED
    BY <1>2, <2>1 DEF Unopened
<1>6. HeldIsAccepted'
  BY <1>1 DEF HeldIsAccepted
<1>7. MessagesMatch'
  BY DEF MessagesMatch
<1>8. OneOwner'
  BY <1>1 DEF OneOwner, SentOnce
<1>9. WaitingSocket' /\ GraceOnlyWhenDisconnected' /\ NoSocketForgotten'
  BY DEF WaitingSocket, GraceOnlyWhenDisconnected, NoSocketForgotten
<1> QED
  BY <1>3, <1>4, <1>5, <1>6, <1>7, <1>8, <1>9

LEMMA SayReadyInvariant == IInv /\ SayReady => IInv'
<1> SUFFICES ASSUME IInv, SayReady PROVE IInv'
  OBVIOUS
<1> USE DEF IInv, SayReady, clientVars, serverVars, bounds
<1>1. OnChannel' = OnChannel
  BY DEF OnChannel
<1>2. TypeOK'
  BY DEF TypeOK
<1>3. StartedOnce'
  BY DEF StartedOnce
<1>4. Unopened'
  BY DEF Unopened
<1>5. HeldIsAccepted'
  BY <1>1 DEF HeldIsAccepted
<1>6. MessagesMatch'
  BY DEF MessagesMatch, MessageMatches
<1>7. OneOwner'
  BY <1>1 DEF OneOwner
<1>8. WaitingSocket'
  BY DEF StartedOnce, WaitingSocket
<1>9. GraceOnlyWhenDisconnected'
  BY DEF GraceOnlyWhenDisconnected
<1>10. NoSocketForgotten'
  BY <1>1 DEF NoSocketForgotten, Held
<1> QED
  BY <1>2, <1>3, <1>4, <1>5, <1>6, <1>7, <1>8, <1>9, <1>10

LEMMA ReceiveInvariant == IInv /\ Receive => IInv'
<1> SUFFICES ASSUME IInv, Receive PROVE IInv'
  OBVIOUS
<1> USE DEF IInv, Receive, clientVars, serverVars, bounds
<1> DEFINE m == Head(toProcess)
<1>1. m \in Message /\ MessageMatches(m) /\ toProcess \in Seq(Message)
  BY TailElements DEF TypeOK, MessagesMatch
<1>2. /\ OnChannel' \subseteq OnChannel
      /\ OnChannel \subseteq OnChannel' \cup {m.socket}
      /\ m.socket \in OnChannel \cup {NoSocket}
  BY <1>1, TailSockets DEF OnChannel
<1>3. SentOnce(toProcess') /\ (m.type = "socket" => m.socket \notin OnChannel')
  BY <1>1, TailSentOnce DEF OneOwner, OnChannel
<1>4. \A n \in Socket : \/ life'[n] = life[n]
                        \/ life'[n] = "ended" /\ n = current
  BY DEF ReceiveSocket, ReceiveReduceGraceTime
<1>5. toProcess' \in Seq(Message) /\ life' \in [Socket -> {"unused", "open", "bye", "gone", "ended"}]
  BY <1>1, TailElements DEF TypeOK, ReceiveSocket, ReceiveReduceGraceTime
<1>6. \/ /\ m.type = "socket" /\ m.handle
         /\ m.socket \in Socket /\ m.socket # NoSocket /\ m.socket \in OnChannel
         /\ current' = m.socket /\ ~runner1' /\ ~runner2'
         /\ runner1' \in BOOLEAN /\ runner2' \in BOOLEAN
         /\ \A n \in Socket : life'[n] = IF n = current THEN "ended" ELSE life[n]
      \/ /\ m.type = "socket" /\ life[m.socket] = "ended" /\ m.socket \in Socket
         /\ UNCHANGED <<current, life, runner1, runner2>>
      \/ /\ m.type = "reduce" /\ m.socket = NoSocket
         /\ runner2' = (runner2 \/ runner1)
         /\ UNCHANGED <<current, life, runner1>>
  BY <1>1, <1>2 DEF ReceiveSocket, ReceiveReduceGraceTime, MessageMatches, Message
<1> HIDE DEF m
<1>7. TypeOK'
  BY <1>5, <1>6 DEF TypeOK
<1>8. StartedOnce'
  BY <1>4 DEF StartedOnce
<1>9. Unopened'
  <2>1. \A n \in Socket : n = current => request[n] = "done"
    BY DEF HeldIsAccepted, Socket, NoSocket
  <2> QED
    BY <1>4, <2>1 DEF Unopened
<1>10. HeldIsAccepted'
  BY <1>2, <1>6 DEF HeldIsAccepted
<1>11. MessagesMatch'
  <2> SUFFICES ASSUME NEW i \in DOMAIN toProcess', NEW x \in Message,
                      x = toProcess'[i]
               PROVE  MessageMatches(x)'
    BY <1>5 DEF MessagesMatch, MessageMatches
  <2>1. MessageMatches(x)
    BY <1>1, TailElements DEF MessagesMatch
  <2>2. x.type = "socket" => x.socket \in Socket
    BY <2>1 DEF MessageMatches, Message
  <2> QED
    BY <1>4, <2>1, <2>2 DEF MessageMatches
<1>12. OneOwner'
  BY <1>2, <1>3, <1>6 DEF OneOwner
<1>13. WaitingSocket'
  BY DEF WaitingSocket
<1>14. GraceOnlyWhenDisconnected'
  BY <1>6 DEF TypeOK, GraceOnlyWhenDisconnected
<1>15. NoSocketForgotten'
  <2> SUFFICES ASSUME registered,
                      NEW n \in Socket, request[n] = "done", life'[n] = "open"
               PROVE  n \in Held' \cup displaced'
    BY DEF NoSocketForgotten
  <2>1. life[n] = "open"
    BY <1>4
  <2>2. n \in Held \cup displaced
    BY <2>1 DEF NoSocketForgotten
  <2>3. n # m.socket => n \in Held' \cup displaced'
    <3>1. CASE n = current /\ current' # current
      BY <1>6, <2>1, <3>1
    <3>2. CASE n # current \/ current' = current
      BY <1>2, <2>2, <3>2 DEF Held
    <3> QED
      BY <3>1, <3>2
  <2>4. n = m.socket => n = current'
    BY <1>6, <2>1 DEF Socket, NoSocket
  <2> QED
    BY <2>3, <2>4 DEF Held
<1> QED
  BY <1>7, <1>8, <1>9, <1>10, <1>11, <1>12, <1>13, <1>14, <1>15

LEMMA SocketClosedInvariant == IInv /\ SocketClosed => IInv'
<1> SUFFICES ASSUME IInv, SocketClosed PROVE IInv'
  OBVIOUS
<1> USE DEF IInv, SocketClosed, clientVars, serverVars, bounds
<1>1. OnChannel' = OnChannel
  BY DEF OnChannel
<1>2. TypeOK'
  BY DEF TypeOK
<1>3. StartedOnce'
  BY DEF StartedOnce
<1>4. Unopened'
  BY DEF Unopened
<1>5. HeldIsAccepted'
  BY <1>1 DEF HeldIsAccepted
<1>6. MessagesMatch'
  BY DEF MessagesMatch, MessageMatches
<1>7. OneOwner'
  BY <1>1 DEF OneOwner
<1>8. WaitingSocket' /\ GraceOnlyWhenDisconnected'
  BY DEF WaitingSocket, GraceOnlyWhenDisconnected
<1>9. NoSocketForgotten'
  BY <1>1 DEF NoSocketForgotten, Held
<1> QED
  BY <1>2, <1>3, <1>4, <1>5, <1>6, <1>7, <1>8, <1>9

(***************************************************************************)
(* The theorems.                                                           *)
(***************************************************************************)
LEMMA InitInvariant == Init => IInv
<1> SUFFICES ASSUME Init PROVE IInv
  OBVIOUS
<1> USE DEF Init
<1>1. OnChannel = {}
  BY DEF OnChannel, SocketsOf
<1>2. TypeOK
  <2>1. breaks \in 0 .. MaxBreaks /\ others \in 0 .. MaxOthers
    BY ConstantsAssumption
  <2>2. toProcess \in Seq(Message)
    OBVIOUS
  <2> QED
    BY <2>1, <2>2 DEF TypeOK
<1>3. 1 \in Socket
  BY ConstantsAssumption DEF Socket
<1>4. StartedOnce
  BY <1>3 DEF StartedOnce
<1>5. Unopened /\ MessagesMatch /\ WaitingSocket /\ GraceOnlyWhenDisconnected
  BY DEF Unopened, MessagesMatch, WaitingSocket, GraceOnlyWhenDisconnected
<1>6. HeldIsAccepted
  BY <1>1 DEF HeldIsAccepted
<1>7. OneOwner
  BY <1>1 DEF OneOwner, SentOnce
<1>8. NoSocketForgotten
  BY DEF NoSocketForgotten
<1> QED
  BY <1>2, <1>4, <1>5, <1>6, <1>7, <1>8 DEF IInv

LEMMA StutterInvariant == IInv /\ UNCHANGED vars => IInv'
<1> SUFFICES ASSUME IInv, UNCHANGED vars PROVE IInv'
  OBVIOUS
<1> USE DEF IInv, vars
<1>1. OnChannel' = OnChannel
  BY DEF OnChannel
<1>2. TypeOK' /\ StartedOnce' /\ Unopened' /\ WaitingSocket'
  BY DEF TypeOK, StartedOnce, Unopened, WaitingSocket
<1>3. HeldIsAccepted' /\ OneOwner'
  BY <1>1 DEF HeldIsAccepted, OneOwner
<1>4. MessagesMatch'
  BY DEF MessagesMatch, MessageMatches
<1>5. GraceOnlyWhenDisconnected'
  BY DEF GraceOnlyWhenDisconnected
<1>6. NoSocketForgotten'
  BY <1>1 DEF NoSocketForgotten, Held
<1> QED
  BY <1>2, <1>3, <1>4, <1>5, <1>6

\* The inductive invariant: a socket the server has accepted is held once, by
\* _connectionData, by a pending _sendSocketToExtensionHost, by the channel or
\* by the protocol of the extension host process.
THEOREM Invariance == Spec => []IInv
<1>1. ASSUME IInv, [Next]_vars PROVE IInv'
  <2>1. CASE UNCHANGED vars
    BY <1>1, <2>1, StutterInvariant
  <2>2. CASE \/ ClientOpen \/ ClientAnswered \/ ClientTriesAnother
             \/ ClientGivesUp \/ ClientLeaves \/ ClientTimeout
    BY <1>1, <2>2, ClientOpenInvariant, ClientAnsweredInvariant,
       ClientTriesAnotherInvariant, ClientGivesUpInvariant,
       ClientLeavesInvariant, ClientTimeoutInvariant
  <2>3. CASE \E n \in Socket :
               \/ SocketBreaks(n) \/ SocketEnds(n)
               \/ Authenticate(n) \/ HandleConnectionType(n) \/ SendSocket(n)
    BY <1>1, <2>3, SocketBreaksInvariant, SocketEndsInvariant,
       AuthenticateInvariant, HandleConnectionTypeInvariant, SendSocketInvariant
  <2>4. CASE \/ AuthenticateOther
             \/ Fork \/ StartFails \/ HandleReady \/ HandleExit
    BY <1>1, <2>4, AuthenticateOtherInvariant, ForkInvariant,
       StartFailsInvariant, HandleReadyInvariant, HandleExitInvariant
  <2>5. CASE SayReady \/ Receive \/ SocketClosed
    BY <1>1, <2>5, SayReadyInvariant, ReceiveInvariant, SocketClosedInvariant
  <2>6. CASE Crash \/ Disconnected \/ GraceTimeOver \/ NoSocketInTime
    <3>1. Alive /\ Exit
      BY <2>6 DEF Crash, Disconnected, GraceTimeOver, NoSocketInTime, Alive
    <3> QED
      BY <1>1, <3>1, ExitInvariant
  <2> QED
    BY <1>1, <2>1, <2>2, <2>3, <2>4, <2>5, <2>6 DEF Next
<1> QED
  BY <1>1, InitInvariant, PTL DEF Spec

\* Every variable keeps its type; in particular nothing that is not a socket is
\* ever sent to the extension host process.
THEOREM TypeCorrect == Spec => []TypeOK
<1>1. IInv => TypeOK
  BY DEF IInv
<1> QED
  BY <1>1, Invariance, PTL

\* However connections, reconnections and hand overs interleave, no socket is
\* held twice or sent twice.
THEOREM OneOwnerCorrect == Spec => []OneOwner
<1>1. IInv => OneOwner
  BY DEF IInv
<1> QED
  BY <1>1, Invariance, PTL

\* The assertion _connectionData! of the READY handler never fails while the
\* connection is in the table.
THEOREM ReadyFindsSocketCorrect == Spec => []ReadyFindsSocket
<1>1. IInv => ReadyFindsSocket
  BY DEF IInv, WaitingSocket, ReadyFindsSocket
<1> QED
  BY <1>1, Invariance, PTL

\* An accepted socket that works is held by someone as long as there is a
\* process to serve it, but for those replaced before the fork.
THEOREM NoSocketForgottenCorrect == Spec => []NoSocketForgotten
<1>1. IInv => NoSocketForgotten
  BY DEF IInv
<1> QED
  BY <1>1, Invariance, PTL

\* disconnectRunner1 and disconnectRunner2 count only while the socket of the
\* protocol has ended.
THEOREM GraceOnlyWhenDisconnectedCorrect == Spec => []GraceOnlyWhenDisconnected
<1>1. IInv => GraceOnlyWhenDisconnected
  BY DEF IInv
<1> QED
  BY <1>1, Invariance, PTL
=============================================================================
