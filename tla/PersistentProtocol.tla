------------------------ MODULE PersistentProtocol ------------------------
(***************************************************************************)
(* The protocol between a window (Client) and the remote server (Server):  *)
(* class PersistentProtocol of base/parts/ipc/common/ipc.net.ts at both    *)
(* ends, its ProtocolWriter and ProtocolReader, and the use the two sides  *)
(* make of it to survive a broken socket:                                  *)
(*   - the client opens a new socket, calls beginAcceptReconnection, asks  *)
(*     for the connection with a control message, and calls                *)
(*     endAcceptReconnection when the server has answered                  *)
(*     (platform/remote/common/remoteAgentConnection.ts);                  *)
(*   - the server hands the new socket to the protocol of the old one,     *)
(*     either in its own process (ManagementConnection.acceptReconnection) *)
(*     or, HandOff, by sending it to the extension host process, with the  *)
(*     client's writing paused meanwhile (extensionHostConnection.ts and   *)
(*     extensionHostProcess.ts).                                           *)
(*                                                                         *)
(* A connection is one socket, numbered in the order the client opens      *)
(* them; it is a byte stream in each direction, modelled as a sequence of  *)
(* protocol messages.  It loses nothing until it breaks; a broken one may  *)
(* lose any tail of what is in flight.  Time is abstract: a timer that is  *)
(* armed may fire, and a comparison of clock readings that both outcomes   *)
(* are possible for is a choice.                                           *)
(***************************************************************************)
EXTENDS Integers, Sequences

CONSTANTS
  Client, Server,   \* the two ends
  Data, NoData,     \* payloads, and the empty buffer
  Script,           \* Script[e]: the payloads end e sends, in order
  HandOff,          \* TRUE: the server passes sockets to another process
  MaxConn,          \* bound: the number of reconnection attempts
  MaxLoss           \* bound: messages lost by a socket that is not broken

Ends == {Client, Server}
Peer(e) == IF e = Client THEN Server ELSE Client
Conn == 0 .. MaxConn

ASSUME ConstantsAssumption ==
  /\ Client # Server
  /\ NoData \notin Data
  /\ Script \in [Ends -> Seq(Data)]
  /\ HandOff \in BOOLEAN
  /\ MaxConn \in Nat
  /\ MaxLoss \in Nat

VARIABLES
  \* fields of PersistentProtocol, per end
  isReconnecting,      \* _isReconnecting
  outgoingUnackMsg,    \* _outgoingUnackMsg, the queue kept for resending
  outgoingMsgId,       \* _outgoingMsgId
  outgoingAckId,       \* _outgoingAckId
  outgoingAckTimeout,  \* _outgoingAckTimeout is armed
  socketTimedOut,      \* onSocketTimeout was fired for the current socket
  incomingMsgId,       \* _incomingMsgId
  incomingAckId,       \* _incomingAckId
  incomingAckTimeout,  \* _incomingAckTimeout: "off", "armed", or "stale":
                       \* a message has arrived since it was armed
  replayRequested,     \* _lastReplayRequestTime is less than 10s ago
  \* its ProtocolWriter, per end
  writer,              \* [buf, paused, timer]
  \* its socket, and the sockets
  conn,                \* the connection the end reads from and writes to
  wire,                \* wire[c][e]: in flight towards e on connection c
  broken,              \* broken[c]: connection c is dead
  opened,              \* number of the last connection the client opened
  \* the reconnection handshake
  handshakeSent,       \* the client has sent its request on conn[Client]
  handshakeOk,         \* the answer waits in the client's onControlMessage
  handedOff,           \* connections on their way to the extension host
  \* history and bounds
  received,            \* payloads fired on onMessage, per end
  losses               \* messages lost so far by unbroken sockets

protocolVars ==
  <<isReconnecting, outgoingUnackMsg, outgoingMsgId, outgoingAckId,
    outgoingAckTimeout, socketTimedOut, incomingMsgId, incomingAckId,
    incomingAckTimeout, replayRequested, received>>
outgoingVars == <<outgoingUnackMsg, outgoingMsgId, outgoingAckId>>
incomingVars == <<incomingMsgId, incomingAckTimeout, replayRequested, received>>
socketVars == <<conn, broken, opened>>
handshakeVars == <<handshakeSent, handshakeOk, handedOff>>
vars ==
  <<isReconnecting, outgoingUnackMsg, outgoingMsgId, outgoingAckId,
    outgoingAckTimeout, socketTimedOut, incomingMsgId, incomingAckId,
    incomingAckTimeout, replayRequested, writer, conn, wire, broken, opened,
    handshakeSent, handshakeOk, handedOff, received, losses>>

\* The first n elements of s, and those after them.
Prefix(s, n) == SubSeq(s, 1, n)
After(s, n) == SubSeq(s, n + 1, Len(s))

(***************************************************************************)
(* Messages.  Only Regular ones carry an id; 0 means "to be ignored".      *)
(***************************************************************************)
MessageType ==
  {"Regular", "Control", "Ack", "ReplayRequest", "Pause", "Resume", "KeepAlive"}
Message == [type : MessageType, id : Nat, ack : Nat, data : Data \cup {NoData}]

Plain(type, ack) == [type |-> type, id |-> 0, ack |-> ack, data |-> NoData]

(***************************************************************************)
(* ProtocolWriter: messages are collected and written to the socket by a   *)
(* zero timeout.                                                           *)
(***************************************************************************)
NewWriter == [buf |-> << >>, paused |-> FALSE, timer |-> FALSE]

WriteAll(w, msgs) ==
  [w EXCEPT !.buf = @ \o msgs,
            !.timer = @ \/ (w.buf = << >> /\ msgs # << >>)]

Pause(w) == [w EXCEPT !.paused = TRUE]
\* Mutant of Resume: it does not schedule a write.
ResumeUnscheduled(w) == [w EXCEPT !.paused = FALSE]
Resume(w) == [w EXCEPT !.paused = FALSE, !.timer = TRUE]

\* What _writeNow passes to the socket: a paused writer keeps its messages.
Flushed(w) == IF w.paused THEN << >> ELSE w.buf

\* The socket of connection c takes msgs from end e, unless it is dead.
Transmit(w, c, e, msgs) ==
  IF broken[c] THEN w ELSE [w EXCEPT ![c][Peer(e)] = @ \o msgs]

(***************************************************************************)
(* The queue of messages to resend, and the acknowledgements.              *)
(***************************************************************************)
\* Mutant of DropAcked: one message too many is popped.
DropAckedAndNext(q, ack) ==
  LET n == CHOOSE k \in 0 .. Len(q) :
             /\ \A i \in 1 .. k : q[i].id <= ack + 1
             /\ k < Len(q) => q[k + 1].id > ack + 1
  IN After(q, n)

\* The messages left when those up to ack are popped from the front of q.
DropAcked(q, ack) ==
  LET n == CHOOSE k \in 0 .. Len(q) :
             /\ \A i \in 1 .. k : q[i].id <= ack
             /\ k < Len(q) => q[k + 1].id > ack
  IN After(q, n)

\* The first part of _receiveMessage.
AcceptAck(e, ack) ==
  \/ /\ ack > outgoingAckId[e]
     /\ outgoingAckId' = [outgoingAckId EXCEPT ![e] = ack]
     /\ outgoingUnackMsg' =
          [outgoingUnackMsg EXCEPT ![e] = DropAcked(@, ack)]
  \/ /\ ack <= outgoingAckId[e]
     /\ UNCHANGED <<outgoingAckId, outgoingUnackMsg>>

\* _recvAckCheck, run with its timer armed or not.  The three clock readings
\* it compares may exceed TimeoutTime only if mayTimeOut.
RecvAckCheck(e, armed, mayTimeOut) ==
  LET idle == \/ outgoingMsgId'[e] <= outgoingAckId'[e]
              \/ armed
              \/ isReconnecting'[e]
  IN \/ /\ idle
        /\ outgoingAckTimeout' = [outgoingAckTimeout EXCEPT ![e] = armed]
        /\ UNCHANGED socketTimedOut
     \/ /\ ~idle
        /\ outgoingAckTimeout' = [outgoingAckTimeout EXCEPT ![e] = TRUE]
        /\ UNCHANGED socketTimedOut
     \/ /\ ~idle
        /\ mayTimeOut
        /\ outgoingAckTimeout' = [outgoingAckTimeout EXCEPT ![e] = FALSE]
        /\ socketTimedOut' = [socketTimedOut EXCEPT ![e] = TRUE]

\* Mutant of ReconnectionMessages: the wrong counter is acknowledged.
ReconnectionAckWrong(e) == <<Plain("Ack", outgoingMsgId[e])>> \o outgoingUnackMsg[e]

\* The ack a reconnected end repeats, and all it must send again.
ReconnectionMessages(e) == <<Plain("Ack", incomingMsgId[e])>> \o outgoingUnackMsg[e]

-----------------------------------------------------------------------------
Init ==
  /\ isReconnecting = [e \in Ends |-> FALSE]
  /\ outgoingUnackMsg = [e \in Ends |-> << >>]
  /\ outgoingMsgId = [e \in Ends |-> 0]
  /\ outgoingAckId = [e \in Ends |-> 0]
  /\ outgoingAckTimeout = [e \in Ends |-> FALSE]
  /\ socketTimedOut = [e \in Ends |-> FALSE]
  /\ incomingMsgId = [e \in Ends |-> 0]
  /\ incomingAckId = [e \in Ends |-> 0]
  /\ incomingAckTimeout = [e \in Ends |-> "off"]
  /\ replayRequested = [e \in Ends |-> FALSE]
  /\ writer = [e \in Ends |-> NewWriter]
  /\ conn = [e \in Ends |-> 0]
  /\ wire = [c \in Conn |-> [e \in Ends |-> << >>]]
  /\ broken = [c \in Conn |-> FALSE]
  /\ opened = 0
  /\ handshakeSent = FALSE
  /\ handshakeOk = FALSE
  /\ handedOff = {}
  /\ received = [e \in Ends |-> << >>]
  /\ losses = 0

(***************************************************************************)
(* Calls and timers of one end.                                            *)
(***************************************************************************)

\* send(buffer).  While reconnecting, the message is only queued.
Send(e) ==
  /\ outgoingMsgId[e] < Len(Script[e])
  /\ UNCHANGED <<isReconnecting, outgoingAckId>>
  /\ LET id == outgoingMsgId[e] + 1
         msg == [type |-> "Regular", id |-> id, ack |-> incomingMsgId[e],
                 data |-> Script[e][id]]
     IN /\ outgoingMsgId' = [outgoingMsgId EXCEPT ![e] = id]
        /\ incomingAckId' = [incomingAckId EXCEPT ![e] = incomingMsgId[e]]
        /\ outgoingUnackMsg' = [outgoingUnackMsg EXCEPT ![e] = Append(@, msg)]
        /\ \/ /\ isReconnecting[e]
              /\ UNCHANGED <<writer, outgoingAckTimeout, socketTimedOut>>
           \/ /\ ~isReconnecting[e]
              /\ writer' = [writer EXCEPT ![e] = WriteAll(@, <<msg>>)]
              /\ RecvAckCheck(e, outgoingAckTimeout[e], socketTimedOut[e])
  /\ UNCHANGED <<incomingVars, wire, socketVars, handshakeVars, losses>>

\* The zero timeout of the writer: _writeNow.
WriteTimeout(e) ==
  /\ writer[e].timer
  /\ wire' = Transmit(wire, conn[e], e, Flushed(writer[e]))
  /\ writer' = [writer EXCEPT ![e].timer = FALSE,
                              ![e].buf = IF writer[e].paused THEN @ ELSE << >>]
  /\ UNCHANGED <<protocolVars, socketVars, handshakeVars, losses>>

\* Mutant of IncomingAckTimeout: a check that comes too early is the last.
IncomingAckTimeoutOnce(e) ==
  /\ incomingAckTimeout[e] # "off"
  /\ incomingAckTimeout' = [incomingAckTimeout EXCEPT ![e] = "off"]
  /\ \/ /\ incomingMsgId[e] > incomingAckId[e]
        /\ incomingAckTimeout[e] = "armed"
        /\ incomingAckId' = [incomingAckId EXCEPT ![e] = incomingMsgId[e]]
        /\ writer' = [writer EXCEPT ![e] =
                        WriteAll(@, <<Plain("Ack", incomingMsgId[e])>>)]
     \/ /\ incomingMsgId[e] <= incomingAckId[e] \/ incomingAckTimeout[e] = "stale"
        /\ UNCHANGED <<incomingAckId, writer>>
  /\ UNCHANGED <<isReconnecting, outgoingVars, outgoingAckTimeout,
                 socketTimedOut, incomingMsgId, replayRequested, received,
                 wire, socketVars, handshakeVars, losses>>

\* The callback of _incomingAckTimeout: _sendAckCheck.  If no message came
\* since the timer was armed then AcknowledgeTime has passed since the last.
IncomingAckTimeout(e) ==
  /\ incomingAckTimeout[e] # "off"
  /\ \/ /\ incomingMsgId[e] <= incomingAckId[e]
        /\ incomingAckTimeout' = [incomingAckTimeout EXCEPT ![e] = "off"]
        /\ UNCHANGED <<incomingAckId, writer>>
     \/ /\ incomingMsgId[e] > incomingAckId[e]
        /\ incomingAckTimeout' = [incomingAckTimeout EXCEPT ![e] = "off"]
        /\ incomingAckId' = [incomingAckId EXCEPT ![e] = incomingMsgId[e]]
        /\ writer' = [writer EXCEPT ![e] =
                        WriteAll(@, <<Plain("Ack", incomingMsgId[e])>>)]
     \/ /\ incomingMsgId[e] > incomingAckId[e]
        /\ incomingAckTimeout[e] = "stale"
        /\ incomingAckTimeout' = [incomingAckTimeout EXCEPT ![e] = "armed"]
        /\ UNCHANGED <<incomingAckId, writer>>
  /\ UNCHANGED <<isReconnecting, outgoingVars, outgoingAckTimeout,
                 socketTimedOut, incomingMsgId, replayRequested, received,
                 wire, socketVars, handshakeVars, losses>>

\* The callback of _outgoingAckTimeout: _recvAckCheck.
OutgoingAckTimeout(e) ==
  /\ outgoingAckTimeout[e]
  /\ UNCHANGED <<isReconnecting, outgoingVars, incomingVars, incomingAckId>>
  /\ RecvAckCheck(e, FALSE, TRUE)
  /\ UNCHANGED <<writer, wire, socketVars, handshakeVars, losses>>

\* The keep alive interval.  Bound: one keep alive under way per direction.
SendKeepAlive(e) ==
  /\ \A i \in 1 .. Len(writer[e].buf) : writer[e].buf[i].type # "KeepAlive"
  /\ \A i \in 1 .. Len(wire[conn[e]][Peer(e)]) :
       wire[conn[e]][Peer(e)][i].type # "KeepAlive"
  /\ incomingAckId' = [incomingAckId EXCEPT ![e] = incomingMsgId[e]]
  /\ writer' = [writer EXCEPT ![e] =
                  WriteAll(@, <<Plain("KeepAlive", incomingMsgId[e])>>)]
  /\ UNCHANGED <<isReconnecting, outgoingVars, outgoingAckTimeout,
                 socketTimedOut, incomingVars, wire, socketVars,
                 handshakeVars, losses>>

\* Ten seconds pass since the last replay request.
ReplayWindowEnds(e) ==
  /\ replayRequested[e]
  /\ replayRequested' = [replayRequested EXCEPT ![e] = FALSE]
  /\ UNCHANGED <<isReconnecting, outgoingVars, outgoingAckTimeout,
                 socketTimedOut, incomingMsgId, incomingAckId,
                 incomingAckTimeout, received, writer, wire, socketVars,
                 handshakeVars, losses>>

(***************************************************************************)
(* _receiveMessage, on the next message the reader of end e completes.     *)
(***************************************************************************)
Incoming(e) == wire[conn[e]][e]

Read(e, type) ==
  /\ Incoming(e) # << >>
  /\ Head(Incoming(e)).type = type
  /\ wire' = [wire EXCEPT ![conn[e]][e] = Tail(@)]
  /\ AcceptAck(e, Head(Incoming(e)).ack)

\* Mutants of AcceptRegular: the id is compared with <= and with >.
AcceptAgain(e, m) ==
  /\ m.id <= incomingMsgId[e] + 1
  /\ incomingMsgId' = [incomingMsgId EXCEPT ![e] = m.id]
  /\ incomingAckTimeout' =
       [incomingAckTimeout EXCEPT ![e] = IF @ = "off" THEN "armed" ELSE "stale"]
  /\ received' = [received EXCEPT ![e] = Append(@, m.data)]
  /\ UNCHANGED <<replayRequested, writer>>

AcceptBeyondGap(e, m) ==
  /\ m.id > incomingMsgId[e]
  /\ incomingMsgId' = [incomingMsgId EXCEPT ![e] = m.id]
  /\ incomingAckTimeout' =
       [incomingAckTimeout EXCEPT ![e] = IF @ = "off" THEN "armed" ELSE "stale"]
  /\ received' = [received EXCEPT ![e] = Append(@, m.data)]
  /\ UNCHANGED <<replayRequested, writer>>

\* A Regular message: the next one is accepted and fired on onMessage, one
\* that was received before is dropped, one from beyond a gap is dropped
\* too and a replay is requested, at most once every 10s.
AcceptRegular(e, m) ==
  /\ m.id = incomingMsgId[e] + 1
  /\ incomingMsgId' = [incomingMsgId EXCEPT ![e] = m.id]
  /\ incomingAckTimeout' =
       [incomingAckTimeout EXCEPT ![e] = IF @ = "off" THEN "armed" ELSE "stale"]
  /\ received' = [received EXCEPT ![e] = Append(@, m.data)]
  /\ UNCHANGED <<replayRequested, writer>>

RequestReplay(e, m) ==
  /\ m.id > incomingMsgId[e] + 1
  /\ ~replayRequested[e]
  /\ replayRequested' = [replayRequested EXCEPT ![e] = TRUE]
  /\ writer' = [writer EXCEPT ![e] = WriteAll(@, <<Plain("ReplayRequest", 0)>>)]
  /\ UNCHANGED <<incomingMsgId, incomingAckTimeout, received>>

IgnoreRegular(e, m) ==
  /\ \/ m.id <= incomingMsgId[e]
     \/ m.id > incomingMsgId[e] + 1 /\ replayRequested[e]
  /\ UNCHANGED <<incomingVars, writer>>

ReceiveRegular(e) ==
  /\ Read(e, "Regular")
  /\ LET m == Head(Incoming(e))
     IN AcceptRegular(e, m) \/ RequestReplay(e, m) \/ IgnoreRegular(e, m)
  /\ UNCHANGED <<isReconnecting, outgoingMsgId, outgoingAckTimeout,
                 socketTimedOut, incomingAckId, socketVars, handshakeVars,
                 losses>>

ReceiveReplayRequest(e) ==
  /\ Read(e, "ReplayRequest")
  /\ UNCHANGED <<isReconnecting, outgoingMsgId>>
  /\ writer' = [writer EXCEPT ![e] = WriteAll(@, outgoingUnackMsg'[e])]
  /\ RecvAckCheck(e, outgoingAckTimeout[e], FALSE)
  /\ UNCHANGED <<incomingVars, incomingAckId, socketVars, handshakeVars, losses>>

\* Acks and keep alives carry nothing but their ack.
ReceiveAck(e) ==
  /\ \/ Read(e, "Ack")
     \/ Read(e, "KeepAlive")
  /\ UNCHANGED <<isReconnecting, outgoingMsgId, outgoingAckTimeout,
                 socketTimedOut, incomingVars, incomingAckId, writer,
                 socketVars, handshakeVars, losses>>

ReceivePauseOrResume(e) ==
  /\ \/ /\ Read(e, "Pause")
        /\ writer' = [writer EXCEPT ![e] = Pause(@)]
     \/ /\ Read(e, "Resume")
        /\ writer' = [writer EXCEPT ![e] = Resume(@)]
  /\ UNCHANGED <<isReconnecting, outgoingMsgId, outgoingAckTimeout,
                 socketTimedOut, incomingVars, incomingAckId, socketVars,
                 handshakeVars, losses>>

\* The server's answer: onControlMessage is a BufferedEmitter, its listener
\* may run later.
ReceiveControl ==
  /\ Read(Client, "Control")
  /\ handshakeOk' = TRUE
  /\ UNCHANGED <<isReconnecting, outgoingMsgId, outgoingAckTimeout,
                 socketTimedOut, incomingVars, incomingAckId, writer,
                 socketVars, handshakeSent, handedOff, losses>>

(***************************************************************************)
(* Reconnection.                                                           *)
(***************************************************************************)

\* What end e does with its old socket in beginAcceptReconnection: dispose
\* of the writer, which flushes it, and of the reader, and destroy it.
LeaveSocket(w, e) ==
  [Transmit(w, conn[e], e, Flushed(writer[e])) EXCEPT ![conn[e]][e] = << >>]

\* The client's reconnection loop has a new socket: beginAcceptReconnection.
\* It does so after a close or timeout event, after a failed attempt, and
\* on the "trigger reconnection" command.
ClientBeginReconnection ==
  /\ opened < MaxConn
  /\ opened' = opened + 1
  /\ conn' = [conn EXCEPT ![Client] = opened + 1]
  /\ broken' = [broken EXCEPT ![conn[Client]] = TRUE]
  /\ wire' = LeaveSocket(wire, Client)
  /\ writer' = [writer EXCEPT ![Client] = NewWriter]
  /\ isReconnecting' = [isReconnecting EXCEPT ![Client] = TRUE]
  /\ replayRequested' = [replayRequested EXCEPT ![Client] = FALSE]
  /\ socketTimedOut' = [socketTimedOut EXCEPT ![Client] = FALSE]
  /\ handshakeSent' = FALSE
  /\ handshakeOk' = FALSE
  /\ UNCHANGED <<outgoingVars, outgoingAckTimeout, incomingMsgId,
                 incomingAckId, incomingAckTimeout, received, handedOff,
                 losses>>

\* The client asks for its connection with a control message.
ClientSendHandshake ==
  /\ isReconnecting[Client]
  /\ ~handshakeSent
  /\ handshakeSent' = TRUE
  /\ writer' = [writer EXCEPT ![Client] = WriteAll(@, <<Plain("Control", 0)>>)]
  /\ UNCHANGED <<protocolVars, wire, socketVars, handshakeOk, handedOff, losses>>

\* beginAcceptReconnection and endAcceptReconnection of the server's
\* protocol with connection c, whose undelivered bytes are rest; reply was
\* written to c before, extra is written after.
AcceptReconnection(c, rest, reply, extra) ==
  /\ conn' = [conn EXCEPT ![Server] = c]
  /\ broken' = [broken EXCEPT ![conn[Server]] = TRUE]
  /\ wire' = [Transmit(LeaveSocket(wire, Server), c, Server, reply)
                EXCEPT ![c][Server] = rest]
  /\ writer' = [writer EXCEPT ![Server] =
                  WriteAll(NewWriter, ReconnectionMessages(Server) \o extra)]
  /\ replayRequested' = [replayRequested EXCEPT ![Server] = FALSE]
  /\ incomingAckId' = [incomingAckId EXCEPT ![Server] = incomingMsgId[Server]]
  /\ outgoingAckTimeout' =
       [outgoingAckTimeout EXCEPT ![Server] = @ \/ outgoingUnackMsg[Server] # << >>]
  /\ socketTimedOut' = [socketTimedOut EXCEPT ![Server] = FALSE]
  /\ UNCHANGED <<isReconnecting, outgoingVars, incomingMsgId,
                 incomingAckTimeout, received, opened, handshakeSent,
                 handshakeOk, losses>>

\* The protocol the server made for the handshake on connection c reads the
\* i-th message in flight, the request; it has read and forgotten the ones
\* before it.
IsRequest(c, i) == wire[c][Server][i].type = "Control"

\* _handleConnectionType for a management connection.
ServerAccept(c) ==
  /\ ~HandOff
  /\ \E i \in 1 .. Len(wire[c][Server]) :
       /\ IsRequest(c, i)
       /\ AcceptReconnection(c, After(wire[c][Server], i),
                             <<Plain("Control", 0)>>, << >>)
  /\ UNCHANGED handedOff

\* Mutant of ServerHandOff: the client is not paused.
ServerHandOffUnpaused(c) ==
  /\ HandOff
  /\ \E i \in 1 .. Len(wire[c][Server]) :
       /\ IsRequest(c, i)
       /\ wire' = [Transmit(wire, c, Server, <<Plain("Control", 0)>>)
                     EXCEPT ![c][Server] = After(@, i)]
  /\ handedOff' = handedOff \cup {c}
  /\ UNCHANGED <<protocolVars, writer, socketVars, handshakeSent, handshakeOk,
                 losses>>

\* _handleConnectionType for an extension host connection: the client is
\* paused, then answered, and the socket is sent to the extension host.
ServerHandOff(c) ==
  /\ HandOff
  /\ \E i \in 1 .. Len(wire[c][Server]) :
       /\ IsRequest(c, i)
       /\ wire' = [Transmit(wire, c, Server,
                            <<Plain("Pause", 0), Plain("Control", 0)>>)
                     EXCEPT ![c][Server] = After(@, i)]
  /\ handedOff' = handedOff \cup {c}
  /\ UNCHANGED <<protocolVars, writer, socketVars, handshakeSent, handshakeOk,
                 losses>>

\* Mutant of ServerTakeHandedOff: the client is not resumed.
ServerTakeUnresumed(c) ==
  /\ c \in handedOff
  /\ \E k \in 0 .. Len(wire[c][Server]) :
       AcceptReconnection(c, After(wire[c][Server], k), << >>, << >>)
  /\ handedOff' = handedOff \ {c}

\* The extension host process gets the socket.  Nobody read the bytes that
\* arrived meanwhile: the first k messages are lost.
ServerTakeHandedOff(c) ==
  /\ c \in handedOff
  /\ \E k \in 0 .. Len(wire[c][Server]) :
       AcceptReconnection(c, After(wire[c][Server], k), << >>,
                          <<Plain("Resume", 0)>>)
  /\ handedOff' = handedOff \ {c}

\* Mutant of ClientEndReconnection: _recvAckCheck is not called.
ClientEndUnchecked ==
  /\ handshakeOk
  /\ handshakeOk' = FALSE
  /\ UNCHANGED outgoingVars
  /\ isReconnecting' = [isReconnecting EXCEPT ![Client] = FALSE]
  /\ incomingAckId' = [incomingAckId EXCEPT ![Client] = incomingMsgId[Client]]
  /\ writer' = [writer EXCEPT ![Client] = WriteAll(@, ReconnectionMessages(Client))]
  /\ UNCHANGED <<outgoingAckTimeout, socketTimedOut>>
  /\ UNCHANGED <<incomingVars, wire, socketVars, handshakeSent, handedOff, losses>>

\* The listener of the server's answer: endAcceptReconnection.
ClientEndReconnection ==
  /\ handshakeOk
  /\ handshakeOk' = FALSE
  /\ UNCHANGED outgoingVars
  /\ isReconnecting' = [isReconnecting EXCEPT ![Client] = FALSE]
  /\ incomingAckId' = [incomingAckId EXCEPT ![Client] = incomingMsgId[Client]]
  /\ writer' = [writer EXCEPT ![Client] = WriteAll(@, ReconnectionMessages(Client))]
  /\ RecvAckCheck(Client, outgoingAckTimeout[Client], FALSE)
  /\ UNCHANGED <<incomingVars, wire, socketVars, handshakeSent, handedOff, losses>>

(***************************************************************************)
(* The network.                                                            *)
(***************************************************************************)
Break(c) ==
  /\ c <= opened
  /\ ~broken[c]
  /\ broken' = [broken EXCEPT ![c] = TRUE]
  /\ UNCHANGED <<protocolVars, writer, conn, wire, opened, handshakeVars, losses>>

\* A broken socket loses the end of what is in flight.
LoseTail(c, e) ==
  /\ broken[c]
  /\ wire[c][e] # << >>
  /\ wire' = [wire EXCEPT ![c][e] = Prefix(@, Len(@) - 1)]
  /\ UNCHANGED <<protocolVars, writer, socketVars, handshakeVars, losses>>

\* A socket implementation that is not reliable loses any message.
LoseAny(c, e) ==
  /\ losses < MaxLoss
  /\ losses' = losses + 1
  /\ \E i \in 1 .. Len(wire[c][e]) :
       wire' = [wire EXCEPT ![c][e] = Prefix(@, i - 1) \o After(@, i)]
  /\ UNCHANGED <<protocolVars, writer, socketVars, handshakeVars>>

-----------------------------------------------------------------------------
Receive(e) ==
  \/ ReceiveRegular(e)
  \/ ReceiveReplayRequest(e)
  \/ ReceiveAck(e)
  \/ ReceivePauseOrResume(e)
  \/ e = Client /\ ReceiveControl

Next ==
  \/ \E e \in Ends :
       \/ Send(e)
       \/ WriteTimeout(e)
       \/ IncomingAckTimeout(e)
       \/ OutgoingAckTimeout(e)
       \/ SendKeepAlive(e)
       \/ ReplayWindowEnds(e)
       \/ Receive(e)
  \/ ClientBeginReconnection
  \/ ClientSendHandshake
  \/ ClientEndReconnection
  \/ \E c \in Conn :
       \/ ServerAccept(c)
       \/ ServerHandOff(c)
       \/ ServerTakeHandedOff(c)
       \/ Break(c)
       \/ \E e \in Ends : LoseTail(c, e) \/ LoseAny(c, e)

Spec == Init /\ [][Next]_vars

\* The event loops run what is due; the network and the users of the
\* protocol owe nothing.
Fairness ==
  /\ \A e \in Ends :
       /\ WF_vars(WriteTimeout(e))
       /\ WF_vars(IncomingAckTimeout(e))
       /\ WF_vars(Receive(e))
  /\ WF_vars(ClientSendHandshake)
  /\ WF_vars(ClientEndReconnection)
  /\ \A c \in Conn :
       WF_vars(ServerAccept(c) \/ ServerHandOff(c) \/ ServerTakeHandedOff(c))

FairSpec == Spec /\ Fairness

-----------------------------------------------------------------------------
(***************************************************************************)
(* Correctness.                                                            *)
(***************************************************************************)

\* Every field has the type its declaration gives it.
TypeOK ==
  /\ isReconnecting \in [Ends -> BOOLEAN]
  /\ outgoingUnackMsg \in [Ends -> Seq(Message)]
  /\ outgoingMsgId \in [Ends -> Nat]
  /\ outgoingAckId \in [Ends -> Nat]
  /\ outgoingAckTimeout \in [Ends -> BOOLEAN]
  /\ socketTimedOut \in [Ends -> BOOLEAN]
  /\ incomingMsgId \in [Ends -> Nat]
  /\ incomingAckId \in [Ends -> Nat]
  /\ incomingAckTimeout \in [Ends -> {"off", "armed", "stale"}]
  /\ replayRequested \in [Ends -> BOOLEAN]
  /\ writer \in [Ends -> [buf : Seq(Message), paused : BOOLEAN, timer : BOOLEAN]]
  /\ conn \in [Ends -> Conn]
  /\ wire \in [Conn -> [Ends -> Seq(Message)]]
  /\ broken \in [Conn -> BOOLEAN]
  /\ opened \in Conn
  /\ handshakeSent \in BOOLEAN
  /\ handshakeOk \in BOOLEAN
  /\ handedOff \in SUBSET Conn
  /\ received \in [Ends -> Seq(Data)]
  /\ losses \in Nat

\* What an end has fired on onMessage is what its peer has sent, in order,
\* without a gap or a duplicate, whatever sockets broke in between and
\* however often a message was sent again.
InOrderOnce ==
  \A e \in Ends :
    /\ incomingMsgId[e] <= outgoingMsgId[Peer(e)]
    /\ received[e] = Prefix(Script[Peer(e)], incomingMsgId[e])

\* The queue kept for resending holds exactly the messages that are not
\* acknowledged, and nothing is acknowledged before it was received: so
\* nothing that may have to be sent again was forgotten, and peek() in
\* _recvAckCheck finds a message.
NothingForgotten ==
  \A e \in Ends :
    /\ outgoingAckId[e] <= incomingMsgId[Peer(e)]
    /\ Len(outgoingUnackMsg[e]) = outgoingMsgId[e] - outgoingAckId[e]
    /\ \A i \in 1 .. Len(outgoingUnackMsg[e]) :
         outgoingUnackMsg[e][i].id = outgoingAckId[e] + i

\* Only what was handed to send() is sent.
SentFromScript == \A e \in Ends : outgoingMsgId[e] <= Len(Script[e])

\* The messages end e may have put on a socket: they acknowledge what it has
\* received, and one with an id carries what was sent under that id.
Genuine(e) ==
  {m \in Message :
    /\ m.ack <= incomingMsgId[e]
    /\ m.type = "Regular" =>
         m.id \in 1 .. outgoingMsgId[e] /\ m.data = Script[e][m.id]}

\* Every message that waits for being resent, waits to be written, or is in
\* flight on any socket, the abandoned ones included, is genuine: a late one
\* does no harm.
GenuineInFlight ==
  \A e \in Ends :
    /\ outgoingUnackMsg[e] \in Seq(Genuine(e))
    /\ writer[e].buf \in Seq(Genuine(e))
    /\ \A c \in Conn : wire[c][Peer(e)] \in Seq(Genuine(e))

\* On sockets that lose nothing before they break, the reader never meets a
\* message from beyond a gap: the resending of endAcceptReconnection and,
\* when the socket changes process, the pausing of the client suffice, and
\* no replay is ever requested.
NoGap ==
  \A e \in Ends :
    /\ ~replayRequested[e]
    /\ \A m \in {Head(q) : q \in {Incoming(e)} \ {<< >>}} :
         m.type = "Regular" => m.id <= incomingMsgId[e] + 1

\* While messages wait for their acknowledgement on a connection in use, the
\* check that would trash a dead socket is due, or has already fired.
WatchdogArmed ==
  \A e \in Ends :
    outgoingMsgId[e] > outgoingAckId[e] /\ ~isReconnecting[e] =>
      outgoingAckTimeout[e] \/ socketTimedOut[e]

\* A message that was received and not acknowledged will be: a timer runs.
AckPromised ==
  \A e \in Ends :
    incomingMsgId[e] > incomingAckId[e] => incomingAckTimeout[e] # "off"

\* What a writer that is not paused holds is about to be written.
NoStrandedWrites ==
  \A e \in Ends :
    writer[e].buf # << >> /\ ~writer[e].paused => writer[e].timer

\* The two ends implement a pair of reliable channels.
Fifo == INSTANCE FifoChannel WITH sent <- outgoingMsgId
ImplementsFifo == Fifo!Spec

\* Once the two ends stay on one connection that works, everything that was
\* sent is received and acknowledged.
Linked == conn[Client] = conn[Server] /\ ~broken[conn[Client]]
Settled(e) ==
  /\ incomingMsgId[e] = outgoingMsgId[Peer(e)]
  /\ outgoingUnackMsg[e] = << >>
EventuallySettled == <>[]Linked => \A e \in Ends : <>[]Settled(e)
=============================================================================
