----------------------- MODULE ExtensionHostConnection -----------------------
(***************************************************************************)
(* How the sockets of one extension host connection reach the process that *)
(* serves them.  The main server process authenticates every socket; the   *)
(* first makes it fork an extension host, which says READY and is sent     *)
(* that socket, and each later one of the same reconnection token is a     *)
(* reconnection, sent to the process as it comes                           *)
(* (server/node/extensionHostConnection.ts,                                *)
(* workbench/api/node/extensionHostProcess.ts, and the table of the        *)
(* connections in server/node/remoteExtensionHostAgentServer.ts).          *)
(*                                                                         *)
(* What travels on a socket is the subject of module PersistentProtocol;   *)
(* here a socket is a number, in the order the client opens them, and what *)
(* matters is who holds it.  The sockets can be sent (_canSendSocket): the *)
(* named pipe used with a socket path on Windows does not reconnect.       *)
(***************************************************************************)
EXTENDS Naturals, Sequences

CONSTANTS
  MaxSockets,     \* bound: sockets the client opens
  MaxBreaks,      \* bound: sockets that break
  MaxOthers,      \* bound: connections other clients make meanwhile
  StartMayFail    \* whether start() may throw before it has forked

ASSUME ConstantsAssumption ==
  /\ MaxSockets \in Nat \ {0}
  /\ MaxBreaks \in Nat
  /\ MaxOthers \in Nat
  /\ StartMayFail \in BOOLEAN

Socket == 1 .. MaxSockets
NoSocket == 0

VARIABLES
  \* the client and the network
  client,          \* the socket the client opened last
  clientState,     \* "connecting" before the first answer, "running", "failed"
                   \* for good, or "left"
  life,            \* socket: "unused", "open", "bye" when the client has said
                   \* goodbye on it, "gone" when the client has given it up,
                   \* "ended" when the holder has seen its end as well
  request,         \* socket: its connection type request is "none", "sent",
                   \* "accepted" or "done"
  breaks, others,  \* bounds
  \* the main server process
  registered,      \* the token is in _extHostConnections
  start,           \* start(): "no", "preparing", "failed" or "forked"
  connectionData,  \* _connectionData
  draining,        \* sockets _sendSocketToExtensionHost waits for
  displaced,       \* history: sockets that were replaced in _connectionData
  \* the channel between the processes
  toProcess,       \* messages to the extension host process
  ready,           \* its READY message is "none", "sent" or "handled"
  \* the extension host process
  process,         \* "none", "starting", "running" or "dead"
  current,         \* the socket of protocol, or NoSocket without a protocol
  runner1, runner2 \* disconnectRunner1 and disconnectRunner2 are scheduled

bounds == <<breaks, others>>
clientVars == <<client, clientState, request, bounds>>
serverVars == <<registered, start, connectionData, draining, displaced>>
processVars == <<process, current, runner1, runner2>>
vars == <<client, clientState, life, request, breaks, others, registered, start,
          connectionData, draining, displaced, toProcess, ready, process, current,
          runner1, runner2>>

SocketMessage(n) == [type |-> "socket", socket |-> n, handle |-> life[n] # "ended"]
ReduceGraceTime == [type |-> "reduce", socket |-> NoSocket, handle |-> FALSE]
Message == [type : {"socket", "reduce"}, socket : Socket \cup {NoSocket},
            handle : BOOLEAN]

SocketsOf(q) == {q[i].socket : i \in DOMAIN q} \ {NoSocket}
OnChannel == SocketsOf(toProcess)
Held == ({connectionData} \cup draining) \cup
        (IF process = "dead" THEN {} ELSE OnChannel \cup {current})
Alive == process \in {"starting", "running"}
Broken(n) == life[n] \in {"gone", "ended"}

Init ==
  /\ client = NoSocket
  /\ clientState = "connecting"
  /\ life = [n \in Socket |-> "unused"]
  /\ request = [n \in Socket |-> "none"]
  /\ breaks = 0
  /\ others = 0
  /\ registered = FALSE
  /\ start = "no"
  /\ connectionData = NoSocket
  /\ draining = {}
  /\ displaced = {}
  /\ toProcess = <<>>
  /\ ready = "none"
  /\ process = "none"
  /\ current = NoSocket
  /\ runner1 = FALSE
  /\ runner2 = FALSE

(***************************************************************************)
(* The client.  It opens a socket for the first connection, and another    *)
(* whenever it has lost one; it learns that it has been accepted.          *)
(***************************************************************************)
ClientOpen ==
  /\ \/ client = NoSocket /\ clientState = "connecting"
     \/ client # NoSocket /\ clientState = "running" /\ Broken(client)
  /\ client < MaxSockets
  /\ client' = client + 1
  /\ life' = [life EXCEPT ![client'] = "open"]
  /\ request' = [request EXCEPT ![client'] = "sent"]
  /\ UNCHANGED <<clientState, bounds, serverVars, toProcess, ready, processVars>>

ClientAnswered ==
  /\ clientState = "connecting"
  /\ client # NoSocket
  /\ request[client] = "done"
  /\ life[client] = "open"
  /\ clientState' = "running"
  /\ UNCHANGED <<client, request, bounds, life, serverVars, toProcess, ready,
                 processVars>>

\* A first attempt that fails is repeated with another token.
ClientTriesAnother ==
  /\ clientState = "connecting"
  /\ client # NoSocket
  /\ Broken(client)
  /\ clientState' = "left"
  /\ UNCHANGED <<client, request, bounds, life, serverVars, toProcess, ready,
                 processVars>>

\* The grace time of the client is over, or an error is taken as permanent.
ClientGivesUp ==
  /\ clientState = "running"
  /\ Broken(client)
  /\ clientState' = "failed"
  /\ UNCHANGED <<client, request, bounds, life, serverVars, toProcess, ready,
                 processVars>>

ClientLeaves ==
  /\ clientState = "running"
  /\ life[client] = "open"
  /\ clientState' = "left"
  /\ life' = [life EXCEPT ![client] = "bye"]
  /\ UNCHANGED <<client, request, bounds, serverVars, toProcess, ready, processVars>>

\* Nobody will answer on a socket that is held by nobody, and its client gives
\* it up.  That takes 20s, and the server sees the exit of a process sooner.
ClientTimeout ==
  /\ clientState = "running"
  /\ life[client] = "open"
  /\ request[client] = "done"
  /\ client \notin Held
  /\ ~(registered /\ process = "dead")
  /\ life' = [life EXCEPT ![client] = "gone"]
  /\ UNCHANGED <<clientVars, serverVars, toProcess, ready, processVars>>

\* A socket breaks, or is too slow: the client may give it up first, or the
\* other end see it first.
SocketBreaks(n) ==
  /\ life[n] = "open"
  /\ breaks < MaxBreaks
  /\ breaks' = breaks + 1
  /\ life' \in {[life EXCEPT ![n] = "gone"], [life EXCEPT ![n] = "ended"]}
  /\ UNCHANGED <<client, clientState, request, others, serverVars, toProcess, ready,
                 processVars>>

\* The end of a socket that the client has closed is seen at the other end.
SocketEnds(n) ==
  /\ life[n] \in {"gone", "bye"}
  /\ life' = [life EXCEPT ![n] = "ended"]
  /\ UNCHANGED <<clientVars, serverVars, toProcess, ready, processVars>>

(***************************************************************************)
(* The main server process.  The connection type request of any client     *)
(* shortens the grace time of all connections; then, after the search for  *)
(* a free debug port, the request is decided.                              *)
(***************************************************************************)
ShortenReconnectionGraceTime ==
  toProcess' = IF registered /\ Alive THEN Append(toProcess, ReduceGraceTime)
               ELSE toProcess

Authenticate(n) ==
  /\ request[n] = "sent"
  /\ request' = [request EXCEPT ![n] = "accepted"]
  /\ ShortenReconnectionGraceTime
  /\ UNCHANGED <<client, clientState, bounds, life, serverVars, ready, processVars>>

AuthenticateOther ==
  /\ others < MaxOthers
  /\ others' = others + 1
  /\ ShortenReconnectionGraceTime
  /\ UNCHANGED <<client, clientState, request, breaks, life, serverVars, ready,
                 processVars>>

\* Only the first socket of a token asks for a fresh connection.
Connect(n) ==
  /\ n = 1
  /\ registered' = TRUE
  /\ start' = "preparing"
  /\ connectionData' = n
  /\ UNCHANGED <<clientState, life, draining, displaced>>

\* Mutant of AcceptReconnection: the reconnection replaces the first socket.
AcceptReconnectionInPlaceOfFirst(n) ==
  /\ n # 1
  /\ registered
  /\ IF start = "forked"
     THEN /\ draining' = draining \cup {n}
          /\ connectionData' = NoSocket
          /\ UNCHANGED displaced
     ELSE /\ connectionData' = n
          /\ displaced' = displaced \cup {connectionData}
          /\ UNCHANGED draining
  /\ UNCHANGED <<clientState, life, registered, start>>

\* Mutant of AcceptReconnection: the socket waits for a READY that has passed.
AcceptReconnectionForLater(n) ==
  /\ n # 1
  /\ registered
  /\ connectionData' = n
  /\ displaced' = displaced \cup ({connectionData} \ {NoSocket})
  /\ UNCHANGED <<draining, clientState, life, registered, start>>

AcceptReconnection(n) ==
  /\ n # 1
  /\ registered
  /\ IF start = "forked"
     THEN /\ draining' = draining \cup {n}
          /\ UNCHANGED <<connectionData, displaced>>
     ELSE /\ connectionData' = n
          /\ displaced' = displaced \cup {connectionData}
          /\ UNCHANGED draining
  /\ UNCHANGED <<clientState, life, registered, start>>

RejectReconnection(n) ==
  /\ n # 1
  /\ ~registered
  /\ life' = [life EXCEPT ![n] = "ended"]
  /\ clientState' = IF clientState = "running" /\ client = n /\ life[n] = "open"
                    THEN "failed" ELSE clientState
  /\ UNCHANGED <<registered, start, connectionData, draining, displaced>>

HandleConnectionType(n) ==
  /\ request[n] = "accepted"
  /\ request' = [request EXCEPT ![n] = "done"]
  /\ Connect(n) \/ AcceptReconnection(n) \/ RejectReconnection(n)
  /\ UNCHANGED <<client, bounds, toProcess, ready, processVars>>

\* start() has prepared the environment.  If that throws, it is only logged.
Fork ==
  /\ start = "preparing"
  /\ start' = "forked"
  /\ process' = "starting"
  /\ UNCHANGED <<clientVars, life, registered, connectionData, draining, displaced,
                 toProcess, ready, current, runner1, runner2>>

StartFails ==
  /\ StartMayFail
  /\ start = "preparing"
  /\ start' = "failed"
  /\ UNCHANGED <<clientVars, life, registered, connectionData, draining, displaced,
                 toProcess, ready, processVars>>

\* Mutant of HandleReady: _connectionData is not reset.
HandleReadyKeepingSocket ==
  /\ ready = "sent"
  /\ registered
  /\ ready' = "handled"
  /\ draining' = draining \cup {connectionData}
  /\ UNCHANGED <<clientVars, life, registered, start, connectionData, displaced,
                 toProcess, processVars>>

\* Mutant of HandleReady: _connectionData is reset before it is sent.
HandleReadyResettingFirst ==
  /\ ready = "sent"
  /\ registered
  /\ ready' = "handled"
  /\ connectionData' = NoSocket
  /\ UNCHANGED <<clientVars, life, registered, start, draining, displaced, toProcess,
                 processVars>>


HandleReady ==
  /\ ready = "sent"
  /\ registered
  /\ ready' = "handled"
  /\ draining' = draining \cup {connectionData}
  /\ connectionData' = NoSocket
  /\ UNCHANGED <<clientVars, life, registered, start, displaced, toProcess, processVars>>

\* The rest of _sendSocketToExtensionHost.  A socket that has ended has no
\* handle to send, and a process that has ended is sent nothing.
SendSocket(n) ==
  /\ n \in draining
  /\ draining' = draining \ {n}
  /\ toProcess' = IF Alive THEN Append(toProcess, SocketMessage(n)) ELSE toProcess
  /\ UNCHANGED <<clientVars, life, registered, start, connectionData, displaced, ready,
                 processVars>>

\* The 'exit' event: _cleanResources ends the socket that still waits.
HandleExit ==
  /\ process = "dead"
  /\ registered
  /\ registered' = FALSE
  /\ connectionData' = NoSocket
  /\ life' = [n \in Socket |-> IF n = connectionData THEN "ended" ELSE life[n]]
  /\ UNCHANGED <<clientVars, start, draining, displaced, toProcess, ready, processVars>>

(***************************************************************************)
(* The extension host process.  With it end the sockets it has.            *)
(***************************************************************************)
Exit ==
  /\ process' = "dead"
  /\ life' = [n \in Socket |-> IF n = current \/ n \in OnChannel THEN "ended" ELSE life[n]]
  /\ toProcess' = <<>>
  /\ runner1' = FALSE
  /\ runner2' = FALSE
  /\ UNCHANGED <<clientVars, serverVars, ready, current>>

Crash == Alive /\ Exit

SayReady ==
  /\ process = "starting"
  /\ process' = "running"
  /\ ready' = "sent"
  /\ UNCHANGED <<clientVars, life, serverVars, toProcess, current, runner1, runner2>>


\* A message without a handle makes the listener throw.
ReceiveSocket ==
  /\ Head(toProcess).type = "socket"
  /\ IF Head(toProcess).handle
     THEN /\ current' = Head(toProcess).socket
          /\ life' = [n \in Socket |-> IF n = current THEN "ended" ELSE life[n]]
          /\ runner1' = FALSE
          /\ runner2' = FALSE
     ELSE UNCHANGED <<current, life, runner1, runner2>>

ReceiveReduceGraceTime ==
  /\ Head(toProcess).type = "reduce"
  /\ runner2' = (runner2 \/ runner1)
  /\ UNCHANGED <<current, life, runner1>>

Receive ==
  /\ process = "running"
  /\ toProcess # <<>>
  /\ toProcess' = Tail(toProcess)
  /\ ReceiveSocket \/ ReceiveReduceGraceTime
  /\ UNCHANGED <<clientVars, serverVars, ready, process>>


\* Mutant of SocketClosed: only the first socket is listened to.
SocketClosedOfFirst ==
  /\ process = "running"
  /\ current = 1
  /\ life[current] = "ended"
  /\ ~runner1
  /\ runner1' = TRUE
  /\ UNCHANGED <<clientVars, life, serverVars, toProcess, ready, process, current,
                 runner2>>

\* protocol.onSocketClose
SocketClosed ==
  /\ process = "running"
  /\ current # NoSocket
  /\ life[current] = "ended"
  /\ ~runner1
  /\ runner1' = TRUE
  /\ UNCHANGED <<clientVars, life, serverVars, toProcess, ready, process, current,
                 runner2>>

\* protocol.onDidDispose
Disconnected ==
  /\ process = "running"
  /\ current # NoSocket
  /\ life[current] = "bye"
  /\ Exit

GraceTimeOver ==
  /\ process = "running"
  /\ runner1 \/ runner2
  /\ Exit

\* VSCODE_EXTHOST_IPC_SOCKET timeout
NoSocketInTime ==
  /\ process = "running"
  /\ current = NoSocket
  /\ Exit

Next ==
  \/ ClientOpen \/ ClientAnswered \/ ClientTriesAnother \/ ClientGivesUp
  \/ ClientLeaves \/ ClientTimeout
  \/ \E n \in Socket :
       \/ SocketBreaks(n) \/ SocketEnds(n)
       \/ Authenticate(n) \/ HandleConnectionType(n) \/ SendSocket(n)
  \/ AuthenticateOther
  \/ Fork \/ StartFails \/ HandleReady \/ HandleExit
  \/ Crash \/ SayReady \/ Receive \/ SocketClosed
  \/ Disconnected \/ GraceTimeOver \/ NoSocketInTime

\* The two processes and the client's timers go on, and the network tells a
\* socket's end in the end.  Nobody has to fail, to leave or to break anything.
Fairness ==
  /\ WF_vars(ClientOpen) /\ WF_vars(ClientAnswered)
  /\ WF_vars(ClientTriesAnother) /\ WF_vars(ClientTimeout)
  /\ \A n \in Socket :
       /\ WF_vars(SocketEnds(n)) /\ WF_vars(Authenticate(n))
       /\ WF_vars(HandleConnectionType(n)) /\ WF_vars(SendSocket(n))
  /\ WF_vars(Fork) /\ WF_vars(HandleReady) /\ WF_vars(HandleExit)
  /\ WF_vars(SayReady) /\ WF_vars(Receive) /\ WF_vars(SocketClosed)

\* The timers of the process, of a minute and of up to three hours.
TimersFire == WF_vars(GraceTimeOver) /\ WF_vars(NoSocketInTime)

Spec == Init /\ [][Next]_vars
FairSpec == Spec /\ Fairness

(***************************************************************************)
(* Properties.                                                             *)
(***************************************************************************)
\* Every variable has its type.
TypeOK ==
  /\ client \in Socket \cup {NoSocket}
  /\ clientState \in {"connecting", "running", "failed", "left"}
  /\ life \in [Socket -> {"unused", "open", "bye", "gone", "ended"}]
  /\ request \in [Socket -> {"none", "sent", "accepted", "done"}]
  /\ breaks \in 0 .. MaxBreaks
  /\ others \in 0 .. MaxOthers
  /\ registered \in BOOLEAN
  /\ start \in {"no", "preparing", "failed", "forked"}
  /\ connectionData \in Socket \cup {NoSocket}
  /\ draining \in SUBSET Socket
  /\ displaced \in SUBSET Socket
  /\ toProcess \in Seq(Message)
  /\ ready \in {"none", "sent", "handled"}
  /\ process \in {"none", "starting", "running", "dead"}
  /\ current \in Socket \cup {NoSocket}
  /\ runner1 \in BOOLEAN
  /\ runner2 \in BOOLEAN

SentOnce(q) ==
  \A i, j \in DOMAIN q : q[i].type = "socket" /\ q[i].socket = q[j].socket => i = j

\* A socket has one owner: it is kept by the connection, waits to be sent, is
\* on its way to the process or is read by it, and is sent only once.
OneOwner ==
  /\ connectionData \notin draining \cup OnChannel
  /\ draining \cap OnChannel = {}
  /\ current \notin {connectionData} \cup draining \cup OnChannel \/ current = NoSocket
  /\ SentOnce(toProcess)

\* When READY arrives the connection has the socket it hands over: the code
\* asserts it with _connectionData!.
ReadyFindsSocket ==
  registered /\ process # "dead" /\ ready # "handled" => connectionData # NoSocket

\* A socket that was accepted and works is forgotten by nobody as long as there
\* is, or will be, a process to serve it; only a socket that came before the
\* fork is replaced by one that was accepted after it.
NoSocketForgotten ==
  registered /\ process # "dead" =>
    \A n \in Socket : request[n] = "done" /\ life[n] = "open" =>
      n \in Held \cup displaced

\* The process counts down only while its client is not connected to it, and
\* the short grace time runs only within the long one.
GraceOnlyWhenDisconnected ==
  /\ runner1 => current # NoSocket /\ life[current] = "ended"
  /\ runner2 => runner1

\* The process changes its socket only for one that was opened later: what it
\* takes for a reconnection is one.
AdoptsNewer ==
  [][current' # current /\ current # NoSocket => current' > current]_current

\* Whatever the two processes mix up, a client is served in the end, or knows
\* that it will not be, once sockets stop breaking; no grace time has to end for
\* that.  An exception in start() is only logged, and then nobody ever tells it.
ClientServed ==
  <>[](\/ clientState \in {"failed", "left"}
       \/ process = "running" /\ current = client /\ life[client] = "open"
       \/ start = "failed")

\* If the timers fire, a client that is gone for good leaves no connection and no
\* process behind, unless start() has thrown.
NothingLeftBehind ==
  TimersFire =>
    (clientState \in {"failed", "left"} ~>
       [](~registered /\ ~Alive) \/ [](start = "failed"))
=============================================================================
