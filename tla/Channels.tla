------------------------------ MODULE Channels ------------------------------
(***************************************************************************)
(* Calls and events over a message passing protocol: ChannelClient and     *)
(* ChannelServer of base/parts/ipc/common/ipc.ts, with one channel that    *)
(* the server may register late.                                           *)
(*                                                                         *)
(* The protocol delivers in order and loses nothing.  The id of a request  *)
(* is the call, or the event that is listened to: a call is made once, and *)
(* an event keeps its id when its last listener goes and another comes.    *)
(***************************************************************************)
EXTENDS Naturals, FiniteSets, SequencesExt

CONSTANTS
  Call,         \* ids of calls
  Listenable,   \* ids of events
  MaxListens,   \* bound: how often a first listener comes, by event
  MaxFired      \* bound: how often the channel fires an event

\* The id of a request is lastRequestId, which counts calls and events alike.
ASSUME DistinctIds == Call \cap Listenable = {}
ASSUME BoundsAreNumbers == MaxListens \in Nat /\ MaxFired \in Nat

VARIABLES
  state,            \* client: whether it is Idle, and not Uninitialized
  call,             \* client: what became of a call
  listens,          \* client: how often an event got a first listener
  listened,         \* client: the events that have a listener
  handlers,         \* client: the calls for which there is a handler
  waiting,          \* client: the requests that wait for Initialize
  toServer,         \* messages under way
  toClient,
  registered,       \* server: whether the channel is in channels
  flush,            \* server: the timer of registerChannel that flushes
  pendingRequests,  \* server
  serving,          \* server: what became of a call
  subscriptions,    \* server: how many listeners the channel's event has
  activeRequests,   \* server: the requests that can be disposed
  fired,            \* bound
  lapsed            \* history: events that lost a listener whose request was pending

channelVars == <<state, call, listens, listened, handlers, waiting, toServer, toClient,
                 registered, flush, pendingRequests, serving, subscriptions,
                 activeRequests, fired, lapsed>>

Request(type, id) == [type |-> type, id |-> id]
Initialize == [type |-> "initialize"]

\* The server says Initialize when it is made.
ChannelInit ==
  /\ state = "uninitialized"
  /\ call = [c \in Call |-> "unused"]
  /\ listens = [e \in Listenable |-> 0]
  /\ listened = {}
  /\ handlers = {}
  /\ waiting = <<>>
  /\ toServer = <<>>
  /\ toClient = <<Initialize>>
  /\ registered \in BOOLEAN
  /\ flush = FALSE
  /\ pendingRequests = <<>>
  /\ serving = [c \in Call |-> "none"]
  /\ subscriptions = [e \in Listenable |-> 0]
  /\ activeRequests = {}
  /\ fired = 0
  /\ lapsed = {}

ServerUnchanged == UNCHANGED <<registered, flush, pendingRequests, serving, subscriptions,
                               activeRequests>>
ClientUnchanged == UNCHANGED <<state, call, listens, listened, handlers, waiting>>

(***************************************************************************)
(* The client.                                                             *)
(***************************************************************************)
\* doRequest, at once or when Initialize has come
DoRequest(request) ==
  IF state = "idle"
  THEN /\ toServer' = Append(toServer, request)
       /\ handlers' = IF request.type = "promise" THEN handlers \cup {request.id} ELSE handlers
       /\ UNCHANGED waiting
  ELSE /\ waiting' = Append(waiting, request)
       /\ UNCHANGED <<toServer, handlers>>

\* Mutant of Withdraw: nothing is taken back before the client is initialised.
WithdrawOnceIdle(request, message) ==
  /\ toServer' = IF state = "idle" THEN Append(toServer, message) ELSE toServer
  /\ UNCHANGED waiting

\* Who goes while the request waits takes it back.
Withdraw(request, message) ==
  IF state = "idle"
  THEN toServer' = Append(toServer, message) /\ UNCHANGED waiting
  ELSE /\ \E i \in DOMAIN waiting : waiting[i] = request /\ waiting' = RemoveAt(waiting, i)
       /\ UNCHANGED toServer

RequestPromise(c) ==
  /\ call[c] = "unused"
  /\ call' = [call EXCEPT ![c] = "requested"]
  /\ DoRequest(Request("promise", c))
  /\ ServerUnchanged
  /\ UNCHANGED <<state, listens, listened, toClient, fired, lapsed>>

\* The token of the call: the caller learns of it at once.
Cancel(c) ==
  /\ call[c] = "requested"
  /\ call' = [call EXCEPT ![c] = "cancelled"]
  /\ Withdraw(Request("promise", c), Request("cancel", c))
  /\ ServerUnchanged
  /\ UNCHANGED <<state, listens, listened, handlers, toClient, fired, lapsed>>

Listen(e) ==
  /\ e \notin listened
  /\ listens[e] < MaxListens
  /\ listens' = [listens EXCEPT ![e] = @ + 1]
  /\ listened' = listened \cup {e}
  /\ DoRequest(Request("listen", e))
  /\ ServerUnchanged
  /\ UNCHANGED <<state, call, toClient, fired, lapsed>>

Unlisten(e) ==
  /\ e \in listened
  /\ listened' = listened \ {e}
  /\ Withdraw(Request("listen", e), Request("dispose", e))
  /\ ServerUnchanged
  /\ UNCHANGED <<state, call, listens, handlers, toClient, fired, lapsed>>

\* An answer settles the call if there is a handler for it; after a cancellation
\* that changes nothing.
ClientReceives ==
  /\ toClient # <<>>
  /\ toClient' = Tail(toClient)
  /\ LET message == toClient[1]
     IN \/ /\ message = Initialize
           /\ state' = "idle"
           /\ toServer' = toServer \o waiting
           /\ handlers' = handlers \cup {c \in Call : Request("promise", c) \in
                                           {waiting[i] : i \in DOMAIN waiting}}
           /\ waiting' = <<>>
           /\ UNCHANGED call
        \/ /\ message # Initialize
           /\ IF message.id \in handlers
              THEN /\ handlers' = handlers \ {message.id}
                   /\ call' = [call EXCEPT ![message.id] =
                                 IF @ = "requested" THEN message.type ELSE @]
              ELSE UNCHANGED <<handlers, call>>
           /\ UNCHANGED <<state, toServer, waiting>>
  /\ ServerUnchanged
  /\ UNCHANGED <<listens, listened, fired, lapsed>>

(***************************************************************************)
(* The server.                                                             *)
(***************************************************************************)
\* onPromise and onEventListen, for requests in their order: a subscription is
\* one more listener, and the only one that can be disposed from now on.
RunAll(requests) ==
  LET Asked(type, id) ==
        {i \in DOMAIN requests : requests[i].type = type /\ requests[i].id = id}
  IN /\ serving' = [c \in Call |-> IF Asked("promise", c) # {} THEN "running" ELSE serving[c]]
     /\ subscriptions' = [e \in Listenable |->
          subscriptions[e] + Cardinality(Asked("listen", e))]
     /\ activeRequests' = activeRequests \cup {requests[i].id : i \in DOMAIN requests}

\* A request for a channel that is unknown so far waits, with a timer.
Collect(request) ==
  pendingRequests' = Append(pendingRequests,
                            [type |-> request.type, id |-> request.id, timedOut |-> FALSE])

\* disposeActiveRequest, which knows nothing of requests that wait
DisposeActiveRequest(id) ==
  /\ activeRequests' = activeRequests \ {id}
  /\ subscriptions' = [e \in Listenable |->
       IF e = id /\ id \in activeRequests THEN subscriptions[e] - 1 ELSE subscriptions[e]]

ServerReceives ==
  /\ toServer # <<>>
  /\ toServer' = Tail(toServer)
  /\ LET request == toServer[1]
     IN \/ /\ request.type \in {"promise", "listen"}
           /\ IF registered THEN RunAll(<<request>>) /\ UNCHANGED pendingRequests
              ELSE Collect(request) /\ UNCHANGED <<serving, subscriptions, activeRequests>>
           /\ UNCHANGED lapsed
        \/ /\ request.type \in {"cancel", "dispose"}
           /\ DisposeActiveRequest(request.id)
           /\ lapsed' = IF request.type = "dispose" /\ request.id \notin activeRequests
                        THEN lapsed \cup {request.id} ELSE lapsed
           /\ UNCHANGED <<serving, pendingRequests>>
  /\ ClientUnchanged
  /\ UNCHANGED <<toClient, registered, flush, fired>>

\* Mutant of RequestTimesOut: the request is given up without an answer.
RequestTimesOutSilently(i) ==
  /\ i \in DOMAIN pendingRequests
  /\ ~pendingRequests[i].timedOut
  /\ pendingRequests' = [pendingRequests EXCEPT ![i].timedOut = TRUE]
  /\ ClientUnchanged
  /\ UNCHANGED <<toServer, toClient, registered, flush, serving, subscriptions,
                 activeRequests, fired, lapsed>>

\* The timer of a pending request answers for the channel, and leaves the request
\* where it is.
RequestTimesOut(i) ==
  /\ i \in DOMAIN pendingRequests
  /\ ~pendingRequests[i].timedOut
  /\ pendingRequests' = [pendingRequests EXCEPT ![i].timedOut = TRUE]
  /\ toClient' = IF pendingRequests[i].type = "promise"
                 THEN Append(toClient, Request("unknownChannel", pendingRequests[i].id))
                 ELSE toClient
  /\ ClientUnchanged
  /\ UNCHANGED <<toServer, registered, flush, serving, subscriptions, activeRequests, fired,
                 lapsed>>

RegisterChannel ==
  /\ ~registered
  /\ registered' = TRUE
  /\ flush' = TRUE
  /\ ClientUnchanged
  /\ UNCHANGED <<toServer, toClient, pendingRequests, serving, subscriptions,
                 activeRequests, fired, lapsed>>

\* Every request that waits runs now, also one that has timed out or was cancelled.
FlushPendingRequests ==
  /\ flush
  /\ flush' = FALSE
  /\ RunAll(pendingRequests)
  /\ pendingRequests' = <<>>
  /\ ClientUnchanged
  /\ UNCHANGED <<toServer, toClient, registered, fired, lapsed>>

\* The call of the channel settles, cancelled or not.
Answer(c) ==
  /\ serving[c] = "running"
  /\ serving' = [serving EXCEPT ![c] = "answered"]
  /\ activeRequests' = activeRequests \ {c}
  /\ toClient' = Append(toClient, Request("answer", c))
  /\ ClientUnchanged
  /\ UNCHANGED <<toServer, registered, flush, pendingRequests, subscriptions, fired, lapsed>>

EventFires(e) ==
  /\ fired < MaxFired
  /\ fired' = fired + 1
  /\ subscriptions[e] > 0
  /\ toClient' = toClient \o [i \in 1 .. subscriptions[e] |-> Request("fire", e)]
  /\ ClientUnchanged
  /\ ServerUnchanged
  /\ UNCHANGED <<toServer, lapsed>>

-----------------------------------------------------------------------------
ChannelNext ==
  \/ \E c \in Call : RequestPromise(c) \/ Cancel(c) \/ Answer(c)
  \/ \E e \in Listenable : Listen(e) \/ Unlisten(e) \/ EventFires(e)
  \/ ClientReceives
  \/ ServerReceives
  \/ \E i \in DOMAIN pendingRequests : RequestTimesOut(i)
  \/ RegisterChannel
  \/ FlushPendingRequests

\* Messages arrive, timers fire, and the calls of the channel settle.
ChannelProgress ==
  \/ ClientReceives
  \/ ServerReceives
  \/ \E i \in DOMAIN pendingRequests : RequestTimesOut(i)
  \/ FlushPendingRequests
  \/ \E c \in Call : Answer(c)

ChannelSpec == ChannelInit /\ [][ChannelNext]_channelVars /\ WF_channelVars(ChannelProgress)

-----------------------------------------------------------------------------
MessageOf(types) == [type : types, id : Call \cup Listenable]

ChannelTypeOK ==
  /\ state \in {"uninitialized", "idle"}
  /\ call \in [Call -> {"unused", "requested", "cancelled", "answer", "unknownChannel"}]
  /\ listens \in [Listenable -> 0 .. MaxListens]
  /\ listened \subseteq Listenable
  /\ handlers \subseteq Call
  /\ waiting \in Seq(MessageOf({"promise", "listen"}))
  /\ toServer \in Seq(MessageOf({"promise", "listen", "cancel", "dispose"}))
  /\ toClient \in Seq({Initialize} \cup MessageOf({"answer", "unknownChannel", "fire"}))
  /\ registered \in BOOLEAN /\ flush \in BOOLEAN
  /\ pendingRequests \in Seq([type : {"promise", "listen"}, id : Call \cup Listenable,
                              timedOut : BOOLEAN])
  /\ serving \in [Call -> {"none", "running", "answered"}]
  /\ subscriptions \in [Listenable -> Nat]
  /\ activeRequests \subseteq Call \cup Listenable
  /\ fired \in 0 .. MaxFired /\ lapsed \subseteq Listenable

(***************************************************************************)
(* When nothing is under way, the channel has one listener for each event  *)
(* that is listened to and none for the others, whenever Initialize and the*)
(* channel came and however often listeners have come and gone.  The lapse *)
(* of the code: a listener that goes while its request is pending is not   *)
(* forgotten.                                                              *)
(***************************************************************************)
OneSubscriptionEach ==
  state = "idle" /\ toServer = <<>> /\ pendingRequests = <<>> =>
    \A e \in Listenable \ lapsed : subscriptions[e] = IF e \in listened THEN 1 ELSE 0

(***************************************************************************)
(* Every call settles, also when it is made before the client is           *)
(* initialised or the channel is never registered.                         *)
(***************************************************************************)
CallsEnd == \A c \in Call : call[c] = "requested" ~> call[c] # "requested"
=============================================================================
