----------------------------- MODULE RPCProtocol -----------------------------
(***************************************************************************)
(* RPCProtocol (workbench/services/extensions/common/rpcProtocol.ts), the  *)
(* calls between a window and its extension host.  Both sides run the same *)
(* code over a connection that keeps the order, both call and are called,  *)
(* a call may be cancelled, and the other side is watched: it is told to   *)
(* be unresponsive when it does not acknowledge.                           *)
(***************************************************************************)
EXTENDS Naturals, FiniteSets, SequencesExt

CONSTANTS RemoteCalls   \* the calls that are made: a bound

ASSUME CallsAreFinite == IsFiniteSet(RemoteCalls)

VARIABLES
  isDisposed,      \* side -> _isDisposed
  lastMessageId,   \* side -> _lastMessageId
  pendingReplies,  \* side -> _pendingRPCReplies: the calls that wait, by request
  invoked,         \* side -> the handlers that run, with what cancels them
  responsive,      \* side -> _responsiveState
  unacknowledged,  \* side -> _unacknowledgedCount
  late,            \* side -> whether Date.now() > _unresponsiveTime
  checking,        \* side -> whether _asyncCheckUresponsive is scheduled
  inbox,           \* side -> the messages on their way to it
  caller,          \* call -> the side that made it
  token,           \* call -> "none", or its cancellation token: "live", "cancelled"
  outcome,         \* call -> "none", "waiting", "ok", "error", "canceled"
  unwatched        \* history: the sides whose watch ended with calls unacknowledged

rpcVars == <<isDisposed, lastMessageId, pendingReplies, invoked, responsive,
             unacknowledged, late, checking, inbox, caller, token, outcome, unwatched>>
watchVars == <<responsive, unacknowledged, late, checking, unwatched>>

Side == {"window", "host"}
OtherSide(s) == IF s = "window" THEN "host" ELSE "window"

RequestOf(req, c) == [type |-> "request", req |-> req, of |-> c, cancellable |-> token[c] # "none"]
Acknowledged(req) == [type |-> "ack", req |-> req]
CancelRequest(req) == [type |-> "cancel", req |-> req]
Reply(req, how) == [type |-> "reply", req |-> req, how |-> how]

RpcInit ==
  /\ isDisposed = [s \in Side |-> FALSE]
  /\ lastMessageId = [s \in Side |-> 0]
  /\ pendingReplies = [s \in Side |-> {}]
  /\ invoked = [s \in Side |-> {}]
  /\ responsive = [s \in Side |-> TRUE]
  /\ unacknowledged = [s \in Side |-> 0]
  /\ late = [s \in Side |-> FALSE]
  /\ checking = [s \in Side |-> FALSE]
  /\ inbox = [s \in Side |-> <<>>]
  /\ caller \in [RemoteCalls -> Side]
  /\ token \in [RemoteCalls -> {"none", "live"}]
  /\ outcome = [c \in RemoteCalls |-> "none"]
  /\ unwatched = {}

(***************************************************************************)
(* Calling.                                                                *)
(***************************************************************************)
\* _onWillSendRequest
WillSendRequest(s) ==
  /\ late' = [late EXCEPT ![s] = @ /\ unacknowledged[s] # 0]
  /\ unacknowledged' = [unacknowledged EXCEPT ![s] = @ + 1]
  /\ checking' = [checking EXCEPT ![s] = TRUE]
  /\ unwatched' = unwatched \ {s}
  /\ UNCHANGED responsive

\* _remoteCall: a side that is disposed of, or a token that was cancelled, calls nothing.
RemoteCall(c) ==
  LET s == caller[c]
      req == lastMessageId[s] + 1
  IN  /\ outcome[c] = "none" /\ ~isDisposed[s] /\ token[c] # "cancelled"
      /\ outcome' = [outcome EXCEPT ![c] = "waiting"]
      /\ lastMessageId' = [lastMessageId EXCEPT ![s] = req]
      /\ pendingReplies' = [pendingReplies EXCEPT ![s] = @ \cup {<<req, c>>}]
      /\ WillSendRequest(s)
      /\ inbox' = [inbox EXCEPT ![OtherSide(s)] = Append(@, RequestOf(req, c))]
      /\ UNCHANGED <<isDisposed, invoked, caller, token>>

RemoteCallOfNothing(c) ==
  /\ outcome[c] = "none" /\ (isDisposed[caller[c]] \/ token[c] = "cancelled")
  /\ outcome' = [outcome EXCEPT ![c] = "canceled"]
  /\ UNCHANGED <<isDisposed, lastMessageId, pendingReplies, invoked, inbox, caller, token,
                 watchVars>>

\* The token of a call is cancelled.  While the call waits, its listener tells.
CancelToken(c) ==
  LET s == caller[c]
      told == {p \in pendingReplies[s] : p[2] = c}
  IN  /\ token[c] = "live"
      /\ token' = [token EXCEPT ![c] = "cancelled"]
      /\ inbox' = [inbox EXCEPT ![OtherSide(s)] =
                     @ \o SetToSeq({CancelRequest(p[1]) : p \in told})]
      /\ UNCHANGED <<isDisposed, lastMessageId, pendingReplies, invoked, caller, outcome,
                     watchVars>>

(***************************************************************************)
(* Receiving.                                                              *)
(***************************************************************************)
Receives(s, type) ==
  /\ ~isDisposed[s] /\ inbox[s] # <<>> /\ Head(inbox[s]).type = type
Message(s) == Head(inbox[s])
Taken(s) == [inbox EXCEPT ![s] = Tail(@)]

\* Mutant of ReceiveRequest: the handler of a request with a token is given none.
ReceiveRequestUncancellable(s) ==
  /\ Receives(s, "request")
  /\ invoked' = [invoked EXCEPT ![s] = @ \cup
       {[req |-> Message(s).req, of |-> Message(s).of, cancellable |-> FALSE,
         cancelled |-> FALSE]}]
  /\ inbox' = [Taken(s) EXCEPT ![OtherSide(s)] = Append(@, Acknowledged(Message(s).req))]
  /\ UNCHANGED <<isDisposed, lastMessageId, pendingReplies, caller, token, outcome,
                 watchVars>>

\* _receiveRequest: the handler is invoked, and then the request acknowledged.
ReceiveRequest(s) ==
  /\ Receives(s, "request")
  /\ invoked' = [invoked EXCEPT ![s] = @ \cup
       {[req |-> Message(s).req, of |-> Message(s).of,
         cancellable |-> Message(s).cancellable, cancelled |-> FALSE]}]
  /\ inbox' = [Taken(s) EXCEPT ![OtherSide(s)] = Append(@, Acknowledged(Message(s).req))]
  /\ UNCHANGED <<isDisposed, lastMessageId, pendingReplies, caller, token, outcome,
                 watchVars>>

\* Mutant of HandlerEnds: a handler that throws sends nothing.
HandlerEndsSilently(s, how) ==
  \E h \in invoked[s] :
    /\ invoked' = [invoked EXCEPT ![s] = @ \ {h}]
    /\ inbox' = IF how = "error" THEN inbox
                ELSE [inbox EXCEPT ![OtherSide(s)] = Append(@, Reply(h.req, how))]
    /\ UNCHANGED <<isDisposed, lastMessageId, pendingReplies, caller, token, outcome,
                   watchVars>>

\* The promise of a handler settles, also after the side was disposed of.
HandlerEnds(s, how) ==
  \E h \in invoked[s] :
    /\ invoked' = [invoked EXCEPT ![s] = @ \ {h}]
    /\ inbox' = [inbox EXCEPT ![OtherSide(s)] = Append(@, Reply(h.req, how))]
    /\ UNCHANGED <<isDisposed, lastMessageId, pendingReplies, caller, token, outcome,
                   watchVars>>

\* _receiveCancel
ReceiveCancel(s) ==
  /\ Receives(s, "cancel")
  /\ invoked' = [invoked EXCEPT ![s] =
       {IF h.req = Message(s).req /\ h.cancellable THEN [h EXCEPT !.cancelled = TRUE] ELSE h :
          h \in @}]
  /\ inbox' = Taken(s)
  /\ UNCHANGED <<isDisposed, lastMessageId, pendingReplies, caller, token, outcome,
                 watchVars>>

\* Mutant of ReceiveAck: the side that acknowledges stays unresponsive.
ReceiveAckUnresponsive(s) ==
  /\ Receives(s, "ack")
  /\ late' = [late EXCEPT ![s] = FALSE]
  /\ unacknowledged' = [unacknowledged EXCEPT ![s] = @ - 1]
  /\ checking' = [checking EXCEPT ![s] = @ /\ unacknowledged'[s] # 0]
  /\ inbox' = Taken(s)
  /\ UNCHANGED <<isDisposed, lastMessageId, pendingReplies, invoked, caller, token, outcome,
                 responsive, unwatched>>

\* _onDidReceiveAcknowledge.  The check that found the other side unresponsive was the
\* last, and is not scheduled again here.
ReceiveAck(s) ==
  /\ Receives(s, "ack")
  /\ late' = [late EXCEPT ![s] = FALSE]
  /\ unacknowledged' = [unacknowledged EXCEPT ![s] = @ - 1]
  /\ checking' = [checking EXCEPT ![s] = @ /\ unacknowledged'[s] # 0]
  /\ responsive' = [responsive EXCEPT ![s] = TRUE]
  /\ unwatched' = IF unacknowledged'[s] # 0 /\ ~responsive[s] /\ ~checking[s]
                  THEN unwatched \cup {s} ELSE unwatched
  /\ inbox' = Taken(s)
  /\ UNCHANGED <<isDisposed, lastMessageId, pendingReplies, invoked, caller, token, outcome>>

\* _receiveReply and _receiveReplyErr
ReceiveReply(s) ==
  LET answered == {p \in pendingReplies[s] : p[1] = Message(s).req}
  IN  /\ Receives(s, "reply")
      /\ pendingReplies' = [pendingReplies EXCEPT ![s] = @ \ answered]
      /\ outcome' = [c \in RemoteCalls |->
           IF \E p \in answered : p[2] = c THEN Message(s).how ELSE outcome[c]]
      /\ inbox' = Taken(s)
      /\ UNCHANGED <<isDisposed, lastMessageId, invoked, caller, token, watchVars>>

\* A side that is disposed of does not look at what it receives.
ReceiveDisposed(s) ==
  /\ isDisposed[s] /\ inbox[s] # <<>>
  /\ inbox' = Taken(s)
  /\ UNCHANGED <<isDisposed, lastMessageId, pendingReplies, invoked, caller, token, outcome,
                 watchVars>>

(***************************************************************************)
(* The watch, and the end.                                                 *)
(***************************************************************************)
\* Three seconds pass since the last acknowledgement, or the first request after it.
TimePasses(s) ==
  /\ unacknowledged[s] # 0 /\ ~late[s]
  /\ late' = [late EXCEPT ![s] = TRUE]
  /\ UNCHANGED <<isDisposed, lastMessageId, pendingReplies, invoked, responsive,
                 unacknowledged, checking, inbox, caller, token, outcome, unwatched>>

\* _checkUnresponsive: it is scheduled again while it is early.
CheckUnresponsive(s) ==
  /\ checking[s] /\ (late[s] \/ unacknowledged[s] = 0)
  /\ checking' = [checking EXCEPT ![s] = FALSE]
  /\ responsive' = [responsive EXCEPT ![s] = @ /\ unacknowledged[s] = 0]
  /\ UNCHANGED <<isDisposed, lastMessageId, pendingReplies, invoked, unacknowledged, late,
                 inbox, caller, token, outcome, unwatched>>

\* dispose: what waits is cancelled, and so is the check.
DisposeSide(s) ==
  /\ ~isDisposed[s]
  /\ isDisposed' = [isDisposed EXCEPT ![s] = TRUE]
  /\ pendingReplies' = [pendingReplies EXCEPT ![s] = {}]
  /\ outcome' = [c \in RemoteCalls |->
       IF \E p \in pendingReplies[s] : p[2] = c THEN "canceled" ELSE outcome[c]]
  /\ checking' = [checking EXCEPT ![s] = FALSE]
  /\ UNCHANGED <<lastMessageId, invoked, responsive, unacknowledged, late, inbox, caller,
                 token, unwatched>>

ReceiveMessage(s) ==
  \/ ReceiveRequest(s) \/ ReceiveCancel(s) \/ ReceiveAck(s) \/ ReceiveReply(s)
  \/ ReceiveDisposed(s)

RpcNext ==
  \/ \E c \in RemoteCalls : RemoteCall(c) \/ RemoteCallOfNothing(c) \/ CancelToken(c)
  \/ \E s \in Side :
       \/ ReceiveMessage(s)
       \/ HandlerEnds(s, "ok") \/ HandlerEnds(s, "error")
       \/ TimePasses(s) \/ CheckUnresponsive(s) \/ DisposeSide(s)

\* The connection delivers, and handlers end: an extension may well hang, but then its
\* calls are owed no answer.
RpcProgress(s) == ReceiveMessage(s) \/ HandlerEnds(s, "ok") \/ HandlerEnds(s, "error")
RpcFairness == \A s \in Side : WF_rpcVars(RpcProgress(s))
RpcSpec == RpcInit /\ [][RpcNext]_rpcVars /\ RpcFairness

-----------------------------------------------------------------------------
\* Every variable has its type.
RpcTypeOK ==
  /\ isDisposed \in [Side -> BOOLEAN] /\ responsive \in [Side -> BOOLEAN]
  /\ late \in [Side -> BOOLEAN] /\ checking \in [Side -> BOOLEAN]
  /\ lastMessageId \in [Side -> 0..Cardinality(RemoteCalls)]
  /\ unacknowledged \in [Side -> 0..Cardinality(RemoteCalls)]
  /\ \A s \in Side :
       /\ pendingReplies[s] \subseteq (1..lastMessageId[s]) \X RemoteCalls
       /\ \A h \in invoked[s] : h.req \in 1..lastMessageId[OtherSide(s)]
       /\ \A i \in DOMAIN inbox[s] :
            inbox[s][i].type \in {"request", "ack", "cancel", "reply"}
  /\ caller \in [RemoteCalls -> Side]
  /\ token \in [RemoteCalls -> {"none", "live", "cancelled"}]
  /\ outcome \in [RemoteCalls -> {"none", "waiting", "ok", "error", "canceled"}]
  /\ unwatched \subseteq Side

\* A call that waits and was cancelled has a handler that knows, or will: the cancellation
\* is on its way.  It neither overtakes its request nor meets another handler.
CancelIsHeard ==
  \A c \in RemoteCalls :
    LET o == OtherSide(caller[c])
        UnderWay == \E p \in pendingReplies[caller[c]] :
                      p[2] = c /\ CancelRequest(p[1]) \in ToSet(inbox[o])
    IN  outcome[c] = "waiting" /\ token[c] = "cancelled" /\ ~isDisposed[o] =>
          UnderWay \/ \A h \in invoked[o] : h.of = c => h.cancelled

\* The other side is told to be unresponsive only while it owes an acknowledgement; and
\* while it owes one and is not told to be, a check is scheduled.  But for one case: the
\* other side acknowledged after it was told, and owes others.
WatchIsRight ==
  \A s \in Side :
    /\ ~responsive[s] => unacknowledged[s] # 0
    /\ unacknowledged[s] # 0 /\ responsive[s] /\ ~isDisposed[s] /\ s \notin unwatched =>
         checking[s]

\* A call settles, unless the other side is disposed of.
RemoteCallsEnd ==
  \A c \in RemoteCalls :
    outcome[c] = "waiting" ~> outcome[c] # "waiting" \/ isDisposed[OtherSide(caller[c])]
=============================================================================
