------------------------ MODULE PersistentConnection ------------------------
(***************************************************************************)
(* The connections of a window to its remote server and how each of them   *)
(* gets over a lost socket: class PersistentConnection of                  *)
(* platform/remote/common/remoteAgentConnection.ts, with its static part,  *)
(* which lets the connection whose failure is fatal take down the others.  *)
(* A window has a ManagementPersistentConnection, whose failure is fatal,  *)
(* and an ExtensionHostPersistentConnection.                               *)
(*                                                                         *)
(* An attempt is cut where the code waits: for the timer between two       *)
(* attempts, for the address of the server, for the socket, and for the    *)
(* answer of the server on it.  What the server answers is a choice here;  *)
(* PersistentProtocol and ExtensionHostConnection are about the server.    *)
(***************************************************************************)
EXTENDS Naturals

CONSTANTS
  Connection,
  Fatal,          \* those with _reconnectionFailureIsFatal
  ZeroGraceTime,  \* whether the reconnection grace time may be zero
  MaxAttempts,    \* bound: attempts after which the grace time is surely over
  MaxLosses       \* bound: sockets that are lost, by connection

ASSUME ConstantsAssumption ==
  /\ Fatal \subseteq Connection
  /\ ZeroGraceTime \in BOOLEAN
  /\ MaxAttempts \in Nat
  /\ MaxLosses \in Nat

VARIABLES
  permanentFailure, \* PersistentConnection._permanentFailure
  instance,         \* "none", "listed" in _instances, or "disposed"
  loop,             \* _runReconnectingLoop: "idle", "waiting" for its timer,
                    \* "resolving", "connecting" or in a "handshake"
  attempt,          \* attempt
  working,          \* the socket of protocol works
  listening,        \* protocol listens to its socket
  failed,           \* the connection was told of a permanent failure
  last,             \* the last event of onDidStateChange
  losses            \* bound

vars == <<permanentFailure, instance, loop, attempt, working, listening, failed,
          last, losses>>

Event == {"none", "gain", "lost", "wait", "running", "permanentFailure"}

\* Events reach the listeners of a connection until it is disposed.
Fire(c, e) == last' = [last EXCEPT ![c] = IF instance[c] = "listed" THEN e ELSE @]

Init ==
  /\ permanentFailure = FALSE
  /\ instance = [c \in Connection |-> "none"]
  /\ loop = [c \in Connection |-> "idle"]
  /\ attempt = [c \in Connection |-> 0]
  /\ working = [c \in Connection |-> FALSE]
  /\ listening = [c \in Connection |-> FALSE]
  /\ failed = [c \in Connection |-> FALSE]
  /\ last = [c \in Connection |-> "none"]
  /\ losses = [c \in Connection |-> 0]

(***************************************************************************)
(* Permanent failures.  The protocols of cs are disposed, so they listen   *)
(* to their sockets no more, and the sockets are closed.                   *)
(***************************************************************************)
GotoPermanentFailure(cs) ==
  /\ last' = [c \in Connection |->
                IF c \in cs /\ instance[c] = "listed" THEN "permanentFailure" ELSE last[c]]
  /\ failed' = [c \in Connection |-> c \in cs \/ failed[c]]
  /\ listening' = [c \in Connection |-> c \notin cs /\ listening[c]]
  /\ working' = [c \in Connection |-> c \notin cs /\ working[c]]

Listed == {c \in Connection : instance[c] = "listed"}

TriggerPermanentFailure ==
  /\ permanentFailure' = TRUE
  /\ GotoPermanentFailure(Listed)

OnReconnectionPermanentFailure(c) ==
  IF c \in Fatal
  THEN TriggerPermanentFailure
  ELSE GotoPermanentFailure({c}) /\ UNCHANGED permanentFailure

\* Mutant of Connect: the constructor does not look for an earlier failure.
ConnectUnchecked(c) ==
  /\ instance[c] = "none"
  /\ instance' = [instance EXCEPT ![c] = "listed"]
  /\ working' = [working EXCEPT ![c] = TRUE]
  /\ listening' = [listening EXCEPT ![c] = TRUE]
  /\ last' = [last EXCEPT ![c] = "gain"]
  /\ UNCHANGED <<permanentFailure, loop, attempt, failed, losses>>

(***************************************************************************)
(* The first connection, in createInitialConnection.                       *)
(***************************************************************************)
\* The constructor.
Connect(c) ==
  /\ instance[c] = "none"
  /\ instance' = [instance EXCEPT ![c] = "listed"]
  /\ failed' = [failed EXCEPT ![c] = permanentFailure]
  /\ working' = [working EXCEPT ![c] = ~permanentFailure]
  /\ listening' = [listening EXCEPT ![c] = ~permanentFailure]
  /\ last' = [last EXCEPT ![c] = IF permanentFailure THEN "permanentFailure" ELSE "gain"]
  /\ UNCHANGED <<permanentFailure, loop, attempt, losses>>

ConnectFails(c) ==
  /\ instance[c] = "none"
  /\ TriggerPermanentFailure
  /\ UNCHANGED <<instance, loop, attempt, losses>>

(***************************************************************************)
(* The loop.  It starts when the protocol tells that its socket has closed *)
(* or is silent, and does not start twice.                                 *)
(***************************************************************************)
Run(c) ==
  /\ loop' = [loop EXCEPT ![c] = "resolving"]
  /\ Fire(c, "running")

SocketLost(c) ==
  /\ instance[c] # "none"
  /\ working[c] /\ listening[c]
  /\ losses[c] < MaxLosses
  /\ losses' = [losses EXCEPT ![c] = @ + 1]
  /\ IF loop[c] # "idle" \/ permanentFailure \/ instance[c] = "disposed"
     THEN /\ working' = [working EXCEPT ![c] = FALSE]
          /\ UNCHANGED <<permanentFailure, loop, attempt, listening, failed, last>>
     ELSE \/ /\ ZeroGraceTime
             /\ OnReconnectionPermanentFailure(c)
             /\ UNCHANGED <<loop, attempt>>
          \/ /\ working' = [working EXCEPT ![c] = FALSE]
             /\ attempt' = [attempt EXCEPT ![c] = 0]
             /\ Run(c)
             /\ UNCHANGED <<permanentFailure, listening, failed>>
  /\ UNCHANGED instance

\* Mutant of WaitOver: the failure of another connection is not looked for.
WaitOverUnchecked(c) ==
  /\ loop[c] = "waiting"
  /\ Run(c)
  /\ UNCHANGED <<permanentFailure, instance, attempt, working, listening, failed, losses>>

\* The timer has fired, or the user has cancelled it.
WaitOver(c) ==
  /\ loop[c] = "waiting"
  /\ IF permanentFailure
     THEN loop' = [loop EXCEPT ![c] = "idle"] /\ UNCHANGED last
     ELSE Run(c)
  /\ UNCHANGED <<permanentFailure, instance, attempt, working, listening, failed, losses>>

\* getAddress has answered; the time limit of the attempt starts only now.
AddressResolved(c) ==
  /\ loop[c] = "resolving"
  /\ loop' = [loop EXCEPT ![c] = "connecting"]
  /\ UNCHANGED <<permanentFailure, instance, attempt, working, listening, failed, last,
                 losses>>

\* beginAcceptReconnection, whatever has become of the protocol meanwhile.
SocketCreated(c) ==
  /\ loop[c] = "connecting"
  /\ loop' = [loop EXCEPT ![c] = "handshake"]
  /\ working' = [working EXCEPT ![c] = TRUE]
  /\ listening' = [listening EXCEPT ![c] = TRUE]
  /\ UNCHANGED <<permanentFailure, instance, attempt, failed, last, losses>>

Answered(c) ==
  /\ loop[c] = "handshake"
  /\ working[c] /\ listening[c]
  /\ loop' = [loop EXCEPT ![c] = "idle"]
  /\ Fire(c, "gain")
  /\ UNCHANGED <<permanentFailure, instance, attempt, working, listening, failed, losses>>

Attempting(c) == loop[c] \in {"resolving", "connecting", "handshake"}

\* The loop ends if the error is permanent or comes after the grace time.
AttemptFailsForGood(c) ==
  /\ Attempting(c)
  /\ OnReconnectionPermanentFailure(c)
  /\ loop' = [loop EXCEPT ![c] = "idle"]
  /\ UNCHANGED <<instance, attempt, losses>>

AttemptFails(c) ==
  /\ Attempting(c)
  /\ attempt[c] < MaxAttempts
  /\ IF permanentFailure \/ instance[c] = "disposed"
     THEN /\ loop' = [loop EXCEPT ![c] = "idle"]
          /\ UNCHANGED <<attempt, last>>
     ELSE /\ loop' = [loop EXCEPT ![c] = "waiting"]
          /\ attempt' = [attempt EXCEPT ![c] = @ + 1]
          /\ Fire(c, "wait")
  /\ UNCHANGED <<permanentFailure, instance, working, listening, failed, losses>>

\* dispose().  The protocol is left to whoever disposes the connection.
Dispose(c) ==
  /\ instance[c] = "listed"
  /\ instance' = [instance EXCEPT ![c] = "disposed"]
  /\ UNCHANGED <<permanentFailure, loop, attempt, working, listening, failed, last, losses>>

\* Mutant of AttemptEnds: the wait for the answer has no time limit.
AttemptEndsUnlimited(c) ==
  \/ AddressResolved(c) \/ SocketCreated(c) \/ Answered(c)
  \/ loop[c] # "handshake" /\ (AttemptFailsForGood(c) \/ AttemptFails(c))

AttemptEnds(c) ==
  \/ AddressResolved(c) \/ SocketCreated(c) \/ Answered(c)
  \/ AttemptFailsForGood(c) \/ AttemptFails(c)

Next ==
  \E c \in Connection :
    \/ Connect(c) \/ ConnectFails(c)
    \/ SocketLost(c) \/ WaitOver(c) \/ AttemptEnds(c)
    \/ Dispose(c)

\* Timers fire, and an attempt has a time limit once it knows the address.  The
\* wait for the address has none.
Fairness ==
  \A c \in Connection :
    WF_vars(WaitOver(c)) /\ WF_vars(loop[c] # "resolving" /\ AttemptEnds(c))

Spec == Init /\ [][Next]_vars
FairSpec == Spec /\ Fairness

(***************************************************************************)
(* Properties.                                                             *)
(***************************************************************************)
\* Every variable has its type.
TypeOK ==
  /\ permanentFailure \in BOOLEAN
  /\ instance \in [Connection -> {"none", "listed", "disposed"}]
  /\ loop \in [Connection -> {"idle", "waiting", "resolving", "connecting", "handshake"}]
  /\ attempt \in [Connection -> 0 .. MaxAttempts]
  /\ working \in [Connection -> BOOLEAN]
  /\ listening \in [Connection -> BOOLEAN]
  /\ failed \in [Connection -> BOOLEAN]
  /\ last \in [Connection -> Event]
  /\ losses \in [Connection -> 0 .. MaxLosses]

\* A fatal failure reaches every connection of the window, those made later
\* included.
FailureReachesAll == permanentFailure => \A c \in Listed : failed[c]

\* What the user is shown is what goes on: a connection that has not failed
\* shows the wait or the attempt it is in, and one at rest shows that it is
\* connected.  Nobody is left with a progress that nothing will end.
EventsTellTheState ==
  \A c \in Listed :
    /\ loop[c] = "idle" => last[c] \in {"gain", "permanentFailure"}
    /\ ~failed[c] =>
         last[c] = CASE loop[c] = "idle" -> "gain"
                     [] loop[c] = "waiting" -> "wait"
                     [] OTHER -> "running"

\* A lost connection is regained, fails or is disposed, if no attempt waits for
\* the address for ever: whoever resolves it may never answer, and the loop looks
\* at the grace time only when an attempt has failed.
LossEnds ==
  \A c \in Connection :
    []<>(loop[c] # "resolving") =>
      (loop[c] # "idle" ~> \/ instance[c] = "disposed"
                           \/ loop[c] = "idle" /\ last[c] \in {"gain", "permanentFailure"})

\* A management connection that has failed for good is not gained again: its
\* listeners have told the user to reload the window.
NoGainAfterFailure ==
  [][\A c \in Fatal : last[c] = "permanentFailure" => last'[c] # "gain"]_last
=============================================================================
