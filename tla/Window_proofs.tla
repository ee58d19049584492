---------------------------- MODULE Window_proofs ----------------------------
(***************************************************************************)
(* Proofs of the safety properties of three parts of a window, its         *)
(* connections to the server (PersistentConnection), a file that is edited *)
(* in it (StoredFileWorkingCopy), and an emitter of events (Emitter).      *)
(* They share nothing.                                                     *)
(***************************************************************************)
EXTENDS PersistentConnection, StoredFileWorkingCopy, Emitter, FiniteSetTheorems,
        WellFoundedInduction, TLAPS

(***************************************************************************)
(* The connections of a window: the inductive invariant.  A failure of its *)
(* own ends the loop of a connection and stops its protocol, so that no    *)
(* loop starts again; the failure of another connection leaves the loop    *)
(* where it waits, and only the last event tells it then.                  *)
(***************************************************************************)
NotConnectedIsIdle == \A c \in Connection : instance[c] = "none" => loop[c] = "idle"

OwnFailureEnds ==
  ~permanentFailure =>
    \A c \in Listed :
      failed[c] => loop[c] = "idle" /\ ~listening[c] /\ last[c] = "permanentFailure"

OthersFailureIsTold ==
  \A c \in Listed : failed[c] /\ loop[c] # "idle" => last[c] = "permanentFailure"

\* EventsTellTheState, for one connection.
EventTellsTheState(c) ==
  /\ loop[c] = "idle" => last[c] \in {"gain", "permanentFailure"}
  /\ ~failed[c] =>
       /\ loop[c] = "idle" => last[c] = "gain"
       /\ loop[c] = "waiting" => last[c] = "wait"
       /\ loop[c] \in {"resolving", "connecting", "handshake"} => last[c] = "running"

Told == \A c \in Listed : EventTellsTheState(c)

ConnectionIInv ==
  /\ TypeOK
  /\ NotConnectedIsIdle
  /\ OwnFailureEnds
  /\ OthersFailureIsTold
  /\ FailureReachesAll
  /\ Told

(***************************************************************************)
(* A permanent failure keeps the types of what it changes.                 *)
(***************************************************************************)
LEMMA FailureTypes ==
  ASSUME TypeOK, NEW cs, GotoPermanentFailure(cs)
  PROVE  /\ last' \in [Connection -> Event]
         /\ failed' \in [Connection -> BOOLEAN]
         /\ listening' \in [Connection -> BOOLEAN]
         /\ working' \in [Connection -> BOOLEAN]
<1>1. \A d \in Connection :
        (IF d \in cs /\ instance[d] = "listed" THEN "permanentFailure" ELSE last[d]) \in Event
  BY DEF TypeOK, Event
<1>2. last' \in [Connection -> Event]
  BY <1>1 DEF GotoPermanentFailure
<1>3. failed' \in [Connection -> BOOLEAN]
  BY Zenon DEF TypeOK, GotoPermanentFailure
<1>4. listening' \in [Connection -> BOOLEAN]
  BY Zenon DEF TypeOK, GotoPermanentFailure
<1>5. working' \in [Connection -> BOOLEAN]
  BY Zenon DEF TypeOK, GotoPermanentFailure
<1> QED
  BY <1>2, <1>3, <1>4, <1>5

LEMMA OwnFailureTypes ==
  ASSUME TypeOK, NEW c \in Connection, OnReconnectionPermanentFailure(c)
  PROVE  /\ permanentFailure' \in BOOLEAN
         /\ last' \in [Connection -> Event]
         /\ failed' \in [Connection -> BOOLEAN]
         /\ listening' \in [Connection -> BOOLEAN]
         /\ working' \in [Connection -> BOOLEAN]
<1>1. CASE c \in Fatal
  <2>1. permanentFailure' = TRUE /\ GotoPermanentFailure(Listed)
    BY <1>1 DEF OnReconnectionPermanentFailure, TriggerPermanentFailure
  <2> QED
    BY <2>1, FailureTypes
<1>2. CASE c \notin Fatal
  <2>1. permanentFailure' = permanentFailure /\ GotoPermanentFailure({c})
    BY <1>2 DEF OnReconnectionPermanentFailure
  <2> QED
    BY <2>1, FailureTypes DEF TypeOK
<1> QED
  BY <1>1, <1>2

(***************************************************************************)
(* Every action keeps the invariant.                                       *)
(***************************************************************************)
LEMMA ConnectInvariant ==
  ASSUME ConnectionIInv, NEW c \in Connection, Connect(c)
  PROVE  ConnectionIInv'
<1> USE ConstantsAssumption DEF ConnectionIInv
<1>1. TypeOK'
  BY DEF TypeOK, Connect, Event
<1>2. NotConnectedIsIdle'
  BY DEF NotConnectedIsIdle, TypeOK, Connect
<1>3. OwnFailureEnds'
  BY DEF OwnFailureEnds, NotConnectedIsIdle, FailureReachesAll, Listed, TypeOK,
         Connect
<1>4. OthersFailureIsTold'
  BY DEF OthersFailureIsTold, OwnFailureEnds, NotConnectedIsIdle,
         FailureReachesAll, Listed, TypeOK, Connect
<1>5. FailureReachesAll'
  BY DEF FailureReachesAll, Listed, TypeOK, Connect
<1>6. Told'
  BY DEF Told, EventTellsTheState, OthersFailureIsTold, OwnFailureEnds,
         NotConnectedIsIdle, FailureReachesAll, Listed, TypeOK, Connect
<1> QED
  BY <1>1, <1>2, <1>3, <1>4, <1>5, <1>6

LEMMA ConnectFailsInvariant ==
  ASSUME ConnectionIInv, NEW c \in Connection, ConnectFails(c)
  PROVE  ConnectionIInv'
<1> USE ConstantsAssumption DEF ConnectionIInv
<1>1. TypeOK'
  BY DEF TypeOK, ConnectFails, TriggerPermanentFailure, GotoPermanentFailure,
         Event
<1>2. NotConnectedIsIdle'
  BY DEF NotConnectedIsIdle, TypeOK, ConnectFails, TriggerPermanentFailure,
         GotoPermanentFailure
<1>3. OwnFailureEnds'
  BY DEF OwnFailureEnds, NotConnectedIsIdle, FailureReachesAll, Listed, TypeOK,
         ConnectFails, TriggerPermanentFailure, GotoPermanentFailure
<1>4. OthersFailureIsTold'
  BY DEF OthersFailureIsTold, OwnFailureEnds, NotConnectedIsIdle,
         FailureReachesAll, Listed, TypeOK, ConnectFails,
         TriggerPermanentFailure, GotoPermanentFailure
<1>5. FailureReachesAll'
  BY DEF FailureReachesAll, Listed, TypeOK, ConnectFails,
         TriggerPermanentFailure, GotoPermanentFailure
<1>6. Told'
  BY DEF Told, EventTellsTheState, OthersFailureIsTold, OwnFailureEnds,
         NotConnectedIsIdle, FailureReachesAll, Listed, TypeOK, ConnectFails,
         TriggerPermanentFailure, GotoPermanentFailure
<1> QED
  BY <1>1, <1>2, <1>3, <1>4, <1>5, <1>6

LEMMA SocketLostInvariant ==
  ASSUME ConnectionIInv, NEW c \in Connection, SocketLost(c)
  PROVE  ConnectionIInv'
<1> USE ConstantsAssumption DEF ConnectionIInv
<1>1. TypeOK'
  <2>1. CASE OnReconnectionPermanentFailure(c) /\ UNCHANGED <<loop, attempt>>
    BY <2>1, OwnFailureTypes DEF TypeOK, SocketLost
  <2>2. CASE /\ working' = [working EXCEPT ![c] = FALSE]
             /\ UNCHANGED <<permanentFailure, loop, attempt, listening, failed, last>>
    BY <2>2 DEF TypeOK, SocketLost
  <2>3. CASE /\ working' = [working EXCEPT ![c] = FALSE]
             /\ attempt' = [attempt EXCEPT ![c] = 0]
             /\ Run(c)
             /\ UNCHANGED <<permanentFailure, listening, failed>>
    BY <2>3 DEF TypeOK, SocketLost, Run, Fire, Event
  <2> QED
    BY <2>1, <2>2, <2>3 DEF SocketLost
<1>2. NotConnectedIsIdle'
  BY DEF NotConnectedIsIdle, TypeOK, SocketLost, Run, Fire,
         OnReconnectionPermanentFailure, TriggerPermanentFailure,
         GotoPermanentFailure
<1>3. OwnFailureEnds'
  BY DEF OwnFailureEnds, NotConnectedIsIdle, FailureReachesAll, Listed, TypeOK,
         SocketLost, Run, Fire, OnReconnectionPermanentFailure,
         TriggerPermanentFailure, GotoPermanentFailure
<1>4. OthersFailureIsTold'
  BY DEF OthersFailureIsTold, OwnFailureEnds, NotConnectedIsIdle,
         FailureReachesAll, Listed, TypeOK, SocketLost, Run, Fire,
         OnReconnectionPermanentFailure, TriggerPermanentFailure,
         GotoPermanentFailure
<1>5. FailureReachesAll'
  BY DEF FailureReachesAll, Listed, TypeOK, SocketLost, Run, Fire,
         OnReconnectionPermanentFailure, TriggerPermanentFailure,
         GotoPermanentFailure
<1>6. Told'
  BY DEF Told, EventTellsTheState, OthersFailureIsTold, OwnFailureEnds,
         NotConnectedIsIdle, FailureReachesAll, Listed, TypeOK, SocketLost, Run,
         Fire, OnReconnectionPermanentFailure, TriggerPermanentFailure,
         GotoPermanentFailure
<1> QED
  BY <1>1, <1>2, <1>3, <1>4, <1>5, <1>6

LEMMA WaitOverInvariant ==
  ASSUME ConnectionIInv, NEW c \in Connection, WaitOver(c)
  PROVE  ConnectionIInv'
<1> USE ConstantsAssumption DEF ConnectionIInv
<1>1. TypeOK'
  BY DEF TypeOK, WaitOver, Run, Fire, Event
<1>2. NotConnectedIsIdle'
  BY DEF NotConnectedIsIdle, TypeOK, WaitOver, Run, Fire
<1>3. OwnFailureEnds'
  BY DEF OwnFailureEnds, NotConnectedIsIdle, FailureReachesAll, Listed, TypeOK,
         WaitOver, Run, Fire
<1>4. OthersFailureIsTold'
  BY DEF OthersFailureIsTold, OwnFailureEnds, NotConnectedIsIdle,
         FailureReachesAll, Listed, TypeOK, WaitOver, Run, Fire
<1>5. FailureReachesAll'
  BY DEF FailureReachesAll, Listed, TypeOK, WaitOver, Run, Fire
<1>6. Told'
  BY DEF Told, EventTellsTheState, OthersFailureIsTold, OwnFailureEnds,
         NotConnectedIsIdle, FailureReachesAll, Listed, TypeOK, WaitOver, Run,
         Fire
<1> QED
  BY <1>1, <1>2, <1>3, <1>4, <1>5, <1>6

LEMMA AddressResolvedInvariant ==
  ASSUME ConnectionIInv, NEW c \in Connection, AddressResolved(c)
  PROVE  ConnectionIInv'
<1> USE ConstantsAssumption DEF ConnectionIInv
<1>1. TypeOK'
  BY DEF TypeOK, AddressResolved, Event
<1>2. NotConnectedIsIdle'
  BY DEF NotConnectedIsIdle, TypeOK, AddressResolved
<1>3. OwnFailureEnds'
  BY DEF OwnFailureEnds, NotConnectedIsIdle, FailureReachesAll, Listed, TypeOK,
         AddressResolved
<1>4. OthersFailureIsTold'
  BY DEF OthersFailureIsTold, OwnFailureEnds, NotConnectedIsIdle,
         FailureReachesAll, Listed, TypeOK, AddressResolved
<1>5. FailureReachesAll'
  BY DEF FailureReachesAll, Listed, TypeOK, AddressResolved
<1>6. Told'
  BY DEF Told, EventTellsTheState, OthersFailureIsTold, OwnFailureEnds,
         NotConnectedIsIdle, FailureReachesAll, Listed, TypeOK, AddressResolved
<1> QED
  BY <1>1, <1>2, <1>3, <1>4, <1>5, <1>6

LEMMA SocketCreatedInvariant ==
  ASSUME ConnectionIInv, NEW c \in Connection, SocketCreated(c)
  PROVE  ConnectionIInv'
<1> USE ConstantsAssumption DEF ConnectionIInv
<1>1. TypeOK'
  BY DEF TypeOK, SocketCreated, Event
<1>2. NotConnectedIsIdle'
  BY DEF NotConnectedIsIdle, TypeOK, SocketCreated
<1>3. OwnFailureEnds'
  BY DEF OwnFailureEnds, NotConnectedIsIdle, FailureReachesAll, Listed, TypeOK,
         SocketCreated
<1>4. OthersFailureIsTold'
  BY DEF OthersFailureIsTold, OwnFailureEnds, NotConnectedIsIdle,
         FailureReachesAll, Listed, TypeOK, SocketCreated
<1>5. FailureReachesAll'
  BY DEF FailureReachesAll, Listed, TypeOK, SocketCreated
<1>6. Told'
  BY DEF Told, EventTellsTheState, OthersFailureIsTold, OwnFailureEnds,
         NotConnectedIsIdle, FailureReachesAll, Listed, TypeOK, SocketCreated
<1> QED
  BY <1>1, <1>2, <1>3, <1>4, <1>5, <1>6

LEMMA AnsweredInvariant ==
  ASSUME ConnectionIInv, NEW c \in Connection, Answered(c)
  PROVE  ConnectionIInv'
<1> USE ConstantsAssumption DEF ConnectionIInv
<1>1. TypeOK'
  BY DEF TypeOK, Answered, Fire, Event
<1>2. NotConnectedIsIdle'
  BY DEF NotConnectedIsIdle, TypeOK, Answered, Fire
<1>3. OwnFailureEnds'
  BY DEF OwnFailureEnds, NotConnectedIsIdle, FailureReachesAll, Listed, TypeOK,
         Answered, Fire
<1>4. OthersFailureIsTold'
  BY DEF OthersFailureIsTold, OwnFailureEnds, NotConnectedIsIdle,
         FailureReachesAll, Listed, TypeOK, Answered, Fire
<1>5. FailureReachesAll'
  BY DEF FailureReachesAll, Listed, TypeOK, Answered, Fire
<1>6. Told'
  BY DEF Told, EventTellsTheState, OthersFailureIsTold, OwnFailureEnds,
         NotConnectedIsIdle, FailureReachesAll, Listed, TypeOK, Answered, Fire
<1> QED
  BY <1>1, <1>2, <1>3, <1>4, <1>5, <1>6

LEMMA AttemptFailsForGoodInvariant ==
  ASSUME ConnectionIInv, NEW c \in Connection, AttemptFailsForGood(c)
  PROVE  ConnectionIInv'
<1> USE ConstantsAssumption DEF ConnectionIInv, Attempting
<1>1. TypeOK'
  BY OwnFailureTypes DEF TypeOK, AttemptFailsForGood
<1>2. NotConnectedIsIdle'
  BY DEF NotConnectedIsIdle, TypeOK, AttemptFailsForGood,
         OnReconnectionPermanentFailure, TriggerPermanentFailure,
         GotoPermanentFailure
<1>3. OwnFailureEnds'
  BY DEF OwnFailureEnds, NotConnectedIsIdle, FailureReachesAll, Listed, TypeOK,
         AttemptFailsForGood, OnReconnectionPermanentFailure,
         TriggerPermanentFailure, GotoPermanentFailure
<1>4. OthersFailureIsTold'
  BY DEF OthersFailureIsTold, OwnFailureEnds, NotConnectedIsIdle,
         FailureReachesAll, Listed, TypeOK, AttemptFailsForGood,
         OnReconnectionPermanentFailure, TriggerPermanentFailure,
         GotoPermanentFailure
<1>5. FailureReachesAll'
  BY DEF FailureReachesAll, Listed, TypeOK, AttemptFailsForGood,
         OnReconnectionPermanentFailure, TriggerPermanentFailure,
         GotoPermanentFailure
<1>6. Told'
  <2>1. SUFFICES ASSUME NEW d \in Connection, instance[d] = "listed"
                 PROVE  EventTellsTheState(d)'
    BY DEF Told, Listed, AttemptFailsForGood
  <2>2. EventTellsTheState(d)
    BY <2>1 DEF Told, Listed
  <2>3. CASE c \in Fatal \/ d = c
    <3>1. failed'[d] /\ last'[d] = "permanentFailure"
      BY <2>1, <2>3 DEF AttemptFailsForGood, OnReconnectionPermanentFailure,
           TriggerPermanentFailure, GotoPermanentFailure, Listed
    <3> QED
      BY <3>1 DEF EventTellsTheState
  <2>4. CASE c \notin Fatal /\ d # c
    <3>1. loop'[d] = loop[d] /\ last'[d] = last[d] /\ (failed'[d] <=> failed[d])
      BY <2>4 DEF AttemptFailsForGood, OnReconnectionPermanentFailure,
           GotoPermanentFailure, TypeOK
    <3> QED
      BY <2>2, <3>1 DEF EventTellsTheState
  <2> QED
    BY <2>3, <2>4
<1> QED
  BY <1>1, <1>2, <1>3, <1>4, <1>5, <1>6

LEMMA AttemptFailsInvariant ==
  ASSUME ConnectionIInv, NEW c \in Connection, AttemptFails(c)
  PROVE  ConnectionIInv'
<1> USE ConstantsAssumption DEF ConnectionIInv, Attempting
<1>1. TypeOK'
  BY DEF TypeOK, AttemptFails, Fire, Event
<1>2. NotConnectedIsIdle'
  BY DEF NotConnectedIsIdle, TypeOK, AttemptFails, Fire
<1>3. OwnFailureEnds'
  BY DEF OwnFailureEnds, NotConnectedIsIdle, FailureReachesAll, Listed, TypeOK,
         AttemptFails, Fire
<1>4. OthersFailureIsTold'
  BY DEF OthersFailureIsTold, OwnFailureEnds, NotConnectedIsIdle,
         FailureReachesAll, Listed, TypeOK, AttemptFails, Fire
<1>5. FailureReachesAll'
  BY DEF FailureReachesAll, Listed, TypeOK, AttemptFails, Fire
<1>6. Told'
  BY DEF Told, EventTellsTheState, OthersFailureIsTold, OwnFailureEnds,
         NotConnectedIsIdle, FailureReachesAll, Listed, TypeOK, AttemptFails,
         Fire
<1> QED
  BY <1>1, <1>2, <1>3, <1>4, <1>5, <1>6

LEMMA DisposeInvariant ==
  ASSUME ConnectionIInv, NEW c \in Connection, Dispose(c)
  PROVE  ConnectionIInv'
<1> USE ConstantsAssumption DEF ConnectionIInv
<1>1. TypeOK'
  BY DEF TypeOK, Dispose, Event
<1>2. NotConnectedIsIdle'
  BY DEF NotConnectedIsIdle, TypeOK, Dispose
<1>3. OwnFailureEnds'
  BY DEF OwnFailureEnds, NotConnectedIsIdle, FailureReachesAll, Listed, TypeOK,
         Dispose
<1>4. OthersFailureIsTold'
  BY DEF OthersFailureIsTold, OwnFailureEnds, NotConnectedIsIdle,
         FailureReachesAll, Listed, TypeOK, Dispose
<1>5. FailureReachesAll'
  BY DEF FailureReachesAll, Listed, TypeOK, Dispose
<1>6. Told'
  BY DEF Told, EventTellsTheState, OthersFailureIsTold, OwnFailureEnds,
         NotConnectedIsIdle, FailureReachesAll, Listed, TypeOK, Dispose
<1> QED
  BY <1>1, <1>2, <1>3, <1>4, <1>5, <1>6

(***************************************************************************)
(* The theorems.                                                           *)
(***************************************************************************)
\* The inductive invariant of the connections of a window.
THEOREM ConnectionInvariance == Spec => []ConnectionIInv
<1>1. Init => ConnectionIInv
  <2> SUFFICES ASSUME Init
               PROVE  ConnectionIInv
    OBVIOUS
  <2>1. TypeOK
    <3>1. 0 \in 0 .. MaxAttempts /\ 0 \in 0 .. MaxLosses
      BY ConstantsAssumption
    <3>2. "none" \in Event
      BY DEF Event
    <3> QED
      BY <3>1, <3>2 DEF Init, TypeOK
  <2>2. NotConnectedIsIdle
    BY DEF Init, NotConnectedIsIdle
  <2>3. Listed = {}
    BY DEF Init, Listed
  <2> QED
    BY <2>1, <2>2, <2>3
       DEF ConnectionIInv, OwnFailureEnds, OthersFailureIsTold, FailureReachesAll, Told
<1>2. ConnectionIInv /\ [Next]_vars => ConnectionIInv'
  <2> SUFFICES ASSUME ConnectionIInv, [Next]_vars
               PROVE  ConnectionIInv'
    OBVIOUS
  <2>1. CASE UNCHANGED vars
    BY <2>1 DEF vars, ConnectionIInv, TypeOK, NotConnectedIsIdle, OwnFailureEnds,
         OthersFailureIsTold, FailureReachesAll, Told, EventTellsTheState, Listed
  <2>2. ASSUME NEW c \in Connection, Connect(c)
        PROVE  ConnectionIInv'
    BY <2>2, ConnectInvariant
  <2>3. ASSUME NEW c \in Connection, ConnectFails(c)
        PROVE  ConnectionIInv'
    BY <2>3, ConnectFailsInvariant
  <2>4. ASSUME NEW c \in Connection, SocketLost(c)
        PROVE  ConnectionIInv'
    BY <2>4, SocketLostInvariant
  <2>5. ASSUME NEW c \in Connection, WaitOver(c)
        PROVE  ConnectionIInv'
    BY <2>5, WaitOverInvariant
  <2>6. ASSUME NEW c \in Connection, AttemptEnds(c)
        PROVE  ConnectionIInv'
    BY <2>6, AddressResolvedInvariant, SocketCreatedInvariant, AnsweredInvariant, AttemptFailsForGoodInvariant,
       AttemptFailsInvariant DEF AttemptEnds
  <2>7. ASSUME NEW c \in Connection, Dispose(c)
        PROVE  ConnectionIInv'
    BY <2>7, DisposeInvariant
  <2> QED
    BY <2>1, <2>2, <2>3, <2>4, <2>5, <2>6, <2>7 DEF Next
<1> QED
  BY <1>1, <1>2, PTL DEF Spec

\* Type correctness; in particular the loop makes at most one more attempt
\* after each that fails.
THEOREM TypeCorrect == Spec => []TypeOK
<1>1. ConnectionIInv => TypeOK
  BY DEF ConnectionIInv
<1> QED
  BY <1>1, ConnectionInvariance, PTL

\* A fatal failure reaches every connection of a window, those that are made
\* after it included, in whatever order they fail, connect and reconnect.
THEOREM FailureReachesAllCorrect == Spec => []FailureReachesAll
<1>1. ConnectionIInv => FailureReachesAll
  BY DEF ConnectionIInv
<1> QED
  BY <1>1, ConnectionInvariance, PTL

\* The last event of a connection tells what its reconnection loop does.
THEOREM EventsTellTheStateCorrect == Spec => []EventsTellTheState
<1>1. ConnectionIInv => EventsTellTheState
  <2> SUFFICES ASSUME ConnectionIInv, NEW c \in Listed
               PROVE  /\ loop[c] = "idle" => last[c] \in {"gain", "permanentFailure"}
                      /\ ~failed[c] =>
                           last[c] = CASE loop[c] = "idle" -> "gain"
                                       [] loop[c] = "waiting" -> "wait"
                                       [] OTHER -> "running"
    BY DEF EventsTellTheState
  <2>1. EventTellsTheState(c)
    BY DEF ConnectionIInv, Told
  <2>2. loop[c] \in {"idle", "waiting", "resolving", "connecting", "handshake"}
    BY DEF ConnectionIInv, TypeOK, Listed
  <2> QED
    BY <2>1, <2>2 DEF EventTellsTheState
<1> QED
  BY <1>1, ConnectionInvariance, PTL

-----------------------------------------------------------------------------
(***************************************************************************)
(* A file that is edited: the inductive invariant.                         *)
(***************************************************************************)
\* The sequentializer runs the save that there is, under the version that this
\* save will write.  Versions only grow.
RunningIsTheSave ==
  /\ \A i \in Slot : saves[i] # NoSave <=> SaveUnderWay /\ running.slot = i
  /\ \A i \in Slot : saves[i] # NoSave =>
       /\ running.id = saves[i].inner
       /\ saves[i].outer <= saves[i].inner
       /\ saves[i].inner <= versionId

\* A request is queued behind a save of an older version, which is past its
\* participants: its inner version is not taken again.
QueuedIsNewer ==
  queued # NotQueued =>
    /\ SaveUnderWay
    /\ saves[running.slot].stage # "participants"
    /\ running.id < versionId

\* A resolve for a revert is what the revert waits for, one for a reload is that
\* of the first reload in the queue.
ResolvingFor ==
  /\ resolving # NoResolve /\ resolving.why = "revert" <=> reverting.stage = "resolving"
  /\ resolving # NoResolve /\ resolving.why = "reload" => reloads > 0
  /\ resolving.stage = "parsing" => resolving.content \in kept

\* What a failed revert sets back.
RevertUndoes ==
  reverting # NoRevert =>
    /\ reverting.undo.dirty
    /\ reverting.undo.savedVersion \in kept \cup {NoContent}

\* What a save has of a version is the content of that version, and what it has
\* written was in the file.
SavedIsCurrent ==
  \A i \in Slot : saves[i] # NoSave =>
    /\ saves[i].inner = versionId => saves[i].content = model.content
    /\ saves[i].stage = "written" => saves[i].content \in kept

\* What the copy returns to, and what it would read, was in the file.
SavedIsKept ==
  /\ savedVersion \in kept \cup {NoContent}
  /\ disk.content \in kept

CopyIInv ==
  /\ CopyTypeOK
  /\ RunningIsTheSave
  /\ QueuedIsNewer
  /\ ResolvingFor
  /\ RevertUndoes
  /\ SavedIsCurrent
  /\ SavedIsKept
  /\ CleanMeansStored

(***************************************************************************)
(* Initial states.                                                         *)
(***************************************************************************)
LEMMA TwoContents ==
  1 \in Content /\ 2 \in Content
<1>1. MaxContent \in Nat /\ MaxContent # 0 /\ MaxContent # 1
  BY CopyAssumption DEF CopyAssumption
<1> QED
  BY <1>1 DEF Content

LEMMA InitIInv ==
  CopyInit => CopyIInv
<1> SUFFICES ASSUME CopyInit PROVE CopyIInv
  OBVIOUS
<1>1. PICK restored \in BOOLEAN :
        /\ disk = [content |-> 1, mtime |-> IF restored THEN 1 ELSE 0]
        /\ model = [content |-> IF restored THEN 2 ELSE 1, undo |-> NoContent]
        /\ dirty = restored
        /\ savedVersion = IF restored THEN NoContent ELSE 1
        /\ fresh = IF restored THEN 2 ELSE 1
  BY DEF CopyInit
<1>2. /\ kept = {1} /\ versionId = 0 /\ stat = 0 /\ reloads = 0 /\ fileEvent = FALSE
      /\ mode = [conflict |-> FALSE, error |-> FALSE]
      /\ resolving = NoResolve /\ reverting = NoRevert
      /\ saves = [i \in Slot |-> NoSave] /\ running = NoRun /\ queued = NotQueued
  BY DEF CopyInit
<1>3. CopyTypeOK
  <2>1. disk \in [content : Content, mtime : Nat]
    BY <1>1, TwoContents
  <2>2. model \in [content : Content, undo : Content \cup {NoContent}]
    BY <1>1, TwoContents
  <2>3. /\ dirty \in BOOLEAN /\ fresh \in Content
        /\ savedVersion \in Content \cup {NoContent}
    BY <1>1, TwoContents
  <2>4. mode \in Modes /\ kept \subseteq Content
    BY <1>2, TwoContents DEF Modes
  <2>5. saves \in [Slot -> {NoSave} \cup Saving]
    BY <1>2
  <2>6. /\ versionId \in Nat /\ stat \in Nat /\ reloads \in 0 .. 2
        /\ fileEvent \in BOOLEAN
    <3>1. versionId \in Nat /\ stat \in Nat /\ reloads \in 0 .. 2
      BY <1>2
    <3>2. fileEvent \in BOOLEAN
      BY <1>2
    <3> QED
      BY <3>1, <3>2
  <2>7. /\ resolving \in {NoResolve} \cup Resolving
        /\ reverting \in {NoRevert} \cup Reverting
        /\ running \in {NoRun} \cup [slot : Slot, id : Nat]
        /\ queued \in {NotQueued} \cup [queued : {TRUE}, options : SaveOptions]
    BY <1>2
  <2> QED
    BY <2>1, <2>2, <2>3, <2>4, <2>5, <2>6, <2>7 DEF CopyTypeOK
<1>4. RunningIsTheSave /\ QueuedIsNewer /\ SavedIsCurrent
  BY <1>2 DEF RunningIsTheSave, QueuedIsNewer, SavedIsCurrent, SaveUnderWay
<1>5. ResolvingFor /\ RevertUndoes
  BY <1>2 DEF ResolvingFor, RevertUndoes, NoResolve, NoRevert
<1>6. SavedIsKept /\ CleanMeansStored
  BY <1>1, <1>2 DEF SavedIsKept, CleanMeansStored
<1> QED
  BY <1>3, <1>4, <1>5, <1>6 DEF CopyIInv

(***************************************************************************)
(* What the records are, by their stages.                                  *)
(***************************************************************************)
LEMMA SavingShape ==
  ASSUME CopyTypeOK, NEW i \in Slot, saves[i] # NoSave \/ saves[i].stage # "none"
  PROVE  saves[i] \in Saving /\ saves[i] # NoSave /\ saves[i].stage # "none"
BY DEF CopyTypeOK, NoSave, Saving

LEMMA ResolvingShape ==
  ASSUME CopyTypeOK, resolving # NoResolve \/ resolving.stage # "none"
  PROVE  resolving \in Resolving /\ resolving # NoResolve /\ resolving.stage # "none"
BY DEF CopyTypeOK, NoResolve, Resolving

LEMMA RevertingShape ==
  ASSUME CopyTypeOK, reverting # NoRevert \/ reverting.stage # "none"
  PROVE  reverting \in Reverting /\ reverting # NoRevert /\ reverting.stage # "none"
BY DEF CopyTypeOK, NoRevert, Reverting

LEMMA RunningShape ==
  ASSUME CopyTypeOK, SaveUnderWay
  PROVE  running \in [slot : Slot, id : Nat]
BY DEF CopyTypeOK, SaveUnderWay

LEMMA QueuedShape ==
  ASSUME CopyTypeOK
  PROVE  /\ queued.queued \in BOOLEAN
         /\ queued # NotQueued <=> queued.queued
         /\ queued.queued => queued.options \in SaveOptions
<1>1. CASE queued = NotQueued
  <2>1. queued.queued = FALSE
    BY <1>1 DEF NotQueued
  <2> QED
    BY <1>1, <2>1
<1>2. CASE queued # NotQueued
  <2>1. queued \in [queued : {TRUE}, options : SaveOptions]
    BY <1>2 DEF CopyTypeOK
  <2>2. queued.queued = TRUE /\ queued.options \in SaveOptions
    BY <2>1
  <2> QED
    BY <1>2, <2>2
<1> QED
  BY <1>1, <1>2

LEMMA RunIsNotNoRun ==
  ASSUME NEW i \in Slot, NEW v
  PROVE  [slot |-> i, id |-> v] # NoRun /\ [slot |-> i, id |-> v].slot = i
BY DEF NoRun, Slot

LEMMA BegunShape ==
  ASSUME NEW o \in SaveOptions, NEW v \in Nat, model'.content \in Content, stat' \in Nat
  PROVE  /\ Begun(o, v) \in Saving
         /\ Begun(o, v) # NoSave
         /\ Begun(o, v).stage \in {"participants", "snapshot"}
         /\ Begun(o, v).inner = v /\ Begun(o, v).outer = v
         /\ Begun(o, v).content = model'.content
<1>1. o \in AllSaveOptions
  BY CopyAssumption DEF CopyAssumption
<1>2. Begun(o, v) \in Saving
  BY <1>1 DEF Begun, Saving, AllSaveOptions
<1>3. Begun(o, v).stage # "none" /\ Begun(o, v).stage \in {"participants", "snapshot"}
  BY DEF Begun
<1>4. Begun(o, v) # NoSave
  BY <1>3 DEF NoSave
<1> QED
  BY <1>2, <1>3, <1>4 DEF Begun

(***************************************************************************)
(* What a step leaves of the invariant that does not touch its variables.  *)
(***************************************************************************)
SaveInv == RunningIsTheSave /\ QueuedIsNewer /\ SavedIsCurrent

\* A change of the model has a version that no save has.
LEMMA SavesUntouched ==
  ASSUME CopyIInv, UNCHANGED <<saves, running, queued>>, kept \subseteq kept',
         \/ UNCHANGED <<model, versionId>>
         \/ versionId' = versionId + 1
  PROVE  SaveInv'
<1> USE DEF CopyIInv
<1>1. versionId \in Nat /\ versionId' \in Nat /\ versionId <= versionId'
  BY DEF CopyTypeOK
<1>2. SaveUnderWay' = SaveUnderWay
  BY DEF SaveUnderWay
<1>3. \A i \in Slot : saves[i] # NoSave =>
        /\ saves[i].inner \in Nat /\ saves[i].inner <= versionId /\ saves[i].outer \in Nat
        /\ versionId' # versionId => saves[i].inner # versionId'
  BY <1>1, SavingShape DEF RunningIsTheSave, Saving
<1>4. RunningIsTheSave'
  BY <1>1, <1>2, <1>3 DEF RunningIsTheSave
<1>5. QueuedIsNewer'
  <2> SUFFICES ASSUME queued # NotQueued
               PROVE  /\ SaveUnderWay
                      /\ saves[running.slot].stage # "participants"
                      /\ running.id < versionId'
    BY <1>2 DEF QueuedIsNewer
  <2> QED
    BY <1>1, RunningShape DEF QueuedIsNewer
<1>6. SavedIsCurrent'
  BY <1>1, <1>3 DEF SavedIsCurrent
<1> QED
  BY <1>4, <1>5, <1>6 DEF SaveInv

LEMMA ResolvesUntouched ==
  ASSUME CopyIInv, UNCHANGED <<resolving, reverting, reloads>>, kept \subseteq kept'
  PROVE  ResolvingFor' /\ RevertUndoes'
BY DEF CopyIInv, ResolvingFor, RevertUndoes

(***************************************************************************)
(* The end of a save, and the start of the one that is queued.             *)
(***************************************************************************)
SaveTypes ==
  /\ mode \in Modes
  /\ saves \in [Slot -> {NoSave} \cup Saving]
  /\ running \in {NoRun} \cup [slot : Slot, id : Nat]
  /\ queued \in {NotQueued} \cup [queued : {TRUE}, options : SaveOptions]

\* The slot that is not that of the running save is free.
LEMMA OneSlot ==
  ASSUME CopyIInv, NEW i \in Slot, saves[i] # NoSave
  PROVE  /\ SaveUnderWay /\ running = [slot |-> i, id |-> saves[i].inner]
         /\ \A j \in Slot : saves[j] # NoSave => j = i
<1>1. SaveUnderWay /\ running.slot = i /\ running.id = saves[i].inner
  BY DEF CopyIInv, RunningIsTheSave
<1>2. running \in [slot : Slot, id : Nat]
  BY <1>1, RunningShape DEF CopyIInv
<1>3. \A j \in Slot : saves[j] # NoSave => j = i
  BY <1>1 DEF CopyIInv, RunningIsTheSave
<1> QED
  BY <1>1, <1>2, <1>3

\* One save begins where there was this one or none.
LEMMA OneBegins ==
  ASSUME CopyIInv, NEW i \in Slot, NEW o \in SaveOptions,
         \A j \in Slot : saves[j] # NoSave => j = i,
         saves' = [saves EXCEPT ![i] = Begun(o, versionId)],
         running' = [slot |-> i, id |-> versionId],
         queued' = NotQueued,
         UNCHANGED <<model, versionId>>, stat' \in Nat, mode' \in Modes
  PROVE  SaveTypes' /\ SaveInv'
<1> DEFINE s == Begun(o, versionId)
<1>1. versionId \in Nat /\ model'.content \in Content
  BY DEF CopyIInv, CopyTypeOK
<1>2. /\ s \in Saving /\ s # NoSave /\ s.stage \in {"participants", "snapshot"}
      /\ s.inner = versionId /\ s.outer = versionId /\ s.content = model'.content
  BY <1>1, BegunShape
<1>3. saves \in [Slot -> {NoSave} \cup Saving]
  BY DEF CopyIInv, CopyTypeOK
<1> HIDE DEF s
<1>4. saves' \in [Slot -> {NoSave} \cup Saving] /\ saves'[i] = s
  BY <1>2, <1>3 DEF s
<1>5. \A j \in Slot : j # i => saves'[j] = NoSave
  BY <1>3 DEF s
<1>6. running' \in [slot : Slot, id : Nat] /\ running'.slot = i /\ running'.id = versionId
  BY <1>1
<1>7. SaveUnderWay'
  BY RunIsNotNoRun DEF SaveUnderWay
<1>8. SaveTypes'
  BY <1>4, <1>6 DEF SaveTypes
<1>9. RunningIsTheSave'
  BY <1>1, <1>2, <1>4, <1>5, <1>6, <1>7 DEF RunningIsTheSave
<1>10. SavedIsCurrent'
  BY <1>2, <1>4, <1>5 DEF SavedIsCurrent
<1> QED
  BY <1>8, <1>9, <1>10 DEF SaveInv, QueuedIsNewer

LEMMA SaveEndsKeeps ==
  ASSUME CopyIInv, NEW i \in Slot, saves[i] # NoSave, NEW m \in Modes, SaveEnds(i, m),
         UNCHANGED <<model, versionId, kept>>, stat' \in Nat
  PROVE  SaveTypes' /\ SaveInv'
<1> DEFINE next == queued.queued /\ (queued.options.force \/ dirty')
<1>1. /\ SaveUnderWay /\ running = [slot |-> i, id |-> saves[i].inner]
      /\ \A j \in Slot : saves[j] # NoSave => j = i
  BY OneSlot
<1>2. /\ saves' = [saves EXCEPT ![i] =
                     IF next THEN Begun(queued.options, versionId) ELSE NoSave]
      /\ running' = IF next /\ versionId # saves[i].outer
                    THEN [slot |-> i, id |-> versionId] ELSE NoRun
      /\ queued' = NotQueued
      /\ mode' = [m EXCEPT !.error = @ /\ ~(next /\ ~queued.options.participants)]
  BY <1>1 DEF SaveEnds
<1>3. mode' \in Modes
  BY <1>2 DEF Modes
<1>4. CASE next
  <2>1. queued # NotQueued /\ queued.options \in SaveOptions
    BY <1>4, QueuedShape DEF CopyIInv
  <2>2. saves[i].inner < versionId
    BY <1>1, <2>1 DEF CopyIInv, QueuedIsNewer
  <2>3. saves[i].outer <= saves[i].inner /\ saves[i] \in Saving /\ versionId \in Nat
    BY SavingShape DEF CopyIInv, RunningIsTheSave, CopyTypeOK
  <2>4. versionId # saves[i].outer
    BY <2>2, <2>3 DEF Saving
  <2> QED
    BY <1>1, <1>2, <1>3, <1>4, <2>1, <2>4, OneBegins
<1>5. CASE ~next
  <2>1. saves' = [saves EXCEPT ![i] = NoSave] /\ running' = NoRun
    BY <1>2, <1>5
  <2>2. saves \in [Slot -> {NoSave} \cup Saving]
    BY DEF CopyIInv, CopyTypeOK
  <2>3. \A j \in Slot : saves'[j] = NoSave
    BY <1>1, <2>1, <2>2
  <2>4. SaveTypes'
    BY <1>2, <1>3, <2>1, <2>2 DEF SaveTypes
  <2> QED
    BY <1>2, <2>1, <2>3, <2>4
       DEF SaveInv, RunningIsTheSave, QueuedIsNewer, SavedIsCurrent, SaveUnderWay
<1> QED
  BY <1>4, <1>5

(***************************************************************************)
(* The steps.                                                              *)
(***************************************************************************)
LEMMA ContentChanges ==
  ASSUME CopyIInv, OnModelContentChanged, UNCHANGED disk, kept \subseteq kept',
         model' \in [content : Content, undo : Content \cup {NoContent}],
         Updating => model'.content \in kept'
  PROVE  /\ versionId' = versionId + 1 /\ versionId' \in Nat
         /\ dirty' \in BOOLEAN /\ mode' \in Modes
         /\ savedVersion' \in Content \cup {NoContent}
         /\ SavedIsKept' /\ CleanMeansStored'
<1>1. versionId' = versionId + 1 /\ versionId' \in Nat
  BY DEF CopyIInv, CopyTypeOK, OnModelContentChanged
<1>2. CASE Updating
  <2>1. UNCHANGED <<dirty, mode, savedVersion>>
    BY <1>2 DEF OnModelContentChanged
  <2> QED
    BY <1>1, <1>2, <2>1 DEF CopyIInv, CopyTypeOK, SavedIsKept, CleanMeansStored
<1>3. CASE ~Updating /\ model'.content = savedVersion
  <2>1. /\ dirty' = FALSE /\ savedVersion' = model'.content
        /\ mode' = [conflict |-> FALSE, error |-> FALSE]
    BY <1>3 DEF OnModelContentChanged, BecomeClean
  <2>2. model'.content \in Content /\ model'.content # NoContent
    BY DEF Content, NoContent
  <2> QED
    BY <1>1, <1>3, <2>1, <2>2 DEF CopyIInv, SavedIsKept, CleanMeansStored, Modes
<1>4. CASE ~Updating /\ model'.content # savedVersion
  <2>1. dirty' = TRUE /\ UNCHANGED <<mode, savedVersion>>
    BY <1>4 DEF OnModelContentChanged, BecomeDirty
  <2> QED
    BY <1>1, <2>1 DEF CopyIInv, CopyTypeOK, SavedIsKept, CleanMeansStored
<1> QED
  BY <1>2, <1>3, <1>4

LEMMA NextContent ==
  ASSUME fresh \in Content, fresh < MaxContent
  PROVE  fresh + 1 \in Content
<1>1. MaxContent \in Nat
  BY CopyAssumption DEF CopyAssumption
<1> QED
  BY <1>1 DEF Content

LEMMA EditStep ==
  ASSUME CopyIInv, Edit \/ UndoOrRedo
  PROVE  CopyIInv'
<1>1. /\ OnModelContentChanged /\ kept \subseteq kept'
      /\ Updating => model'.content \in kept'
      /\ UNCHANGED <<disk, stat, resolving, reverting, reloads, fileEvent, saves,
                     running, queued>>
  BY DEF Edit, UndoOrRedo
<1>2. /\ fresh' \in Content
      /\ model' \in [content : Content, undo : Content \cup {NoContent}]
  <2>1. fresh \in Content /\ model \in [content : Content, undo : Content \cup {NoContent}]
    BY DEF CopyIInv, CopyTypeOK
  <2>2. CASE Edit
    BY <2>1, <2>2, NextContent DEF Edit
  <2>3. CASE UndoOrRedo
    BY <2>1, <2>3 DEF UndoOrRedo
  <2> QED
    BY <2>2, <2>3
<1>3. kept' \subseteq Content
  BY <1>2 DEF Edit, UndoOrRedo, CopyIInv, CopyTypeOK
<1>4. /\ versionId' = versionId + 1 /\ versionId' \in Nat
      /\ dirty' \in BOOLEAN /\ mode' \in Modes
      /\ savedVersion' \in Content \cup {NoContent}
      /\ SavedIsKept' /\ CleanMeansStored'
  BY <1>1, <1>2, ContentChanges
<1>5. CopyTypeOK'
  BY <1>1, <1>2, <1>3, <1>4 DEF CopyIInv, CopyTypeOK
<1>6. SaveInv' /\ ResolvingFor' /\ RevertUndoes'
  BY <1>1, <1>4, SavesUntouched, ResolvesUntouched
<1> QED
  BY <1>4, <1>5, <1>6 DEF CopyIInv, SaveInv

LEMMA SaveRequestStep ==
  ASSUME CopyIInv, NEW o \in SaveOptions, Save(o)
  PROVE  CopyIInv'
<1>1. UNCHANGED <<disk, model, versionId, dirty, savedVersion, stat, resolving, reverting,
                  reloads, fileEvent, fresh, kept>>
  BY DEF Save
<1>2. SaveTypes' /\ SaveInv'
  <2>1. CASE SaveUnderWay
    <3> DEFINE i == running.slot
    <3>1. /\ i \in Slot /\ saves[i] # NoSave
          /\ saves \in [Slot -> {NoSave} \cup Saving]
      BY <2>1, RunningShape DEF CopyIInv, RunningIsTheSave, CopyTypeOK
    <3>2. /\ running.id # versionId
          /\ saves' = [saves EXCEPT ![i].cancelled = TRUE]
          /\ queued' = [queued |-> TRUE, options |-> o]
          /\ UNCHANGED <<running, mode>>
      BY <2>1 DEF Save, DoSave
    <3>3. saves[i] \in Saving
      BY <3>1, SavingShape DEF CopyIInv
    <3> HIDE DEF i
    <3>4. /\ saves'[i] = [saves[i] EXCEPT !.cancelled = TRUE]
          /\ \A j \in Slot : j # i => saves'[j] = saves[j]
      BY <3>1, <3>2
    <3>5. /\ saves'[i] \in Saving /\ saves'[i] # NoSave
          /\ saves'[i].stage = saves[i].stage /\ saves'[i].content = saves[i].content
          /\ saves'[i].inner = saves[i].inner /\ saves'[i].outer = saves[i].outer
      BY <3>3, <3>4 DEF Saving, NoSave
    <3>6. SaveTypes'
      BY <3>1, <3>2, <3>4, <3>5 DEF SaveTypes, CopyIInv, CopyTypeOK
    <3>7. RunningIsTheSave' /\ SavedIsCurrent'
      BY <1>1, <3>1, <3>2, <3>4, <3>5
         DEF CopyIInv, RunningIsTheSave, SavedIsCurrent, SaveUnderWay
    <3>8. QueuedIsNewer'
      <4>1. saves[i].stage # "participants"
        BY <3>1 DEF Save, DoSave, InParticipants
      <4>2. running.id = saves[i].inner /\ running.id <= versionId
        BY <3>1 DEF CopyIInv, RunningIsTheSave
      <4>3. running.id \in Nat /\ versionId \in Nat
        BY <2>1, RunningShape DEF CopyIInv, CopyTypeOK
      <4> QED
        BY <1>1, <2>1, <3>2, <3>5, <4>1, <4>2, <4>3 DEF QueuedIsNewer, SaveUnderWay, i
    <3> QED
      BY <3>6, <3>7, <3>8 DEF SaveInv
  <2>2. CASE ~SaveUnderWay
    <3>1. PICK i \in Slot : saves[i] = NoSave /\ Begin(i, o)
      BY <2>2 DEF Save, DoSave
    <3>2. /\ saves' = [saves EXCEPT ![i] = Begun(o, versionId)]
          /\ running' = [slot |-> i, id |-> versionId]
          /\ mode' = [mode EXCEPT !.error = o.participants /\ @]
      BY <3>1 DEF Begin
    <3>3. \A j \in Slot : saves[j] # NoSave => j = i
      BY <2>2 DEF CopyIInv, RunningIsTheSave
    <3>4. queued' = NotQueued
      BY <2>2 DEF Save, DoSave, CopyIInv, QueuedIsNewer
    <3>5. mode' \in Modes
      BY <3>2 DEF CopyIInv, CopyTypeOK, Modes
    <3>6. stat' \in Nat
      BY <1>1 DEF CopyIInv, CopyTypeOK
    <3> QED
      BY <1>1, <3>2, <3>3, <3>4, <3>5, <3>6, OneBegins
  <2> QED
    BY <2>1, <2>2
<1>3. CopyTypeOK'
  BY <1>1, <1>2 DEF CopyIInv, CopyTypeOK, SaveTypes
<1>4. ResolvingFor' /\ RevertUndoes'
  BY <1>1, ResolvesUntouched
<1>5. SavedIsKept' /\ CleanMeansStored'
  BY <1>1 DEF CopyIInv, SavedIsKept, CleanMeansStored
<1> QED
  BY <1>2, <1>3, <1>4, <1>5 DEF CopyIInv, SaveInv

\* A save goes on, under its version or under the current one.
LEMMA SaveGoesOn ==
  ASSUME CopyIInv, NEW i \in Slot, saves[i] # NoSave, NEW s \in Saving,
         saves' = [saves EXCEPT ![i] = s],
         running' = [slot |-> i, id |-> s.inner],
         UNCHANGED <<model, versionId, queued>>, mode' \in Modes, kept \subseteq kept',
         s.outer = saves[i].outer,
         \/ s.inner = saves[i].inner /\ (saves[i].stage # "participants" =>
                                           s.stage # "participants")
         \/ s.inner = versionId /\ saves[i].stage = "participants",
         s.inner = versionId => s.content = model.content,
         s.stage = "written" => s.content \in kept'
  PROVE  SaveTypes' /\ SaveInv'
<1>1. /\ SaveUnderWay /\ running = [slot |-> i, id |-> saves[i].inner]
      /\ \A j \in Slot : saves[j] # NoSave => j = i
  BY OneSlot
<1>2. /\ saves \in [Slot -> {NoSave} \cup Saving] /\ versionId \in Nat
      /\ queued \in {NotQueued} \cup [queued : {TRUE}, options : SaveOptions]
  BY DEF CopyIInv, CopyTypeOK
<1>3. s # NoSave /\ s.inner \in Nat
  <2>1. s.stage # "none" /\ s.inner \in Nat
    BY DEF Saving
  <2> QED
    BY <2>1 DEF NoSave
<1>4. saves' \in [Slot -> {NoSave} \cup Saving] /\ saves'[i] = s
  BY <1>2
<1>5. \A j \in Slot : j # i => saves'[j] = NoSave
  BY <1>1, <1>2
<1>6. running' \in [slot : Slot, id : Nat] /\ running'.slot = i /\ running'.id = s.inner
  BY <1>3
<1>7. SaveUnderWay'
  BY RunIsNotNoRun DEF SaveUnderWay
<1>8. SaveTypes'
  BY <1>2, <1>4, <1>6 DEF SaveTypes
<1>9. s.outer <= s.inner /\ s.inner <= versionId
  <2>1. /\ saves[i].outer <= saves[i].inner /\ saves[i].inner <= versionId
        /\ saves[i] \in Saving
    BY SavingShape DEF CopyIInv, RunningIsTheSave
  <2> QED
    BY <1>2, <2>1 DEF Saving
<1>10. RunningIsTheSave'
  BY <1>3, <1>4, <1>5, <1>6, <1>7, <1>9 DEF RunningIsTheSave
<1>11. SavedIsCurrent'
  BY <1>4, <1>5 DEF SavedIsCurrent
<1>12. QueuedIsNewer'
  <2> SUFFICES ASSUME queued # NotQueued
               PROVE  s.stage # "participants" /\ s.inner < versionId
    BY <1>4, <1>6, <1>7 DEF QueuedIsNewer
  <2>1. saves[i].stage # "participants" /\ saves[i].inner < versionId
    BY <1>1 DEF CopyIInv, QueuedIsNewer
  <2> QED
    BY <2>1
<1> QED
  BY <1>8, <1>10, <1>11, <1>12 DEF SaveInv

LEMMA CancelSaveStep ==
  ASSUME CopyIInv, NEW i \in Slot, CancelSave(i)
  PROVE  CopyIInv'
<1> DEFINE s == [saves[i] EXCEPT !.cancelled = TRUE]
<1>1. /\ saves' = [saves EXCEPT ![i] = s]
      /\ UNCHANGED <<disk, model, versionId, dirty, savedVersion, mode, stat, resolving,
                     reverting, reloads, fileEvent, running, queued, fresh, kept>>
  BY DEF CancelSave
<1>2. saves[i] \in Saving /\ saves[i] # NoSave
  BY SavingShape DEF CopyIInv, CancelSave
<1>3. /\ s \in Saving /\ s.stage = saves[i].stage /\ s.content = saves[i].content
      /\ s.inner = saves[i].inner /\ s.outer = saves[i].outer
  BY <1>2 DEF Saving
<1>4. running' = [slot |-> i, id |-> s.inner]
  BY <1>1, <1>2, <1>3, OneSlot
<1>5. mode' \in Modes
  BY <1>1 DEF CopyIInv, CopyTypeOK
<1>6. /\ s.inner = versionId => s.content = model.content
      /\ s.stage = "written" => s.content \in kept
  BY <1>2, <1>3 DEF CopyIInv, SavedIsCurrent
<1> HIDE DEF s
<1>7. SaveTypes' /\ SaveInv'
  BY <1>1, <1>2, <1>3, <1>4, <1>5, <1>6, SaveGoesOn
<1>8. CopyTypeOK'
  BY <1>1, <1>7 DEF CopyIInv, CopyTypeOK, SaveTypes
<1>9. ResolvingFor' /\ RevertUndoes' /\ SavedIsKept' /\ CleanMeansStored'
  BY <1>1, ResolvesUntouched DEF CopyIInv, SavedIsKept, CleanMeansStored
<1> QED
  BY <1>7, <1>8, <1>9 DEF CopyIInv, SaveInv

LEMMA ParticipantsDoneStep ==
  ASSUME CopyIInv, NEW i \in Slot, ParticipantsDone(i)
  PROVE  CopyIInv'
<1> DEFINE s == [saves[i] EXCEPT !.stage = "snapshot", !.inner = versionId,
                                 !.content = model.content, !.mtime = stat]
<1>1. /\ saves' = [saves EXCEPT ![i] = s]
      /\ running' = [slot |-> i, id |-> versionId]
      /\ mode' = [mode EXCEPT !.error = FALSE]
      /\ UNCHANGED <<disk, model, versionId, dirty, savedVersion, stat, resolving,
                     reverting, reloads, fileEvent, queued, fresh, kept>>
  BY DEF ParticipantsDone
<1>2. saves[i] \in Saving /\ saves[i] # NoSave /\ saves[i].stage = "participants"
  BY SavingShape DEF CopyIInv, ParticipantsDone
<1>3. /\ s \in Saving /\ s.stage = "snapshot" /\ s.content = model.content
      /\ s.inner = versionId /\ s.outer = saves[i].outer
  BY <1>2 DEF Saving, CopyIInv, CopyTypeOK
<1>4. mode' \in Modes
  BY <1>1 DEF CopyIInv, CopyTypeOK, Modes
<1> HIDE DEF s
<1>5. SaveTypes' /\ SaveInv'
  BY <1>1, <1>2, <1>3, <1>4, SaveGoesOn
<1>6. CopyTypeOK'
  BY <1>1, <1>5 DEF CopyIInv, CopyTypeOK, SaveTypes
<1>7. ResolvingFor' /\ RevertUndoes' /\ SavedIsKept' /\ CleanMeansStored'
  BY <1>1, ResolvesUntouched DEF CopyIInv, SavedIsKept, CleanMeansStored
<1> QED
  BY <1>5, <1>6, <1>7 DEF CopyIInv, SaveInv

LEMMA SnapshotDoneStep ==
  ASSUME CopyIInv, NEW i \in Slot, SnapshotDone(i)
  PROVE  CopyIInv'
<1>1. PICK c \in {saves[i].content, model.content} :
        saves' = [saves EXCEPT ![i].stage = "writing", ![i].content = c]
  BY DEF SnapshotDone
<1> DEFINE s == [saves[i] EXCEPT !.stage = "writing", !.content = c]
<1>2. /\ saves' = [saves EXCEPT ![i] = s]
      /\ UNCHANGED <<disk, model, versionId, dirty, savedVersion, mode, stat, resolving,
                     reverting, reloads, fileEvent, running, queued, fresh, kept>>
  BY <1>1 DEF SnapshotDone
<1>3. saves[i] \in Saving /\ saves[i] # NoSave
  BY SavingShape DEF CopyIInv, SnapshotDone
<1>4. model.content \in Content
  BY DEF CopyIInv, CopyTypeOK
<1>5. /\ s \in Saving /\ s.stage = "writing" /\ s.content = c
      /\ s.inner = saves[i].inner /\ s.outer = saves[i].outer
  BY <1>3, <1>4 DEF Saving
<1>6. running' = [slot |-> i, id |-> s.inner]
  BY <1>2, <1>3, <1>5, OneSlot
<1>7. mode' \in Modes
  BY <1>2 DEF CopyIInv, CopyTypeOK
<1>8. s.inner = versionId => s.content = model.content
  BY <1>3, <1>5 DEF CopyIInv, SavedIsCurrent
<1> HIDE DEF s
<1>9. SaveTypes' /\ SaveInv'
  BY <1>2, <1>3, <1>5, <1>6, <1>7, <1>8, SaveGoesOn
<1>10. CopyTypeOK'
  BY <1>2, <1>9 DEF CopyIInv, CopyTypeOK, SaveTypes
<1>11. ResolvingFor' /\ RevertUndoes' /\ SavedIsKept' /\ CleanMeansStored'
  BY <1>2, ResolvesUntouched DEF CopyIInv, SavedIsKept, CleanMeansStored
<1> QED
  BY <1>9, <1>10, <1>11 DEF CopyIInv, SaveInv

\* A save has written its content, or has not.
Written(i, s) ==
  /\ saves' = [saves EXCEPT ![i] = s]
  /\ s.inner = saves[i].inner /\ s.outer = saves[i].outer
  /\ s.content = saves[i].content
  /\ s.stage \in {"written", "conflict", "failed"}
  /\ s.stage = "written" => s.content \in kept'
  /\ kept \subseteq kept' /\ kept' \subseteq Content
  /\ disk' \in [content : Content, mtime : Nat] /\ disk'.content \in kept'
  /\ fileEvent' \in BOOLEAN

LEMMA WriteFileStep ==
  ASSUME CopyIInv, NEW i \in Slot, WriteFile(i)
  PROVE  CopyIInv'
<1>1. saves[i] \in Saving /\ saves[i] # NoSave /\ saves[i].stage = "writing"
  BY SavingShape DEF CopyIInv, WriteFile
<1>2. UNCHANGED <<model, versionId, dirty, savedVersion, mode, stat, resolving, reverting,
                  reloads, running, queued, fresh>>
  BY DEF WriteFile
<1>3. PICK s \in Saving : Written(i, s)
  <2>1. /\ disk \in [content : Content, mtime : Nat] /\ disk.content \in kept
        /\ fileEvent \in BOOLEAN /\ kept \subseteq Content
    BY DEF CopyIInv, CopyTypeOK, SavedIsKept
  <2>2. ASSUME disk' = [content |-> saves[i].content, mtime |-> disk.mtime + 1],
               kept' = kept \cup {saves[i].content}, fileEvent' = TRUE,
               saves' = [saves EXCEPT ![i].stage = "written", ![i].mtime = disk.mtime + 1]
        PROVE  \E s \in Saving : Written(i, s)
    <3> DEFINE s == [saves[i] EXCEPT !.stage = "written", !.mtime = disk.mtime + 1]
    <3>1. saves[i].content \in Content /\ disk.mtime + 1 \in Nat
      BY <1>1, <2>1 DEF Saving
    <3>2. /\ s \in Saving
          /\ s.inner = saves[i].inner /\ s.outer = saves[i].outer
          /\ s.content = saves[i].content /\ s.stage = "written"
      BY <1>1, <3>1 DEF Saving
    <3>3. saves' = [saves EXCEPT ![i] = s]
      BY <2>2
    <3> HIDE DEF s
    <3>4. Written(i, s)
      BY <2>1, <2>2, <3>1, <3>2, <3>3 DEF Written
    <3> QED
      BY <3>2, <3>4
  <2>3. ASSUME NEW stage \in {"conflict", "failed"}, UNCHANGED <<disk, kept, fileEvent>>,
               saves' = [saves EXCEPT ![i].stage = stage]
        PROVE  \E s \in Saving : Written(i, s)
    <3> DEFINE s == [saves[i] EXCEPT !.stage = stage]
    <3>1. /\ s \in Saving
          /\ s.inner = saves[i].inner /\ s.outer = saves[i].outer
          /\ s.content = saves[i].content /\ s.stage = stage
      BY <1>1 DEF Saving
    <3>2. saves' = [saves EXCEPT ![i] = s]
      BY <2>3
    <3> HIDE DEF s
    <3>3. Written(i, s)
      BY <2>1, <2>3, <3>1, <3>2 DEF Written
    <3> QED
      BY <3>1, <3>3
  <2>4. WriteFile(i) =>
          \/ /\ disk' = [content |-> saves[i].content, mtime |-> disk.mtime + 1]
             /\ kept' = kept \cup {saves[i].content} /\ fileEvent' = TRUE
             /\ saves' = [saves EXCEPT ![i].stage = "written", ![i].mtime = disk.mtime + 1]
          \/ \E stage \in {"conflict", "failed"} :
               /\ UNCHANGED <<disk, kept, fileEvent>>
               /\ saves' = [saves EXCEPT ![i].stage = stage]
    BY DEF WriteFile
  <2> QED
    BY <2>2, <2>3, <2>4
<1>4. running' = [slot |-> i, id |-> s.inner]
  BY <1>1, <1>2, <1>3, OneSlot DEF Written
<1>5. s.inner = versionId => s.content = model.content
  BY <1>1, <1>3 DEF CopyIInv, SavedIsCurrent, Written
<1>6. mode' \in Modes
  BY <1>2 DEF CopyIInv, CopyTypeOK
<1>7. SaveTypes' /\ SaveInv'
  BY <1>1, <1>2, <1>3, <1>4, <1>5, <1>6, SaveGoesOn DEF Written
<1>8. CopyTypeOK'
  BY <1>2, <1>3, <1>7 DEF CopyIInv, CopyTypeOK, SaveTypes, Written
<1>9. ResolvingFor' /\ RevertUndoes' /\ SavedIsKept' /\ CleanMeansStored'
  BY <1>2, <1>3, ResolvesUntouched DEF CopyIInv, SavedIsKept, CleanMeansStored, Written
<1> QED
  BY <1>7, <1>8, <1>9 DEF CopyIInv, SaveInv

LEMMA SaveEndStep ==
  ASSUME CopyIInv, NEW i \in Slot,
         CancelledSaveEnds(i) \/ HandleSaveSuccess(i) \/ HandleSaveError(i)
  PROVE  CopyIInv'
<1>1. saves[i] \in Saving /\ saves[i] # NoSave
  BY SavingShape DEF CopyIInv, CancelledSaveEnds, HandleSaveSuccess, HandleSaveError
<1>2. UNCHANGED <<disk, model, versionId, resolving, reverting, reloads, fileEvent, fresh,
                  kept>>
  BY DEF CancelledSaveEnds, HandleSaveSuccess, HandleSaveError
<1>3. stat' \in Nat
  <2>1. stat \in Nat /\ saves[i].mtime \in Nat
    BY <1>1 DEF CopyIInv, CopyTypeOK, Saving
  <2> QED
    BY <2>1 DEF CancelledSaveEnds, HandleSaveSuccess, HandleSaveError, Newer
<1>4. /\ dirty' \in BOOLEAN
      /\ savedVersion' \in Content \cup {NoContent}
      /\ SavedIsKept' /\ CleanMeansStored'
  <2>1. /\ dirty \in BOOLEAN /\ savedVersion \in Content \cup {NoContent}
        /\ model.content \in Content
    BY DEF CopyIInv, CopyTypeOK
  <2>2. CASE CancelledSaveEnds(i)
    BY <1>2, <2>1, <2>2 DEF CancelledSaveEnds, CopyIInv, SavedIsKept, CleanMeansStored
  <2>3. CASE HandleSaveError(i)
    BY <1>2, <2>1, <2>3 DEF HandleSaveError, CopyIInv, SavedIsKept, CleanMeansStored
  <2>4. CASE HandleSaveSuccess(i)
    <3>1. CASE saves[i].inner = versionId
      <4>1. dirty' = FALSE /\ savedVersion' = model.content
        BY <2>1, <2>4, <3>1 DEF HandleSaveSuccess
      <4>2. model.content \in kept
        BY <1>1, <2>4, <3>1 DEF HandleSaveSuccess, CopyIInv, SavedIsCurrent
      <4> QED
        BY <1>2, <2>1, <4>1, <4>2 DEF CopyIInv, SavedIsKept, CleanMeansStored
    <3>2. CASE saves[i].inner # versionId
      <4>1. dirty' = dirty /\ savedVersion' = savedVersion
        BY <2>1, <2>4, <3>2 DEF HandleSaveSuccess
      <4> QED
        BY <1>2, <2>1, <4>1 DEF CopyIInv, SavedIsKept, CleanMeansStored
    <3> QED
      BY <3>1, <3>2
  <2> QED
    BY <2>2, <2>3, <2>4
<1>5. PICK m \in Modes : SaveEnds(i, m)
  <2>1. mode \in Modes /\ mode.conflict \in BOOLEAN /\ mode.error \in BOOLEAN
    BY DEF CopyIInv, CopyTypeOK, Modes
  <2>2. CASE CancelledSaveEnds(i)
    BY <2>1, <2>2 DEF CancelledSaveEnds
  <2>3. CASE HandleSaveError(i)
    <3> DEFINE m == [conflict |-> mode.conflict \/ saves[i].stage = "conflict", error |-> TRUE]
    <3>1. m \in Modes
      BY DEF Modes
    <3> QED
      BY <2>3, <3>1 DEF HandleSaveError
  <2>4. CASE HandleSaveSuccess(i)
    <3> DEFINE clean == saves[i].inner = versionId
               m == [conflict |-> mode.conflict /\ ~clean, error |-> mode.error /\ ~clean]
    <3>1. m \in Modes
      BY DEF Modes
    <3> QED
      BY <2>4, <3>1 DEF HandleSaveSuccess
  <2> QED
    BY <2>2, <2>3, <2>4
<1>6. SaveTypes' /\ SaveInv'
  BY <1>1, <1>2, <1>3, <1>5, SaveEndsKeeps
<1>7. CopyTypeOK'
  BY <1>2, <1>3, <1>4, <1>6 DEF CopyIInv, CopyTypeOK, SaveTypes
<1>8. ResolvingFor' /\ RevertUndoes'
  BY <1>2, ResolvesUntouched
<1> QED
  BY <1>4, <1>6, <1>7, <1>8 DEF CopyIInv, SaveInv

LEMMA ForeignStep ==
  ASSUME CopyIInv, FileChanged \/ ForeignWrite
  PROVE  CopyIInv'
<1>1. /\ UNCHANGED <<model, versionId, dirty, savedVersion, mode, stat, resolving, reverting,
                     saves, running, queued>>
      /\ kept \subseteq kept' /\ fileEvent' \in BOOLEAN
  BY DEF FileChanged, ForeignWrite
<1>2. reloads' \in 0 .. 2 /\ (reloads > 0 => reloads' > 0)
  <2>1. reloads \in 0 .. 2
    BY DEF CopyIInv, CopyTypeOK
  <2>2. reloads' = reloads \/ (reloads <= 1 /\ reloads' = reloads + 1)
    BY DEF FileChanged, ForeignWrite
  <2> QED
    BY <2>1, <2>2
<1>3. /\ fresh' \in Content /\ kept' \subseteq Content
      /\ disk' \in [content : Content, mtime : Nat] /\ disk'.content \in kept'
  <2>1. /\ fresh \in Content /\ kept \subseteq Content
        /\ disk \in [content : Content, mtime : Nat] /\ disk.content \in kept
    BY DEF CopyIInv, CopyTypeOK, SavedIsKept
  <2>2. CASE FileChanged
    BY <2>1, <2>2 DEF FileChanged
  <2>3. CASE ForeignWrite
    <3>1. /\ fresh' = fresh + 1 /\ kept' = kept \cup {fresh'}
          /\ disk' = [content |-> fresh', mtime |-> disk.mtime + 1]
      BY <2>3 DEF ForeignWrite
    <3>2. fresh' \in Content /\ disk.mtime + 1 \in Nat
      <4>1. fresh + 1 \in Content
        BY <2>1, <2>3, NextContent DEF ForeignWrite
      <4>2. disk.mtime + 1 \in Nat
        BY <2>1
      <4> QED
        BY <3>1, <4>1, <4>2
    <3> QED
      BY <2>1, <3>1, <3>2
  <2> QED
    BY <2>2, <2>3
<1>4. SaveInv'
  BY <1>1, SavesUntouched
<1>5. ResolvingFor' /\ RevertUndoes'
  BY <1>1, <1>2 DEF CopyIInv, ResolvingFor, RevertUndoes
<1>6. SavedIsKept' /\ CleanMeansStored'
  BY <1>1, <1>3 DEF CopyIInv, SavedIsKept, CleanMeansStored
<1>7. CopyTypeOK'
  BY <1>1, <1>2, <1>3 DEF CopyIInv, CopyTypeOK
<1> QED
  BY <1>4, <1>5, <1>6, <1>7 DEF CopyIInv, SaveInv

LEMMA ReadStarts ==
  ASSUME CopyIInv, NEW why \in {"reload", "revert"}, StartRead(why)
  PROVE  /\ resolving' \in Resolving /\ resolving' # NoResolve
         /\ resolving'.stage = "reading" /\ resolving'.why = why
<1>1. stat \in Nat /\ versionId \in Nat
  BY DEF CopyIInv, CopyTypeOK
<1>2. resolving'.stage = "reading" /\ resolving'.why = why /\ resolving' \in Resolving
  BY <1>1 DEF StartRead, Resolving
<1> QED
  BY <1>2 DEF NoResolve

LEMMA ReloadStep ==
  ASSUME CopyIInv, Reload
  PROVE  CopyIInv'
<1>1. UNCHANGED <<disk, model, versionId, dirty, savedVersion, mode, stat, reverting,
                  fileEvent, saves, running, queued, fresh, kept>>
  BY DEF Reload
<1>2. /\ resolving' \in {NoResolve} \cup Resolving /\ reloads' \in 0 .. 2
      /\ ResolvingFor'
  <2>1. reloads \in 0 .. 2 /\ reloads > 0 /\ resolving = NoResolve
    BY DEF Reload, CopyIInv, CopyTypeOK
  <2>2. reverting.stage # "resolving"
    BY <2>1 DEF CopyIInv, ResolvingFor
  <2>3. CASE StartRead("reload") /\ UNCHANGED reloads
    BY <1>1, <2>1, <2>2, <2>3, ReadStarts DEF ResolvingFor
  <2>4. CASE reloads' = reloads - 1 /\ UNCHANGED resolving
    BY <1>1, <2>1, <2>2, <2>4 DEF ResolvingFor, NoResolve
  <2> QED
    BY <2>3, <2>4 DEF Reload
<1>3. SaveInv'
  BY <1>1, SavesUntouched
<1>4. RevertUndoes' /\ SavedIsKept' /\ CleanMeansStored'
  BY <1>1 DEF CopyIInv, RevertUndoes, SavedIsKept, CleanMeansStored
<1>5. CopyTypeOK'
  BY <1>1, <1>2 DEF CopyIInv, CopyTypeOK
<1> QED
  BY <1>2, <1>3, <1>4, <1>5 DEF CopyIInv, SaveInv

\* What Revert sets reverting to.
RevertingWhy(stage) ==
  [stage |-> stage, undo |-> [dirty |-> dirty, mode |-> mode, savedVersion |-> savedVersion]]

LEMMA RevertStep ==
  ASSUME CopyIInv, NEW soft \in BOOLEAN, Revert(soft)
  PROVE  CopyIInv'
<1>1. /\ UNCHANGED <<disk, model, versionId, stat, reloads, fileEvent, saves, running, queued,
                     fresh>>
      /\ dirty /\ reverting = NoRevert
      /\ dirty' = FALSE /\ mode' = [conflict |-> FALSE, error |-> FALSE]
      /\ savedVersion' = model.content
      /\ kept' = kept \cup {model.content}
  BY DEF Revert, BecomeClean
<1>2. /\ model.content \in Content /\ kept \subseteq Content /\ dirty \in BOOLEAN
      /\ mode \in Modes /\ savedVersion \in Content \cup {NoContent}
      /\ resolving \in {NoResolve} \cup Resolving
  BY DEF CopyIInv, CopyTypeOK
<1>3. /\ resolving' \in {NoResolve} \cup Resolving
      /\ reverting' \in {NoRevert} \cup Reverting
      /\ ResolvingFor' /\ RevertUndoes'
  <2>1. \A stage \in {"waiting", "resolving"} :
          /\ RevertingWhy(stage) \in Reverting
          /\ RevertingWhy(stage).stage = stage
          /\ RevertingWhy(stage).undo.dirty = dirty
          /\ RevertingWhy(stage).undo.savedVersion = savedVersion
    BY <1>2 DEF RevertingWhy, Reverting
  <2>2. \A stage \in {"waiting", "resolving"} :
          reverting' = RevertingWhy(stage) => RevertUndoes'
    BY <1>1, <2>1 DEF RevertUndoes, CopyIInv, SavedIsKept
  <2>3. ~(resolving # NoResolve /\ resolving.why = "revert")
    BY <1>1 DEF CopyIInv, ResolvingFor, NoRevert
  <2>4. CASE reverting' = NoRevert /\ UNCHANGED resolving
    BY <1>1, <1>2, <2>3, <2>4 DEF CopyIInv, ResolvingFor, RevertUndoes, NoRevert
  <2>5. CASE reverting' = RevertingWhy("resolving") /\ StartRead("revert")
    BY <1>1, <2>1, <2>2, <2>5, ReadStarts DEF ResolvingFor
  <2>6. CASE reverting' = RevertingWhy("waiting") /\ UNCHANGED resolving
    BY <1>1, <1>2, <2>1, <2>2, <2>3, <2>6 DEF CopyIInv, ResolvingFor
  <2>7. CASE soft
    BY <2>4, <2>7 DEF Revert
  <2>8. CASE ~soft /\ MayResolve
    BY <2>5, <2>8 DEF Revert, RevertingWhy, MayResolve
  <2>9. CASE ~soft /\ ~MayResolve
    BY <2>4, <2>6, <2>9 DEF Revert, RevertingWhy
  <2> QED
    BY <2>7, <2>8, <2>9
<1>4. SaveInv'
  BY <1>1, SavesUntouched
<1>5. SavedIsKept' /\ CleanMeansStored'
  BY <1>1 DEF CopyIInv, SavedIsKept, CleanMeansStored
<1>6. mode' \in Modes
  BY <1>1 DEF Modes
<1>7. CopyTypeOK'
  BY <1>1, <1>2, <1>3, <1>6 DEF CopyIInv, CopyTypeOK
<1> QED
  BY <1>3, <1>4, <1>5, <1>7 DEF CopyIInv, SaveInv

LEMMA RevertResolvesStep ==
  ASSUME CopyIInv, RevertResolves
  PROVE  CopyIInv'
<1>1. /\ UNCHANGED <<disk, model, versionId, dirty, savedVersion, mode, stat, reloads,
                     fileEvent, saves, running, queued, fresh, kept>>
      /\ reverting.stage = "waiting" /\ resolving = NoResolve
  BY DEF RevertResolves
<1>2. reverting \in Reverting /\ reverting # NoRevert
  BY <1>1, RevertingShape DEF CopyIInv
<1>3. /\ resolving' \in {NoResolve} \cup Resolving
      /\ reverting' \in {NoRevert} \cup Reverting
      /\ ResolvingFor' /\ RevertUndoes'
  <2>1. CASE StartRead("revert") /\ reverting' = [reverting EXCEPT !.stage = "resolving"]
    <3>1. /\ reverting' \in Reverting /\ reverting'.stage = "resolving"
          /\ reverting'.undo = reverting.undo
      BY <1>2, <2>1 DEF Reverting
    <3>2. RevertUndoes'
      BY <1>1, <1>2, <3>1 DEF CopyIInv, RevertUndoes
    <3> QED
      BY <1>1, <2>1, <3>1, <3>2, ReadStarts DEF ResolvingFor
  <2>2. CASE reverting' = NoRevert /\ UNCHANGED resolving
    BY <1>1, <2>2 DEF ResolvingFor, RevertUndoes, NoRevert, NoResolve
  <2> QED
    BY <2>1, <2>2 DEF RevertResolves
<1>4. SaveInv'
  BY <1>1, SavesUntouched
<1>5. SavedIsKept' /\ CleanMeansStored'
  BY <1>1 DEF CopyIInv, SavedIsKept, CleanMeansStored
<1>6. CopyTypeOK'
  BY <1>1, <1>3 DEF CopyIInv, CopyTypeOK
<1> QED
  BY <1>3, <1>4, <1>5, <1>6 DEF CopyIInv, SaveInv

\* The resolve that ends is what the revert waits for, or the first reload.
LEMMA ResolveEndsFor ==
  ASSUME CopyIInv, resolving # NoResolve, ResolveEnds
  PROVE  /\ resolving' = NoResolve
         /\ reloads' \in 0 .. 2
         /\ reverting' \in {reverting, NoRevert}
         /\ ResolvingFor'
<1>1. resolving' = NoResolve
  BY DEF ResolveEnds
<1>2. resolving \in Resolving /\ resolving.why \in {"reload", "revert"}
  BY ResolvingShape DEF CopyIInv, Resolving
<1>3. reloads \in 0 .. 2
  BY DEF CopyIInv, CopyTypeOK
<1>4. CASE resolving.why = "revert"
  <2>1. reverting' = NoRevert /\ reloads' = reloads
    BY <1>4 DEF ResolveEnds
  <2> QED
    BY <1>1, <1>3, <2>1 DEF ResolvingFor, NoResolve, NoRevert
<1>5. CASE resolving.why = "reload"
  <2>1. reverting' = reverting /\ reloads' = reloads - 1
    BY <1>5 DEF ResolveEnds
  <2>2. reloads > 0 /\ reverting.stage # "resolving"
    BY <1>5 DEF CopyIInv, ResolvingFor
  <2> QED
    BY <1>1, <1>3, <2>1, <2>2 DEF ResolvingFor, NoResolve
<1> QED
  BY <1>2, <1>4, <1>5

LEMMA StatReadStep ==
  ASSUME CopyIInv, StatRead
  PROVE  CopyIInv'
<1>1. /\ UNCHANGED <<disk, model, versionId, dirty, savedVersion, mode, fileEvent, saves,
                     running, queued, fresh, kept>>
      /\ resolving \in Resolving /\ resolving # NoResolve /\ resolving.stage = "reading"
  BY ResolvingShape DEF StatRead, CopyIInv
<1>2. stat' \in Nat
  <2>1. stat \in Nat /\ disk.mtime \in Nat
    BY DEF CopyIInv, CopyTypeOK
  <2> QED
    BY <2>1 DEF StatRead, Newer
<1>3. /\ resolving' \in {NoResolve} \cup Resolving /\ reloads' \in 0 .. 2
      /\ reverting' \in {reverting, NoRevert}
      /\ ResolvingFor'
  <2>1. CASE ResolveEnds
    BY <1>1, <2>1, ResolveEndsFor
  <2>2. CASE /\ resolving' = [resolving EXCEPT !.stage = "updating"]
             /\ UNCHANGED <<reverting, reloads>>
    <3>1. /\ resolving' \in Resolving /\ resolving'.stage = "updating"
          /\ resolving'.why = resolving.why /\ resolving' # NoResolve
      BY <1>1, <2>2 DEF Resolving, NoResolve
    <3> QED
      BY <1>1, <2>2, <3>1 DEF CopyIInv, ResolvingFor, CopyTypeOK
  <2> QED
    BY <2>1, <2>2 DEF StatRead
<1>4. SaveInv'
  BY <1>1, SavesUntouched
<1>5. RevertUndoes' /\ SavedIsKept' /\ CleanMeansStored'
  BY <1>1, <1>3 DEF CopyIInv, RevertUndoes, SavedIsKept, CleanMeansStored
<1>6. CopyTypeOK'
  BY <1>1, <1>2, <1>3 DEF CopyIInv, CopyTypeOK
<1> QED
  BY <1>3, <1>4, <1>5, <1>6 DEF CopyIInv, SaveInv

LEMMA ContentReadStep ==
  ASSUME CopyIInv, ContentRead
  PROVE  CopyIInv'
<1>1. /\ UNCHANGED <<disk, model, versionId, dirty, savedVersion, mode, stat, reverting,
                     reloads, fileEvent, saves, running, queued, fresh, kept>>
      /\ resolving \in Resolving /\ resolving # NoResolve
      /\ resolving' = [resolving EXCEPT !.stage = "parsing", !.content = disk.content]
  BY ResolvingShape DEF ContentRead, CopyIInv
<1>2. disk.content \in Content /\ disk.content \in kept
  BY DEF CopyIInv, CopyTypeOK, SavedIsKept
<1>3. /\ resolving' \in Resolving /\ resolving'.stage = "parsing"
      /\ resolving'.why = resolving.why /\ resolving'.content = disk.content
      /\ resolving' # NoResolve
  BY <1>1, <1>2 DEF Resolving, NoResolve
<1>4. ResolvingFor'
  BY <1>1, <1>2, <1>3 DEF CopyIInv, ResolvingFor
<1>5. SaveInv'
  BY <1>1, SavesUntouched
<1>6. RevertUndoes' /\ SavedIsKept' /\ CleanMeansStored'
  BY <1>1 DEF CopyIInv, RevertUndoes, SavedIsKept, CleanMeansStored
<1>7. CopyTypeOK'
  BY <1>1, <1>3 DEF CopyIInv, CopyTypeOK
<1> QED
  BY <1>4, <1>5, <1>6, <1>7 DEF CopyIInv, SaveInv

LEMMA ModelUpdatedStep ==
  ASSUME CopyIInv, ModelUpdated
  PROVE  CopyIInv'
<1>1. /\ UNCHANGED <<disk, stat, fileEvent, saves, running, queued, fresh, kept>>
      /\ model' = [content |-> resolving.content, undo |-> NoContent]
      /\ versionId' = versionId + 1
      /\ dirty' = FALSE /\ mode' = [conflict |-> FALSE, error |-> FALSE]
      /\ savedVersion' = model'.content
      /\ resolving # NoResolve /\ resolving.stage = "parsing" /\ ResolveEnds
  BY ResolvingShape DEF ModelUpdated, BecomeClean, CopyIInv
<1>2. resolving.content \in kept /\ kept \subseteq Content /\ versionId \in Nat
  BY <1>1 DEF CopyIInv, ResolvingFor, CopyTypeOK
<1>3. /\ resolving' = NoResolve /\ reloads' \in 0 .. 2
      /\ reverting' \in {reverting, NoRevert} /\ ResolvingFor'
  BY <1>1, ResolveEndsFor
<1>4. /\ model' \in [content : Content, undo : Content \cup {NoContent}]
      /\ savedVersion' \in Content /\ mode' \in Modes /\ versionId' \in Nat
  BY <1>1, <1>2 DEF Modes
<1>5. SaveInv'
  BY <1>1, SavesUntouched
<1>6. RevertUndoes' /\ SavedIsKept' /\ CleanMeansStored'
  BY <1>1, <1>2, <1>3 DEF CopyIInv, RevertUndoes, SavedIsKept, CleanMeansStored
<1>7. CopyTypeOK'
  BY <1>1, <1>3, <1>4 DEF CopyIInv, CopyTypeOK
<1> QED
  BY <1>3, <1>5, <1>6, <1>7 DEF CopyIInv, SaveInv

LEMMA ResolveFailsStep ==
  ASSUME CopyIInv, ResolveFails
  PROVE  CopyIInv'
<1>1. /\ UNCHANGED <<disk, model, versionId, stat, fileEvent, saves, running, queued, fresh,
                     kept>>
      /\ resolving # NoResolve /\ ResolveEnds
  BY DEF ResolveFails
<1>2. /\ resolving' = NoResolve /\ reloads' \in 0 .. 2
      /\ reverting' \in {reverting, NoRevert} /\ ResolvingFor'
  BY <1>1, ResolveEndsFor
<1>3. /\ dirty' \in BOOLEAN /\ mode' \in Modes
      /\ savedVersion' \in Content \cup {NoContent}
      /\ SavedIsKept' /\ CleanMeansStored'
  <2>1. CASE resolving.why = "revert"
    <3>1. reverting.stage = "resolving"
      BY <1>1, <2>1 DEF CopyIInv, ResolvingFor
    <3>2. reverting \in Reverting /\ reverting # NoRevert
      BY <3>1, RevertingShape DEF CopyIInv
    <3>3. /\ dirty' = reverting.undo.dirty /\ mode' = reverting.undo.mode
          /\ savedVersion' = reverting.undo.savedVersion
      BY <2>1 DEF ResolveFails
    <3>4. reverting.undo.dirty /\ reverting.undo.savedVersion \in kept \cup {NoContent}
      BY <3>2 DEF CopyIInv, RevertUndoes
    <3>5. /\ reverting.undo.dirty \in BOOLEAN /\ reverting.undo.mode \in Modes
          /\ reverting.undo.savedVersion \in Content \cup {NoContent}
      BY <3>2 DEF Reverting
    <3> QED
      BY <1>1, <3>3, <3>4, <3>5 DEF CopyIInv, SavedIsKept, CleanMeansStored
  <2>2. CASE resolving.why # "revert"
    <3>1. UNCHANGED <<dirty, mode, savedVersion>>
      BY <2>2 DEF ResolveFails
    <3> QED
      BY <1>1, <3>1 DEF CopyIInv, CopyTypeOK, SavedIsKept, CleanMeansStored
  <2> QED
    BY <2>1, <2>2
<1>4. SaveInv'
  BY <1>1, SavesUntouched
<1>5. RevertUndoes'
  BY <1>1, <1>2 DEF CopyIInv, RevertUndoes
<1>6. CopyTypeOK'
  BY <1>1, <1>2, <1>3 DEF CopyIInv, CopyTypeOK
<1> QED
  BY <1>2, <1>3, <1>4, <1>5, <1>6 DEF CopyIInv, SaveInv

LEMMA NextIInv ==
  CopyIInv /\ [CopyNext]_copyVars => CopyIInv'
<1> SUFFICES ASSUME CopyIInv, [CopyNext]_copyVars PROVE CopyIInv'
  OBVIOUS
<1>1. CASE Edit \/ UndoOrRedo
  BY <1>1, EditStep
<1>2. ASSUME NEW o \in SaveOptions, Save(o) PROVE CopyIInv'
  BY <1>2, SaveRequestStep
<1>3. ASSUME NEW i \in Slot, CancelSave(i) PROVE CopyIInv'
  BY <1>3, CancelSaveStep
<1>4. CASE SaveStep
  <2>1. ASSUME NEW i \in Slot, ParticipantsDone(i) PROVE CopyIInv'
    BY <2>1, ParticipantsDoneStep
  <2>2. ASSUME NEW i \in Slot, SnapshotDone(i) PROVE CopyIInv'
    BY <2>2, SnapshotDoneStep
  <2>3. ASSUME NEW i \in Slot, WriteFile(i) PROVE CopyIInv'
    BY <2>3, WriteFileStep
  <2>4. ASSUME NEW i \in Slot,
               CancelledSaveEnds(i) \/ HandleSaveSuccess(i) \/ HandleSaveError(i)
        PROVE  CopyIInv'
    BY <2>4, SaveEndStep
  <2> QED
    BY <1>4, <2>1, <2>2, <2>3, <2>4 DEF SaveStep
<1>5. CASE FileChanged \/ ForeignWrite
  BY <1>5, ForeignStep
<1>6. CASE Reload
  BY <1>6, ReloadStep
<1>7. ASSUME NEW soft \in BOOLEAN, Revert(soft) PROVE CopyIInv'
  BY <1>7, RevertStep
<1>8. CASE RevertResolves
  BY <1>8, RevertResolvesStep
<1>9. CASE StatRead
  BY <1>9, StatReadStep
<1>10. CASE ContentRead
  BY <1>10, ContentReadStep
<1>11. CASE ModelUpdated
  BY <1>11, ModelUpdatedStep
<1>12. CASE ResolveFails
  BY <1>12, ResolveFailsStep
<1>13. CASE UNCHANGED copyVars
  <2>1. SaveInv'
    BY <1>13, SavesUntouched DEF copyVars
  <2>2. ResolvingFor' /\ RevertUndoes'
    BY <1>13, ResolvesUntouched DEF copyVars
  <2>3. CopyTypeOK' /\ SavedIsKept' /\ CleanMeansStored'
    BY <1>13 DEF copyVars, CopyIInv, CopyTypeOK, SavedIsKept, CleanMeansStored
  <2> QED
    BY <2>1, <2>2, <2>3 DEF CopyIInv, SaveInv
<1> QED
  BY <1>1, <1>2, <1>3, <1>4, <1>5, <1>6, <1>7, <1>8, <1>9, <1>10, <1>11, <1>12, <1>13
     DEF CopyNext

(***************************************************************************)
(* The theorems.                                                           *)
(***************************************************************************)
\* The inductive invariant holds in every reachable state.
THEOREM CopyInvariance ==
  CopySpec => []CopyIInv
<1> QED
  BY InitIInv, NextIInv, PTL DEF CopySpec

\* Every variable has the type that its declaration in the code gives it.
THEOREM CopyTypesCorrect ==
  CopySpec => []CopyTypeOK
<1>1. CopyIInv => CopyTypeOK
  BY DEF CopyIInv
<1> QED
  BY <1>1, CopyInvariance, PTL

\* Two saves never run at once, and the sequentializer knows the one that does.
THEOREM NeverTwoSavesCorrect ==
  CopySpec => []NeverTwoSaves
<1>1. CopyIInv => NeverTwoSaves
  BY DEF CopyIInv, RunningIsTheSave, NeverTwoSaves
<1> QED
  BY <1>1, CopyInvariance, PTL

\* What a copy shows while it is not dirty has been in the file, or was given up.
THEOREM CleanMeansStoredCorrect ==
  CopySpec => []CleanMeansStored
<1>1. CopyIInv => CleanMeansStored
  BY DEF CopyIInv
<1> QED
  BY <1>1, CopyInvariance, PTL

(***************************************************************************)
(* Emitter.  The place of a delivery divides the list of listeners, over   *)
(* every change of the list; the events that wait on the stack come last.  *)
(***************************************************************************)
\* Induction, where the set of what is proved is named.
LEMMA Induction ==
  ASSUME NEW S, 0 \in S, \A n \in Nat : n \in S => n + 1 \in S
  PROVE  Nat \subseteq S
<1> DEFINE T == Nat \ S
<1> DEFINE R == OpToRel(<, Nat)
<1>1. SUFFICES ASSUME T # {} PROVE FALSE
  OBVIOUS
<1>2. IsWellFoundedOn(R, Nat)
  BY Zenon, NatLessThanWellFounded
<1>3. T \subseteq Nat
  OBVIOUS
<1>4. \A y \in Nat, x \in Nat : y < x => <<y, x>> \in R
  BY DEF OpToRel
<1> HIDE DEF R
<1>5. PICK x \in T : \A y \in T : ~ (<<y, x>> \in R)
  BY <1>1, <1>2, <1>3, WFMin
<1>6. x # 0
  OBVIOUS
<1>7. x - 1 \in Nat /\ x - 1 < x /\ x - 1 \notin S
  BY <1>6
<1> QED BY <1>5, <1>7, <1>4

\* What compaction has done when it is past the first k entries: it kept what is no hole,
\* once, and i and the end divide what it kept as they divide the list.
IsCompacted(list, k, q) ==
  /\ q \in [kept : Seq(Entry \ {Hole}), i : Nat, end : Nat]
  /\ Len(q.kept) <= k
  /\ q.i <= q.end
  /\ IF k <= dq.i THEN q.i = dq.i - k + Len(q.kept) ELSE q.i <= Len(q.kept)
  /\ IF k <= dq.end THEN q.end = dq.end - k + Len(q.kept) ELSE q.end <= Len(q.kept)
  /\ \A p \in 1 .. k : list[p] # Hole => \E r \in 1 .. Len(q.kept) : q.kept[r] = list[p]
  /\ \A r \in 1 .. Len(q.kept) : \E p \in 1 .. k :
       /\ list[p] = q.kept[r]
       /\ p <= dq.i <=> r <= q.i
       /\ p <= dq.end <=> r <= q.end
  /\ \A r, s \in 1 .. Len(q.kept) : q.kept[r] = q.kept[s] => r = s

\* No listener is twice in a list.
OnceEach(list) ==
  \A p, q \in DOMAIN list : list[p] = list[q] /\ p # q => list[p] = Hole

\* The place x where n of k entries were kept, for the place i of the list.
LEMMA Places ==
  ASSUME NEW i \in Nat, NEW k \in Nat, NEW n \in Nat, NEW x \in Nat,
         IF k <= i THEN x = i - k + n ELSE x <= n
  PROVE  /\ IF k + 1 <= i THEN x = i - (k + 1) + (n + 1) ELSE x <= n + 1
         /\ IF k + 1 <= i THEN n < x /\ x - 1 = i - (k + 1) + n ELSE ~(n < x) /\ x <= n
OBVIOUS

\* Before the first entry of a list.
LEMMA CompactionStart ==
  ASSUME dq.i \in Nat, dq.end \in Nat, dq.i <= dq.end, NEW list
  PROVE  IsCompacted(list, 0, [kept |-> <<>>, i |-> dq.i, end |-> dq.end])
<1> DEFINE none == <<>>
<1>1. none \in Seq(Entry \ {Hole}) /\ Len(none) = 0
  OBVIOUS
<1> HIDE DEF none
<1>2. IsCompacted(list, 0, [kept |-> none, i |-> dq.i, end |-> dq.end])
  BY <1>1 DEF IsCompacted
<1> QED BY <1>2 DEF none

\* An entry that is no hole is kept.
LEMMA CompactionKeeps ==
  ASSUME dq.i \in Nat, dq.end \in Nat, dq.i <= dq.end, NEW list \in Seq(Entry), OnceEach(list),
         NEW k \in 0 .. Len(list) - 1, NEW q, IsCompacted(list, k, q), list[k + 1] # Hole
  PROVE  IsCompacted(list, k + 1, [q EXCEPT !.kept = Append(@, list[k + 1])])
<1> DEFINE e == list[k + 1]
<1> DEFINE more == Append(q.kept, e)
<1> DEFINE n == Len(q.kept)
<1> DEFINE t == [q EXCEPT !.kept = Append(@, list[k + 1])]
<1>1. q \in [kept : Seq(Entry \ {Hole}), i : Nat, end : Nat]
  BY DEF IsCompacted
<1>2. e \in Entry \ {Hole} /\ k + 1 \in DOMAIN list
  OBVIOUS
<1>3. more \in Seq(Entry \ {Hole}) /\ Len(more) = n + 1 /\ n \in Nat
      /\ more[n + 1] = e /\ \A r \in 1 .. n : more[r] = q.kept[r]
  BY <1>1, <1>2
<1>4. t \in [kept : Seq(Entry \ {Hole}), i : Nat, end : Nat]
      /\ t.kept = more /\ t.i = q.i /\ t.end = q.end
  BY <1>1, <1>3
<1> HIDE DEF t, more
<1>5. \A p \in 1 .. k : list[p] # e
  BY <1>2 DEF OnceEach
<1>6. ASSUME NEW r \in 1 .. n + 1
      PROVE  \E p \in 1 .. k + 1 :
               /\ list[p] = more[r]
               /\ p <= dq.i <=> r <= t.i
               /\ p <= dq.end <=> r <= t.end
  <2>1. CASE r = n + 1
    <3>1. k + 1 <= dq.i <=> n + 1 <= q.i
      BY <1>1 DEF IsCompacted
    <3>2. k + 1 <= dq.end <=> n + 1 <= q.end
      BY <1>1 DEF IsCompacted
    <3> QED BY <2>1, <3>1, <3>2, <1>3, <1>4
  <2>2. CASE r # n + 1
    <3>1. r \in 1 .. n
      BY <2>2, <1>3
    <3>2. PICK p \in 1 .. k : list[p] = q.kept[r] /\ (p <= dq.i <=> r <= q.i)
                              /\ (p <= dq.end <=> r <= q.end)
      BY <3>1 DEF IsCompacted
    <3> QED BY <3>1, <3>2, <1>3, <1>4
  <2> QED BY <2>1, <2>2
<1>7. ASSUME NEW r \in 1 .. n + 1, NEW s \in 1 .. n + 1, more[r] = more[s]
      PROVE  r = s
  <2>1. ASSUME NEW j \in 1 .. n PROVE more[j] # e
    <3>1. PICK p \in 1 .. k : list[p] = q.kept[j]
      BY DEF IsCompacted
    <3> QED BY <3>1, <1>5, <1>3
  <2>2. \A j, m \in 1 .. n : q.kept[j] = q.kept[m] => j = m
    BY DEF IsCompacted
  <2>3. (r = n + 1 \/ r \in 1 .. n) /\ (s = n + 1 \/ s \in 1 .. n)
    BY <1>3
  <2> HIDE DEF n, e
  <2> QED BY <2>1, <2>2, <2>3, <1>3, <1>7
<1>8. \A p \in 1 .. k + 1 : list[p] # Hole => \E r \in 1 .. n + 1 : more[r] = list[p]
  <2>1. TAKE p \in 1 .. k + 1
  <2>2. HAVE list[p] # Hole
  <2>3. CASE p = k + 1
    BY <2>3, <1>3
  <2>4. CASE p # k + 1
    <3>1. p \in 1 .. k
      BY <2>4
    <3>2. PICK r \in 1 .. n : q.kept[r] = list[p]
      BY <3>1, <2>2 DEF IsCompacted
    <3> QED BY <3>2, <1>3
  <2> QED BY <2>3, <2>4
<1>9. /\ n + 1 <= k + 1
      /\ q.i <= q.end
      /\ IF k + 1 <= dq.i THEN q.i = dq.i - (k + 1) + (n + 1) ELSE q.i <= n + 1
      /\ IF k + 1 <= dq.end THEN q.end = dq.end - (k + 1) + (n + 1) ELSE q.end <= n + 1
  <2>1. /\ n <= k /\ q.i <= q.end
        /\ IF k <= dq.i THEN q.i = dq.i - k + n ELSE q.i <= n
        /\ IF k <= dq.end THEN q.end = dq.end - k + n ELSE q.end <= n
    BY DEF IsCompacted
  <2>2. q.i \in Nat /\ q.end \in Nat /\ n \in Nat
    BY <1>1, <1>3
  <2>3. k \in Nat
    OBVIOUS
  <2> HIDE DEF n
  <2>4. IF k + 1 <= dq.i THEN q.i = dq.i - (k + 1) + (n + 1) ELSE q.i <= n + 1
    BY <2>1, <2>2, <2>3, Places
  <2>5. IF k + 1 <= dq.end THEN q.end = dq.end - (k + 1) + (n + 1) ELSE q.end <= n + 1
    BY <2>1, <2>2, <2>3, Places
  <2>6. n + 1 <= k + 1
    BY <2>1, <2>2, <2>3
  <2> QED BY <2>1, <2>4, <2>5, <2>6
<1> HIDE DEF n, e
<1>10. IsCompacted(list, k + 1, t)
  BY <1>3, <1>4, <1>6, <1>7, <1>8, <1>9 DEF IsCompacted
<1> QED BY <1>10 DEF t

\* A hole is dropped, and what is left to be delivered moves with the entries behind it.
LEMMA CompactionDrops ==
  ASSUME dq.i \in Nat, dq.end \in Nat, dq.i <= dq.end, NEW list \in Seq(Entry),
         NEW k \in 0 .. Len(list) - 1, NEW q, IsCompacted(list, k, q), list[k + 1] = Hole,
         NEW t \in [kept : Seq(Entry \ {Hole}), i : Nat, end : Nat],
         t.kept = q.kept,
         IF Len(q.kept) < q.end
         THEN t.end = q.end - 1 /\ t.i = (IF Len(q.kept) < q.i THEN q.i - 1 ELSE q.i)
         ELSE t.end = q.end /\ t.i = q.i
  PROVE  IsCompacted(list, k + 1, t)
<1> DEFINE n == Len(q.kept)
<1>1. q \in [kept : Seq(Entry \ {Hole}), i : Nat, end : Nat] /\ n \in Nat
  BY DEF IsCompacted
<1>2. /\ n <= k + 1
      /\ t.i <= t.end
      /\ IF k + 1 <= dq.i THEN t.i = dq.i - (k + 1) + n ELSE t.i <= n
      /\ IF k + 1 <= dq.end THEN t.end = dq.end - (k + 1) + n ELSE t.end <= n
  <2>1. /\ n <= k /\ q.i <= q.end
        /\ IF k <= dq.i THEN q.i = dq.i - k + n ELSE q.i <= n
        /\ IF k <= dq.end THEN q.end = dq.end - k + n ELSE q.end <= n
    BY DEF IsCompacted
  <2>2. q.i \in Nat /\ q.end \in Nat
    BY <1>1
  <2>3. IF n < q.end THEN t.end = q.end - 1 /\ t.i = (IF n < q.i THEN q.i - 1 ELSE q.i)
        ELSE t.end = q.end /\ t.i = q.i
    OBVIOUS
  <2>4. k \in Nat
    OBVIOUS
  <2> HIDE DEF n
  <2>5. IF k + 1 <= dq.i THEN n < q.i /\ q.i - 1 = dq.i - (k + 1) + n ELSE ~(n < q.i) /\ q.i <= n
    BY <1>1, <2>1, <2>2, <2>4, Places
  <2>6. IF k + 1 <= dq.end THEN n < q.end /\ q.end - 1 = dq.end - (k + 1) + n
        ELSE ~(n < q.end) /\ q.end <= n
    BY <1>1, <2>1, <2>2, <2>4, Places
  <2>7. n <= k + 1
    BY <1>1, <2>1, <2>4
  <2>8. t.i <= t.end
    BY <1>1, <2>1, <2>2, <2>3
  <2>9. n < q.i => n < q.end
    BY <1>1, <2>1, <2>2
  <2>10. t.i = (IF n < q.i THEN q.i - 1 ELSE q.i) /\ t.end = (IF n < q.end THEN q.end - 1 ELSE q.end)
    BY <2>3, <2>9
  <2> QED BY <2>5, <2>6, <2>7, <2>8, <2>10
<1>3. ASSUME NEW r \in 1 .. n
      PROVE  \E p \in 1 .. k + 1 :
               /\ list[p] = t.kept[r]
               /\ p <= dq.i <=> r <= t.i
               /\ p <= dq.end <=> r <= t.end
  <2>1. PICK p \in 1 .. k : list[p] = q.kept[r] /\ (p <= dq.i <=> r <= q.i)
                            /\ (p <= dq.end <=> r <= q.end)
    BY DEF IsCompacted
  <2>2. r <= q.i <=> r <= t.i
    BY <1>1, <1>2
  <2>3. r <= q.end <=> r <= t.end
    BY <1>1, <1>2
  <2> QED BY <2>1, <2>2, <2>3
<1>4. \A p \in 1 .. k + 1 : list[p] # Hole => p \in 1 .. k
  OBVIOUS
<1>5. /\ \A p \in 1 .. k : list[p] # Hole => \E r \in 1 .. n : q.kept[r] = list[p]
      /\ \A r, s \in 1 .. n : q.kept[r] = q.kept[s] => r = s
  BY DEF IsCompacted
<1>6. \A p \in 1 .. k + 1 : list[p] # Hole => \E r \in 1 .. n : q.kept[r] = list[p]
  BY <1>4, <1>5
<1>7. n = Len(t.kept)
  OBVIOUS
<1> HIDE DEF n
<1> QED BY <1>1, <1>2, <1>3, <1>5, <1>6, <1>7 DEF IsCompacted

\* Compaction, of all the list.
LEMMA CompactionFacts ==
  ASSUME dq.i \in Nat, dq.end \in Nat, dq.i <= dq.end, NEW list \in Seq(Entry), OnceEach(list)
  PROVE  IsCompacted(list, Len(list), Compaction(list))
<1> DEFINE Start == [kept |-> <<>>, i |-> dq.i, end |-> dq.end]
<1> DEFINE Step(q, k) ==
      CASE list[k] # Hole -> [q EXCEPT !.kept = Append(@, list[k])]
        [] list[k] = Hole /\ Len(q.kept) < q.end ->
             [q EXCEPT !.end = @ - 1, !.i = IF Len(q.kept) < @ THEN @ - 1 ELSE @]
        [] OTHER -> q
<1> DEFINE Body(F, k) == IF k = 0 THEN Start ELSE Step(F[k - 1], k)
<1> DEFINE Good(n, F) == F = [k \in 0 .. n |-> Body(F, k)]
<1> DEFINE I == {n \in Nat : \E F : Good(n, F)}
<1>0. ASSUME NEW q, NEW k \in 0 .. Len(list) - 1, IsCompacted(list, k, q)
      PROVE  IsCompacted(list, k + 1, Step(q, k + 1))
  <2> DEFINE t == Step(q, k + 1)
  <2>1. q \in [kept : Seq(Entry \ {Hole}), i : Nat, end : Nat]
    BY <1>0 DEF IsCompacted
  <2>2. CASE list[k + 1] # Hole
    <3>1. t = [q EXCEPT !.kept = Append(@, list[k + 1])]
      BY <2>2
    <3> QED BY <3>1, <2>2, <1>0, CompactionKeeps
  <2>3. CASE list[k + 1] = Hole /\ Len(q.kept) < q.end
    <3>1. t = [q EXCEPT !.end = @ - 1, !.i = IF Len(q.kept) < @ THEN @ - 1 ELSE @]
      BY <2>3
    <3>2. Len(q.kept) \in Nat /\ q.i \in Nat /\ q.end \in Nat
      BY <2>1
    <3>3. t \in [kept : Seq(Entry \ {Hole}), i : Nat, end : Nat]
          /\ t.kept = q.kept /\ t.end = q.end - 1
          /\ t.i = (IF Len(q.kept) < q.i THEN q.i - 1 ELSE q.i)
      <4> DEFINE a == q.end - 1
      <4> DEFINE b == IF Len(q.kept) < q.i THEN q.i - 1 ELSE q.i
      <4>1. a \in Nat /\ b \in Nat
        BY <3>2, <2>3
      <4>2. t = [q EXCEPT !.end = a, !.i = b]
        BY <3>1
      <4> HIDE DEF a, b, t
      <4>3. t \in [kept : Seq(Entry \ {Hole}), i : Nat, end : Nat] /\ t.kept = q.kept
            /\ t.end = a /\ t.i = b
        BY <4>1, <4>2, <2>1
      <4> QED BY <4>3 DEF a, b
    <3> HIDE DEF t
    <3>4. IsCompacted(list, k + 1, t)
      BY <3>3, <2>3, <1>0, CompactionDrops
    <3> QED BY <3>4 DEF t
  <2>4. CASE list[k + 1] = Hole /\ ~(Len(q.kept) < q.end)
    <3>1. t = q
      BY <2>4
    <3> HIDE DEF t
    <3>2. IsCompacted(list, k + 1, t)
      BY <3>1, <2>4, <2>1, <1>0, CompactionDrops
    <3> QED BY <3>2 DEF t
  <2> QED BY <2>2, <2>3, <2>4
<1> HIDE DEF Start, Step
<1>1. 0 \in I
  <2> DEFINE F == [k \in 0 .. 0 |-> Start]
  <2>1. Good(0, F)
    OBVIOUS
  <2> QED BY <2>1
<1>2. ASSUME NEW n \in Nat, n \in I
      PROVE  n + 1 \in I
  <2>1. PICK F : Good(n, F)
    BY <1>2
  <2> DEFINE H == [k \in 0 .. n + 1 |-> Body(F, k)]
  <2>2. \A k \in 0 .. n : F[k] = Body(F, k)
    BY <2>1
  <2>3. \A k \in 0 .. n : H[k] = F[k]
    BY <2>2
  <2>4. ASSUME NEW k \in 0 .. n + 1
        PROVE  Body(H, k) = Body(F, k)
    <3>1. CASE k = 0
      BY <3>1
    <3>2. CASE k # 0
      <4>1. k - 1 \in 0 .. n
        BY <3>2
      <4> HIDE DEF H
      <4>2. H[k - 1] = F[k - 1]
        BY <2>3, <4>1
      <4> QED BY <4>2
    <3> QED BY <3>1, <3>2
  <2>5. H = [k \in 0 .. n + 1 |-> Body(H, k)]
    <3> HIDE DEF Body
    <3> QED BY <2>4
  <2> HIDE DEF H
  <2>6. Good(n + 1, H)
    BY <2>5
  <2> HIDE DEF Good
  <2> QED BY <2>6
<1> DEFINE after == CHOOSE F : Good(Len(list), F)
<1>3. Good(Len(list), after)
  <2> HIDE DEF Good
  <2>1. Nat \subseteq I
    <3> HIDE DEF I
    <3> QED BY <1>1, <1>2, Induction
  <2>2. Len(list) \in I
    BY <2>1
  <2> QED BY <2>2
<1>4. Compaction(list) = after[Len(list)]
  BY Zenon DEF Compaction, Start, Step
<1> HIDE DEF after
<1>5. \A k \in 0 .. Len(list) : after[k] = Body(after, k)
  BY <1>3
<1> DEFINE J == {n \in Nat : n <= Len(list) => IsCompacted(list, n, after[n])}
<1>6. 0 \in J
  <2>1. after[0] = Start
    BY <1>5
  <2>2. IsCompacted(list, 0, Start)
    BY CompactionStart DEF Start
  <2> QED BY <2>1, <2>2
<1>7. ASSUME NEW n \in Nat, n \in J
      PROVE  n + 1 \in J
  <2>1. SUFFICES ASSUME n + 1 <= Len(list)
                 PROVE  IsCompacted(list, n + 1, after[n + 1])
    OBVIOUS
  <2>2. IsCompacted(list, n, after[n]) /\ n \in 0 .. Len(list) - 1
    BY <1>7, <2>1
  <2>3. after[n + 1] = Step(after[n], n + 1)
    <3>1. n + 1 \in 0 .. Len(list) /\ n + 1 # 0 /\ (n + 1) - 1 = n
      BY <2>1
    <3> QED BY <3>1, <1>5
  <2> QED BY <2>2, <2>3, <1>0
<1>8. Nat \subseteq J
  <2> HIDE DEF J
  <2> QED BY <1>6, <1>7, Induction
<1> QED BY <1>4, <1>8

(***************************************************************************)
(* The deliveries under way.                                               *)
(***************************************************************************)
Frame == [captured : Listeners, live : BOOLEAN, calls : Entry, next : 0 .. MaxEmitted]

\* Waiting, of any stack
WaitingOf(s) == {s[k].next : k \in DOMAIN s} \ {0}

\* Precedes, for any history of what waited
PrecedesIn(w, e, f) == IF e < f THEN e \notin w[f] ELSE f \in w[e]

\* Only a list is looked at again, and what waits was fired from the bottom to the top, each
\* while those below it waited.
FramesOK(s, n, w) ==
  /\ \A k \in DOMAIN s : (s[k].live => s[k].captured.kind = "list") /\ s[k].next \in 0 .. n
  /\ \A k, m \in DOMAIN s :
       k < m /\ s[k].next # 0 /\ s[m].next # 0 =>
         s[k].next < s[m].next /\ s[k].next \in w[s[m].next]

\* The last of a stack of frames, replaced by one that waits with the same event.
HasReplaced(s, f, t) ==
  /\ t \in Seq(Frame) /\ t # <<>> /\ Len(t) = Len(s) /\ t[Len(t)] = f
  /\ WaitingOf(t) = WaitingOf(s)
  /\ \A n, w : FramesOK(s, n, w) => FramesOK(t, n, w)

\* The last frame of a stack is replaced.
LEMMA Replaced ==
  ASSUME NEW s \in Seq(Frame), s # <<>>, NEW f \in Frame,
         f.next = s[Len(s)].next, f.live => f.captured.kind = "list",
         NEW t, t = [s EXCEPT ![Len(s)] = f]
  PROVE  HasReplaced(s, f, t)
<1>1. Len(s) \in DOMAIN s /\ DOMAIN t = DOMAIN s /\ Len(t) = Len(s) /\ t \in Seq(Frame)
      /\ t # <<>> /\ t[Len(t)] = f
  OBVIOUS
<1>2. \A k \in DOMAIN s : t[k] = IF k = Len(s) THEN f ELSE s[k]
  OBVIOUS
<1>3. \A k \in DOMAIN s : t[k].next = s[k].next
  BY <1>2
<1>4. WaitingOf(t) = WaitingOf(s)
  BY <1>1, <1>3 DEF WaitingOf
<1>5. ASSUME NEW n, NEW w, FramesOK(s, n, w)
      PROVE  FramesOK(t, n, w)
  <2>1. \A k \in DOMAIN t : t[k].live => t[k].captured.kind = "list"
    BY <1>1, <1>2, <1>5 DEF FramesOK
  <2> QED BY <1>1, <1>3, <1>5, <2>1 DEF FramesOK
<1> QED BY <1>1, <1>4, <1>5 DEF HasReplaced

\* A frame on top of a stack: it waits for nothing, or for an event that was fired after all
\* that wait.
HasPushed(s, f, t) ==
  /\ t \in Seq(Frame) /\ t # <<>> /\ Len(t) = Len(s) + 1 /\ t[Len(t)] = f
  /\ WaitingOf(t) = WaitingOf(s) \cup ({f.next} \ {0})
  /\ \A n, w : /\ FramesOK(s, n, w) /\ f.next \in 0 .. n
               /\ f.next # 0 => \A e \in WaitingOf(s) : e < f.next /\ e \in w[f.next]
               => FramesOK(t, n, w)

\* A frame goes on top.
LEMMA Pushed ==
  ASSUME NEW s \in Seq(Frame), NEW f \in Frame, f.live => f.captured.kind = "list",
         NEW t, t = Append(s, f)
  PROVE  HasPushed(s, f, t)
<1> DEFINE n1 == Len(s) + 1
<1>1. t \in Seq(Frame) /\ t # <<>> /\ Len(t) = n1 /\ t[n1] = f /\ n1 \in DOMAIN t
      /\ DOMAIN t = DOMAIN s \cup {n1} /\ n1 \notin DOMAIN s
  OBVIOUS
<1>2. \A k \in DOMAIN s : t[k] = s[k] /\ k < n1 /\ ~(n1 < k)
  OBVIOUS
<1>0. ~(n1 < n1)
  OBVIOUS
<1> HIDE DEF n1
<1>3. WaitingOf(t) = WaitingOf(s) \cup ({f.next} \ {0})
  BY <1>1, <1>2 DEF WaitingOf
<1>4. ASSUME NEW n, NEW w, FramesOK(s, n, w), f.next \in 0 .. n,
             f.next # 0 => \A e \in WaitingOf(s) : e < f.next /\ e \in w[f.next]
      PROVE  FramesOK(t, n, w)
  <2>1. \A k \in DOMAIN t : (t[k].live => t[k].captured.kind = "list") /\ t[k].next \in 0 .. n
    BY <1>1, <1>2, <1>4 DEF FramesOK
  <2>2. ASSUME NEW k \in DOMAIN t, NEW m \in DOMAIN t, k < m, t[k].next # 0, t[m].next # 0
        PROVE  t[k].next < t[m].next /\ t[k].next \in w[t[m].next]
    <3>1. k \in DOMAIN s
      BY <1>0, <1>1, <1>2, <2>2
    <3>2. CASE m = n1
      <4>1. s[k].next \in WaitingOf(s) /\ t[m] = f /\ t[k] = s[k]
        BY <1>1, <1>2, <3>1, <3>2, <2>2 DEF WaitingOf
      <4> QED BY <4>1, <1>4, <2>2
    <3>3. CASE m \in DOMAIN s
      BY <1>2, <1>4, <2>2, <3>1, <3>3 DEF FramesOK
    <3> QED BY <1>1, <3>2, <3>3
  <2> QED BY <2>1, <2>2 DEF FramesOK
<1> QED BY <1>1, <1>3, <1>4 DEF n1, HasPushed

\* A sequence without its last.
LEMMA FrontFacts ==
  ASSUME NEW S, NEW q \in Seq(S), q # <<>>
  PROVE  /\ Front(q) \in Seq(S) /\ Len(Front(q)) = Len(q) - 1
         /\ \A j \in 1 .. Len(q) - 1 : Front(q)[j] = q[j]
BY DEF Front

\* The stack without its top: what the top waits with waits no more.
LEMMA Popped ==
  ASSUME NEW s \in Seq(Frame), s # <<>>, NEW n, NEW w, FramesOK(s, n, w), n \in Nat
  PROVE  LET t == Front(s)
             e == s[Len(s)].next
         IN  /\ t \in Seq(Frame) /\ FramesOK(t, n, w)
             /\ WaitingOf(t) = WaitingOf(s) \ {e}
             /\ e # 0 => \A f \in WaitingOf(t) : f < e /\ f \in w[e]
             /\ e \in 0 .. n
             /\ t # <<>> => Len(s) - 1 \in DOMAIN s /\ t[Len(t)] = s[Len(s) - 1]
<1> DEFINE t == Front(s)
<1> DEFINE m == Len(s)
<1> DEFINE e == s[m].next
<1>1. m \in Nat /\ m \in DOMAIN s /\ t \in Seq(Frame) /\ DOMAIN t = DOMAIN s \ {m} /\ Len(t) = m - 1
      /\ (\A k \in DOMAIN t : t[k] = s[k] /\ k < m) /\ (t # <<>> => Len(t) \in DOMAIN t)
  <2>1. t \in Seq(Frame) /\ Len(t) = m - 1 /\ \A k \in 1 .. m - 1 : t[k] = s[k]
    BY FrontFacts
  <2> HIDE DEF t
  <2>2. m \in Nat /\ m \in DOMAIN s /\ DOMAIN s = 1 .. m /\ DOMAIN t = 1 .. m - 1
    BY <2>1
  <2> QED BY <2>1, <2>2
<1> HIDE DEF t, m
<1>2. FramesOK(t, n, w)
  BY <1>1 DEF FramesOK
<1>3. ASSUME NEW k \in DOMAIN t, s[k].next # 0, e # 0
      PROVE  s[k].next < e /\ s[k].next \in w[e] /\ s[k].next # e
  <2>1. k < m /\ k \in DOMAIN s
    BY <1>1
  <2>2. s[k].next < e /\ s[k].next \in w[e]
    BY <2>1, <1>1, <1>3 DEF FramesOK
  <2>3. s[k].next \in 0 .. n /\ e \in 0 .. n
    BY <2>1, <1>1 DEF FramesOK
  <2> QED BY <2>2, <2>3
<1>4. e \in 0 .. n
  BY <1>1 DEF FramesOK
<1>5. WaitingOf(t) = WaitingOf(s) \ {e}
  <2>1. \A x \in WaitingOf(t) : x \in WaitingOf(s) /\ x # e
    BY <1>1, <1>3 DEF WaitingOf
  <2>2. \A x \in WaitingOf(s) : x # e => x \in WaitingOf(t)
    BY <1>1 DEF WaitingOf
  <2>3. \A x \in WaitingOf(t) : x # e
    BY <2>1
  <2> QED BY <2>1, <2>2
<1>6. e # 0 => \A f \in WaitingOf(t) : f < e /\ f \in w[e]
  BY <1>1, <1>3 DEF WaitingOf
<1>7. t # <<>> => Len(s) - 1 \in DOMAIN s /\ t[Len(t)] = s[Len(s) - 1]
  BY <1>1 DEF m
<1> QED BY <1>1, <1>2, <1>4, <1>5, <1>6, <1>7 DEF t, m

\* A stack whose frames no longer follow the list of the emitter.
LEMMA Frozen ==
  ASSUME NEW s \in Seq(Frame), NEW t, DOMAIN t = DOMAIN s,
         \A k \in DOMAIN s : t[k] \in Frame /\ t[k].next = s[k].next /\ ~t[k].live,
         NEW t0 \in Seq(Frame), t = t0
  PROVE  /\ WaitingOf(t) = WaitingOf(s)
         /\ \A n, w : FramesOK(s, n, w) => FramesOK(t, n, w)
<1>1. WaitingOf(t) = WaitingOf(s)
  BY DEF WaitingOf
<1>2. ASSUME NEW n, NEW w, FramesOK(s, n, w)
      PROVE  FramesOK(t, n, w)
  <2>1. \A k \in DOMAIN t : ~t[k].live
    OBVIOUS
  <2>2. \A k \in DOMAIN t : t[k].next = s[k].next
    OBVIOUS
  <2> QED BY <2>1, <2>2, <1>2 DEF FramesOK
<1> QED BY <1>1, <1>2

(***************************************************************************)
(* What is heard.                                                          *)
(***************************************************************************)
\* A listener that hears one more.
HasHeard(h, l, e, g) ==
  /\ g \in [Listener -> Seq(1 .. MaxEmitted)]
  /\ \A m \in Listener : \A f : Contains(g[m], f) <=> Contains(h[m], f) \/ (m = l /\ f = e)
  /\ \A m \in Listener : m # l => g[m] = h[m]
  /\ g[l] = Append(h[l], e)

\* One more event is heard.
LEMMA Heard ==
  ASSUME NEW h \in [Listener -> Seq(1 .. MaxEmitted)], NEW l \in Listener,
         NEW e \in 1 .. MaxEmitted, NEW g, g = [h EXCEPT ![l] = Append(@, e)]
  PROVE  HasHeard(h, l, e, g)
<1>1. h[l] \in Seq(1 .. MaxEmitted)
  OBVIOUS
<1>2. g \in [Listener -> Seq(1 .. MaxEmitted)] /\ g[l] = Append(h[l], e)
      /\ \A m \in Listener : m # l => g[m] = h[m]
  BY <1>1
<1>3. \A f : Contains(Append(h[l], e), f) <=> Contains(h[l], f) \/ f = e
  <2> DEFINE q == Append(h[l], e)
  <2> DEFINE n == Len(h[l])
  <2>1. Len(q) = n + 1 /\ n \in Nat /\ q[n + 1] = e /\ \A j \in 1 .. n : q[j] = h[l][j]
    BY <1>1
  <2> HIDE DEF q, n
  <2>2. \A j : j \in 1 .. n + 1 <=> j \in 1 .. n \/ j = n + 1
    BY <2>1
  <2>3. Contains(h[l], e) <=> \E j \in 1 .. n : h[l][j] = e
    BY DEF Contains, n
  <2>4. \A f : Contains(h[l], f) <=> \E j \in 1 .. n : h[l][j] = f
    BY DEF Contains, n
  <2>5. \A f : Contains(q, f) <=> \E j \in 1 .. n + 1 : q[j] = f
    BY <2>1 DEF Contains
  <2>6. \A f : Contains(q, f) <=> Contains(h[l], f) \/ f = e
    BY <2>1, <2>2, <2>4, <2>5
  <2> QED BY <2>6 DEF q
<1> QED BY <1>2, <1>3 DEF HasHeard

(***************************************************************************)
(* The inductive invariant.                                                *)
(***************************************************************************)
Fired == 1 .. emitted

\* A list with holes has each of some listeners once.
IsListOf(list, ls) ==
  /\ list \in Seq(Entry)
  /\ OnceEach(list)
  /\ ls = {l \in Listener : \E p \in DOMAIN list : list[p] = <<l>>}
  /\ ls # {}

\* _listeners and _size are of those who listen.
Subscribed ==
  /\ listeners \in Listeners
  /\ on \subseteq Listener /\ off \subseteq Listener /\ on \cap off = {}
  /\ IsFiniteSet(on)
  /\ size = Cardinality(on)
  /\ listeners.kind = "undefined" => on = {}
  /\ listeners.kind = "single" => on = {listeners.listener}
  /\ listeners.kind = "list" => IsListOf(listeners.list, on)

\* The delivery queue; only while there is a current emitter something is left in it.
QueueOK ==
  /\ dq \in [i : Nat, end : Nat, current : BOOLEAN, value : 0 .. MaxEmitted]
  /\ dq.value <= emitted
  /\ dq.i <= dq.end
  /\ IF dq.current THEN dq.value # 0 ELSE dq.i = dq.end

EventsOK ==
  /\ emitted \in 0 .. MaxEmitted
  /\ audience \in [1 .. MaxEmitted -> SUBSET (on \cup off)]
  /\ within \in [1 .. MaxEmitted -> SUBSET (1 .. MaxEmitted)]
  /\ heard \in [Listener -> Seq(1 .. MaxEmitted)]
  /\ emptied \in BOOLEAN /\ disposed \in BOOLEAN
  /\ \A e \in Fired : within[e] \subseteq 1 .. (e - 1)

StackOK == stack \in Seq(Frame) /\ FramesOK(stack, emitted, within)

\* What has been enqueued precedes what waits, and the event that is delivered comes after
\* all the others that have been enqueued.
Order ==
  /\ \A e \in Fired \ Waiting : \A f \in Waiting : Precedes(e, f)
  /\ dq.current => \A e \in Fired \ Waiting : e # dq.value => Precedes(e, dq.value)

\* The place of a delivery divides the listeners of a list in those that have heard the event,
\* those that will hear it and those that came later.
Divided(list, q, h, a) ==
  \A p \in DOMAIN list : \A l \in Listener : list[p] = <<l>> =>
    /\ p <= q.i => Contains(h[l], q.value)
    /\ p > q.i /\ p <= q.end => l \in a[q.value] /\ ~Contains(h[l], q.value)
    /\ p > q.end => l \notin a[q.value]

\* The delivery under way follows the list of the emitter.
Current ==
  dq.current =>
    /\ stack # <<>> /\ Top.live
    /\ listeners.kind = "list"
    /\ dq.end <= Len(listeners.list)
    /\ dq.value \notin Waiting
    /\ Divided(listeners.list, dq, heard, audience)

\* Nobody has heard an event that was not fired or waits.
Later ==
  \A e \in 1 .. MaxEmitted : e \in Waiting \/ e > emitted =>
    audience[e] = {} /\ \A l \in Listener : ~Contains(heard[l], e)


\* What is heard is heard in the order w, by those of the audience a.
HeardWell(h, w, a) ==
  \A l \in Listener :
    /\ \A j, k \in DOMAIN h[l] : j < k => PrecedesIn(w, h[l][j], h[l][k])
    /\ \A j \in DOMAIN h[l] : l \in a[h[l][j]]

HeardSo == HeardWell(heard, within, audience)

AllHeard ==
  \A e \in Fired : \A l \in audience[e] \cap on :
    Contains(heard[l], e) \/ (dq.current /\ dq.value = e) \/ e \in Waiting

DeliveryOK == Order /\ Current /\ Later /\ HeardSo /\ AllHeard

EmitterInv ==
  /\ Subscribed /\ QueueOK /\ EventsOK /\ StackOK
  /\ ~emptied => DeliveryOK

\* What waits, and what precedes, before and after a step.
LEMMA WaitingFacts ==
  /\ Waiting = WaitingOf(stack)
  /\ Waiting' = WaitingOf(stack')
  /\ \A e, f : Precedes(e, f) <=> PrecedesIn(within, e, f)
  /\ \A e, f : Precedes(e, f)' <=> PrecedesIn(within', e, f)
BY DEF Waiting, WaitingOf, Precedes, PrecedesIn

\* What waits was fired.
LEMMA WaitingFired ==
  ASSUME NEW s \in Seq(Frame), NEW n \in Nat, NEW w, FramesOK(s, n, w)
  PROVE  WaitingOf(s) \subseteq 1 .. n
BY DEF WaitingOf, FramesOK

\* Precedes is a strict order of two.
LEMMA PrecedesFacts ==
  ASSUME NEW n \in Nat, NEW w, \A e \in 1 .. n : w[e] \subseteq 1 .. (e - 1)
  PROVE  \A e, f \in 1 .. n : /\ ~PrecedesIn(w, e, e)
                              /\ ~(PrecedesIn(w, e, f) /\ PrecedesIn(w, f, e))
<1>1. ASSUME NEW e \in 1 .. n PROVE ~PrecedesIn(w, e, e)
  <2>1. e \notin w[e] /\ ~(e < e)
    OBVIOUS
  <2> QED BY <2>1 DEF PrecedesIn
<1>2. ASSUME NEW e \in 1 .. n, NEW f \in 1 .. n, PrecedesIn(w, e, f), PrecedesIn(w, f, e)
      PROVE  FALSE
  <2>1. e # f
    BY <1>1, <1>2
  <2>2. e < f \/ f < e
    BY <2>1
  <2>3. ~(e < f /\ f < e)
    OBVIOUS
  <2> QED BY <1>2, <2>2, <2>3 DEF PrecedesIn
<1> QED BY <1>1, <1>2

\* An event is in what a listener heard.
LEMMA ContainsFacts ==
  ASSUME NEW h \in [Listener -> Seq(1 .. MaxEmitted)], NEW l \in Listener
  PROVE  /\ \A j \in DOMAIN h[l] : h[l][j] \in 1 .. MaxEmitted /\ Contains(h[l], h[l][j])
         /\ \A e : Contains(h[l], e) => \E j \in DOMAIN h[l] : h[l][j] = e
         /\ DOMAIN h[l] = 1 .. Len(h[l])
<1> DEFINE q == h[l]
<1> DEFINE E == 1 .. MaxEmitted
<1>1. q \in Seq(E)
  OBVIOUS
<1> HIDE DEF q, E
<1>2. DOMAIN q = 1 .. Len(q) /\ \A j \in DOMAIN q : q[j] \in E
  BY <1>1
<1>3. \A e : Contains(q, e) <=> \E j \in 1 .. Len(q) : q[j] = e
  BY DEF Contains
<1> QED BY <1>2, <1>3 DEF q, E

\* A listener hears an event that all it has heard precede.
LEMMA HeardNext ==
  ASSUME NEW h \in [Listener -> Seq(1 .. MaxEmitted)], NEW l \in Listener,
         NEW e \in 1 .. MaxEmitted, NEW w, NEW a, HeardWell(h, w, a),
         l \in a[e], \A f : Contains(h[l], f) => PrecedesIn(w, f, e),
         NEW g, g = [h EXCEPT ![l] = Append(@, e)]
  PROVE  HeardWell(g, w, a)
<1>0. HasHeard(h, l, e, g)
  BY Heard
<1>1. g[l] = Append(h[l], e) /\ \A m \in Listener : m # l => g[m] = h[m]
  BY <1>0 DEF HasHeard
<1> DEFINE n == Len(h[l])
<1>2. h[l] \in Seq(1 .. MaxEmitted)
  OBVIOUS
<1>3. /\ n \in Nat /\ DOMAIN h[l] = 1 .. n /\ DOMAIN g[l] = 1 .. n + 1
      /\ g[l][n + 1] = e /\ \A j \in 1 .. n : g[l][j] = h[l][j]
  BY <1>1, <1>2
<1> HIDE DEF n
<1>4. \A j \in 1 .. n : Contains(h[l], h[l][j])
  BY <1>3, ContainsFacts
<1>5. \A j \in 1 .. n + 1 : j = n + 1 \/ j \in 1 .. n
  BY <1>3
<1>6. \A j, k \in 1 .. n + 1 : j < k => j \in 1 .. n
  BY <1>3
<1>7. ASSUME NEW j \in 1 .. n + 1, NEW k \in 1 .. n + 1, j < k
      PROVE  PrecedesIn(w, g[l][j], g[l][k])
  <2>1. CASE k = n + 1
    BY <2>1, <1>3, <1>4, <1>6, <1>7
  <2>2. CASE k \in 1 .. n
    BY <2>2, <1>3, <1>6, <1>7 DEF HeardWell
  <2> QED BY <2>1, <2>2, <1>5
<1>8. \A j \in 1 .. n + 1 : l \in a[g[l][j]]
  BY <1>3, <1>5 DEF HeardWell
<1>9. ASSUME NEW m \in Listener
      PROVE  /\ \A j, k \in DOMAIN g[m] : j < k => PrecedesIn(w, g[m][j], g[m][k])
             /\ \A j \in DOMAIN g[m] : m \in a[g[m][j]]
  <2>1. CASE m = l
    BY <2>1, <1>3, <1>7, <1>8
  <2>2. CASE m # l
    BY <2>2, <1>1 DEF HeardWell
  <2> QED BY <2>1, <2>2
<1> QED BY <1>9 DEF HeardWell

(***************************************************************************)
(* The list of listeners.                                                  *)
(***************************************************************************)
LEMMA EntryFacts ==
  /\ Hole \in Entry
  /\ \A l \in Listener : <<l>> \in Entry /\ <<l>> # Hole /\ <<l>>[1] = l
  /\ \A x \in Entry : x # Hole => \E l \in Listener : x = <<l>>
  /\ \A l, m \in Listener : <<l>> = <<m>> => l = m
BY DEF Entry, Hole

\* A listener is taken out of a list.
LEMMA Sparse ==
  ASSUME NEW list, NEW ls, IsListOf(list, ls), NEW l \in ls, ls # {l}
  PROVE  LET s == [k \in DOMAIN list |-> IF list[k] = <<l>> THEN Hole ELSE list[k]]
         IN  /\ IsListOf(s, ls \ {l})
             /\ Len(s) = Len(list)
             /\ \A q, h, a : Divided(list, q, h, a) => Divided(s, q, h, a)
<1> DEFINE s == [k \in DOMAIN list |-> IF list[k] = <<l>> THEN Hole ELSE list[k]]
<1>1. list \in Seq(Entry) /\ OnceEach(list) /\ l \in Listener
      /\ ls = {m \in Listener : \E p \in DOMAIN list : list[p] = <<m>>}
  BY DEF IsListOf
<1>2. s \in Seq(Entry) /\ Len(s) = Len(list) /\ DOMAIN s = DOMAIN list
  BY <1>1, EntryFacts
<1>3. \A k \in DOMAIN list : s[k] = IF list[k] = <<l>> THEN Hole ELSE list[k]
  OBVIOUS
<1> HIDE DEF s
<1>4. OnceEach(s)
  BY <1>1, <1>2, <1>3 DEF OnceEach
<1>5. \A p \in DOMAIN s : \A m \in Listener : s[p] = <<m>> <=> list[p] = <<m>> /\ m # l
  BY <1>1, <1>2, <1>3, EntryFacts
<1>6. ls \ {l} = {m \in Listener : \E p \in DOMAIN s : s[p] = <<m>>}
  BY <1>1, <1>2, <1>5
<1>7. ls \ {l} # {}
  OBVIOUS
<1>8. IsListOf(s, ls \ {l})
  BY <1>2, <1>4, <1>6, <1>7 DEF IsListOf
<1>9. \A q, h, a : Divided(list, q, h, a) => Divided(s, q, h, a)
  BY <1>2, <1>5 DEF Divided
<1> QED BY <1>2, <1>8, <1>9 DEF s

\* A list is compacted, and the delivery with it.
LEMMA Dense ==
  ASSUME NEW list, NEW ls, IsListOf(list, ls), dq.i \in Nat, dq.end \in Nat, dq.i <= dq.end
  PROVE  LET c == Compaction(list)
         IN  /\ IsListOf(c.kept, ls)
             /\ c.i \in Nat /\ c.end \in Nat /\ c.i <= c.end
             /\ dq.end <= Len(list) => c.end <= Len(c.kept)
             /\ \A q, h, a : q.i = c.i /\ q.end = c.end /\ q.value = dq.value
                             /\ Divided(list, dq, h, a) => Divided(c.kept, q, h, a)
<1> DEFINE c == Compaction(list)
<1>1. list \in Seq(Entry) /\ OnceEach(list)
      /\ ls = {m \in Listener : \E p \in DOMAIN list : list[p] = <<m>>} /\ ls # {}
  BY DEF IsListOf
<1>2. IsCompacted(list, Len(list), c)
  BY <1>1, CompactionFacts
<1> HIDE DEF c
<1>3. /\ c \in [kept : Seq(Entry \ {Hole}), i : Nat, end : Nat] /\ c.i <= c.end
      /\ DOMAIN list = 1 .. Len(list) /\ Len(list) \in Nat
  BY <1>1, <1>2 DEF IsCompacted
<1>4. c.kept \in Seq(Entry \ {Hole}) /\ c.kept \in Seq(Entry) /\ DOMAIN c.kept = 1 .. Len(c.kept)
      /\ c.i \in Nat /\ c.end \in Nat /\ Len(c.kept) \in Nat
  BY <1>3
<1>5. \A r \in DOMAIN c.kept : \E p \in DOMAIN list :
        list[p] = c.kept[r] /\ (p <= dq.i <=> r <= c.i) /\ (p <= dq.end <=> r <= c.end)
  BY <1>2, <1>3, <1>4 DEF IsCompacted
<1>6. \A p \in DOMAIN list : list[p] # Hole => \E r \in DOMAIN c.kept : c.kept[r] = list[p]
  BY <1>2, <1>3, <1>4 DEF IsCompacted
<1>7. \A r, t \in DOMAIN c.kept : c.kept[r] = c.kept[t] => r = t
  BY <1>2, <1>4 DEF IsCompacted
<1>8. dq.end <= Len(list) => c.end <= Len(c.kept)
  <2>1. IF Len(list) <= dq.end THEN c.end = dq.end - Len(list) + Len(c.kept) ELSE c.end <= Len(c.kept)
    BY <1>2 DEF IsCompacted
  <2> QED BY <2>1, <1>3, <1>4
<1>9. ls = {m \in Listener : \E r \in DOMAIN c.kept : c.kept[r] = <<m>>}
  <2>1. ASSUME NEW m \in Listener
        PROVE  (\E p \in DOMAIN list : list[p] = <<m>>) <=> \E r \in DOMAIN c.kept : c.kept[r] = <<m>>
    <3>1. <<m>> # Hole
      BY EntryFacts
    <3> DEFINE x == <<m>>
    <3> HIDE DEF x
    <3>2. (\E p \in DOMAIN list : list[p] = x) <=> \E r \in DOMAIN c.kept : c.kept[r] = x
      BY <1>5, <1>6, <3>1 DEF x
    <3> QED BY <3>2 DEF x
  <2> QED BY <1>1, <2>1
<1>10. OnceEach(c.kept)
  BY <1>7 DEF OnceEach
<1>11. IsListOf(c.kept, ls)
  BY <1>1, <1>4, <1>9, <1>10 DEF IsListOf
<1>12. ASSUME NEW q, NEW h, NEW a, q.i = c.i, q.end = c.end, q.value = dq.value,
              Divided(list, dq, h, a)
       PROVE  Divided(c.kept, q, h, a)
  <2>1. ASSUME NEW r \in DOMAIN c.kept, NEW l \in Listener, c.kept[r] = <<l>>
        PROVE  /\ r <= q.i => Contains(h[l], q.value)
               /\ r > q.i /\ r <= q.end => l \in a[q.value] /\ ~Contains(h[l], q.value)
               /\ r > q.end => l \notin a[q.value]
    <3>1. PICK p \in DOMAIN list : list[p] = c.kept[r] /\ (p <= dq.i <=> r <= c.i)
                                   /\ (p <= dq.end <=> r <= c.end)
      BY <1>5
    <3>2. (p > dq.i <=> ~(p <= dq.i)) /\ (p > dq.end <=> ~(p <= dq.end))
          /\ (r > c.i <=> ~(r <= c.i)) /\ (r > c.end <=> ~(r <= c.end))
      BY <1>3, <1>4
    <3> QED BY <3>1, <3>2, <2>1, <1>12 DEF Divided
  <2> QED BY <2>1 DEF Divided
<1> QED BY <1>4, <1>3, <1>8, <1>11, <1>12 DEF c

\* A listener is added to a list: it has not been there when an event was enqueued.
LEMMA LongerList ==
  ASSUME NEW list, NEW ls, IsListOf(list, ls), NEW l \in Listener, l \notin ls
  PROVE  LET t == Append(list, <<l>>)
         IN  /\ IsListOf(t, ls \cup {l})
             /\ Len(t) = Len(list) + 1
             /\ \A q, h, a : Divided(list, q, h, a) /\ q.end \in Nat /\ q.i \in Nat /\ q.i <= q.end
                             /\ q.end <= Len(list) /\ l \notin a[q.value]
                             => Divided(t, q, h, a)
<1> DEFINE t == Append(list, <<l>>)
<1> DEFINE n == Len(list)
<1>1. list \in Seq(Entry) /\ OnceEach(list)
      /\ ls = {m \in Listener : \E p \in DOMAIN list : list[p] = <<m>>}
  BY DEF IsListOf
<1>2. /\ t \in Seq(Entry) /\ Len(t) = n + 1 /\ n \in Nat /\ DOMAIN t = 1 .. n + 1
      /\ DOMAIN list = 1 .. n /\ t[n + 1] = <<l>> /\ \A p \in 1 .. n : t[p] = list[p]
  BY <1>1, EntryFacts
<1> HIDE DEF t, n
<1>3. \A p : p \in 1 .. n + 1 <=> p \in 1 .. n \/ p = n + 1
  BY <1>2
<1>4. \A p \in 1 .. n : list[p] # <<l>>
  BY <1>1, <1>2
<1>5. OnceEach(t)
  BY <1>1, <1>2, <1>3, <1>4 DEF OnceEach
<1>6. ls \cup {l} = {m \in Listener : \E p \in DOMAIN t : t[p] = <<m>>}
  BY <1>1, <1>2, <1>3, EntryFacts
<1>7. IsListOf(t, ls \cup {l})
  BY <1>2, <1>5, <1>6 DEF IsListOf
<1>8. ASSUME NEW q, NEW h, NEW a, Divided(list, q, h, a), q.end \in Nat, q.i \in Nat,
             q.i <= q.end, q.end <= n, l \notin a[q.value]
      PROVE  Divided(t, q, h, a)
  <2>1. ASSUME NEW p \in DOMAIN t, NEW m \in Listener, t[p] = <<m>>
        PROVE  /\ p <= q.i => Contains(h[m], q.value)
               /\ p > q.i /\ p <= q.end => m \in a[q.value] /\ ~Contains(h[m], q.value)
               /\ p > q.end => m \notin a[q.value]
    <3>1. CASE p \in 1 .. n
      BY <3>1, <2>1, <1>2, <1>8 DEF Divided
    <3>2. CASE p = n + 1
      <4>1. m = l /\ ~(p <= q.end) /\ ~(p <= q.i)
        BY <3>2, <2>1, <1>2, <1>8, EntryFacts
      <4> QED BY <4>1, <1>8
    <3> QED BY <3>1, <3>2, <1>2, <1>3
  <2> QED BY <2>1 DEF Divided
<1> QED BY <1>2, <1>7, <1>8 DEF t, n

\* An emitter is made without listeners and without events.
LEMMA EmitterInitInv == EmitterInit => EmitterInv
<1> SUFFICES ASSUME EmitterInit PROVE EmitterInv
  OBVIOUS
<1> DEFINE none == <<>>
<1>1. none \in Seq(Frame) /\ Len(none) = 0 /\ DOMAIN none = {} /\ none \in Seq(1 .. MaxEmitted)
  OBVIOUS
<1>2. stack = none /\ heard = [l \in Listener |-> none]
  BY DEF EmitterInit
<1> HIDE DEF none
<1>3. Subscribed
  BY FS_EmptySet DEF EmitterInit, Subscribed, Listeners, Undefined
<1>4. QueueOK
  BY EmitterBound DEF EmitterInit, QueueOK
<1>5. EventsOK
  <2>1. heard \in [Listener -> Seq(1 .. MaxEmitted)]
    BY <1>1, <1>2
  <2>2. emitted = 0 /\ audience = [e \in 1 .. MaxEmitted |-> {}] /\ emptied = FALSE /\ disposed = FALSE
        /\ within = [e \in 1 .. MaxEmitted |-> {}]
    BY DEF EmitterInit
  <2>3. Fired = {}
    BY <2>2 DEF Fired
  <2>4. audience \in [1 .. MaxEmitted -> SUBSET (on \cup off)]
        /\ within \in [1 .. MaxEmitted -> SUBSET (1 .. MaxEmitted)]
    BY <2>2
  <2>5. emitted \in 0 .. MaxEmitted
    BY <2>2, EmitterBound
  <2> QED BY <2>1, <2>2, <2>3, <2>4, <2>5 DEF EventsOK
<1>6. StackOK /\ Waiting = {}
  BY <1>1, <1>2 DEF StackOK, FramesOK, Waiting
<1>7. \A l \in Listener : DOMAIN heard[l] = {} /\ \A e : ~Contains(heard[l], e)
  BY <1>1, <1>2 DEF Contains
<1>8. emitted = 0 /\ Fired = {} /\ ~dq.current /\ audience = [e \in 1 .. MaxEmitted |-> {}]
  BY DEF EmitterInit, Fired
<1>9. Order /\ Current /\ AllHeard
  BY <1>6, <1>8 DEF Order, Current, AllHeard
<1>10. HeardSo
  BY <1>7 DEF HeardSo, HeardWell
<1>11. Later
  BY <1>7, <1>8 DEF Later
<1> QED BY <1>3, <1>4, <1>5, <1>6, <1>9, <1>10, <1>11 DEF EmitterInv, DeliveryOK

\* What is kept when no event is fired, enqueued or heard: the delivery goes on, or it is over
\* and nobody is left that has not heard.
LEMMA SameEvents ==
  ASSUME DeliveryOK, UNCHANGED <<emitted, within, audience, heard>>, Waiting' = Waiting,
         \A e \in Fired : audience[e] \cap on' \subseteq on,
         dq'.current => dq.current /\ dq'.value = dq.value,
         dq.current /\ ~dq'.current =>
           on' = {} \/ \A l \in audience[dq.value] \cap on : Contains(heard[l], dq.value)
  PROVE  Order' /\ Later' /\ HeardSo' /\ AllHeard'
<1>1. \A e, f : Precedes(e, f)' <=> Precedes(e, f)
  BY DEF Precedes
<1>2. Fired' = Fired
  BY DEF Fired
<1>3. Order'
  BY <1>1, <1>2 DEF DeliveryOK, Order
<1>4. Later'
  BY DEF DeliveryOK, Later
<1>5. HeardSo'
  BY DEF DeliveryOK, HeardSo, HeardWell
<1>6. ASSUME NEW e \in Fired', NEW l \in (audience[e] \cap on)'
      PROVE  (Contains(heard[l], e) \/ (dq.current /\ dq.value = e) \/ e \in Waiting)'
  <2>1. l \in audience[e] \cap on /\ e \in Fired /\ l \in on'
    BY <1>2, <1>6
  <2>2. Contains(heard[l], e) \/ (dq.current /\ dq.value = e) \/ e \in Waiting
    BY <2>1 DEF DeliveryOK, AllHeard
  <2>3. CASE Contains(heard[l], e) \/ e \in Waiting
    BY <2>3
  <2>4. CASE dq.current /\ dq.value = e
    BY <2>1, <2>4
  <2> QED BY <2>2, <2>3, <2>4
<1>7. AllHeard'
  BY <1>6 DEF AllHeard
<1> QED BY <1>3, <1>4, <1>5, <1>7

\* Events that were fired, and who was there.
LEMMA FiredFacts ==
  ASSUME EventsOK
  PROVE  /\ \A e \in Fired : e \in 1 .. MaxEmitted /\ e \in Nat
         /\ \A e \in 1 .. MaxEmitted : audience[e] \subseteq on \cup off
         /\ emitted \in Nat
BY EmitterBound DEF EventsOK, Fired

\* Add: who is added now has not been there when an event was enqueued.
LEMMA AddKeeps ==
  ASSUME EmitterInv, NEW l \in Listener, Add(l)
  PROVE  EmitterInv'
<1>0. Subscribed /\ QueueOK /\ EventsOK /\ StackOK /\ (~emptied => DeliveryOK)
  BY DEF EmitterInv
<1>1. /\ UNCHANGED <<dq, stack, emitted, off, audience, within, heard, emptied, disposed>>
      /\ l \notin on \cup off /\ on' = on \cup {l} /\ size' = size + 1
      /\ listeners' = CASE listeners.kind = "undefined" -> Single(l)
                        [] listeners.kind = "single" -> List(<<<<listeners.listener>>, <<l>>>>)
                        [] OTHER -> List(Append(listeners.list, <<l>>))
  BY DEF Add
<1>2. IsFiniteSet(on') /\ size' = Cardinality(on')
  BY <1>0, <1>1, FS_AddElement DEF Subscribed
<1>3. on' \subseteq Listener /\ off' \subseteq Listener /\ on' \cap off' = {}
  BY <1>0, <1>1 DEF Subscribed
<1>4. listeners.kind \in {"undefined", "single", "list"}
  BY <1>0 DEF Subscribed, Listeners, Undefined
<1>5. Subscribed' /\ (listeners.kind = "list" => listeners' = List(Append(listeners.list, <<l>>)))
  <2>1. CASE listeners.kind = "undefined"
    <3>1. listeners' = Single(l)
      BY <2>1, <1>1
    <3>2. on' = {l}
      BY <2>1, <1>0, <1>1 DEF Subscribed
    <3> QED BY <2>1, <3>1, <3>2, <1>2, <1>3 DEF Subscribed, Listeners, Single
  <2>2. CASE listeners.kind = "single"
    <3> DEFINE m == listeners.listener
    <3>1. listeners' = List(<<<<m>>, <<l>>>>)
      BY <2>2, <1>1
    <3>2. on = {m} /\ m \in Listener /\ l # m
      BY <2>2, <1>0, <1>1 DEF Subscribed
    <3> HIDE DEF m
    <3>3. IsListOf(<<<<m>>, <<l>>>>, on')
      <4> DEFINE a == <<m>>
      <4> DEFINE b == <<l>>
      <4> DEFINE q == <<a, b>>
      <4>1. a \in Entry /\ b \in Entry /\ a # b
        BY <3>2, EntryFacts
      <4>2. \A x \in Listener : (a = <<x>> <=> x = m) /\ (b = <<x>> <=> x = l)
        BY <3>2, EntryFacts
      <4> HIDE DEF a, b
      <4>3. q \in Seq(Entry) /\ DOMAIN q = {1, 2} /\ q[1] = a /\ q[2] = b
        BY <4>1
      <4> HIDE DEF q
      <4>4. OnceEach(q)
        BY <4>1, <4>3 DEF OnceEach
      <4>5. on' = {x \in Listener : \E p \in DOMAIN q : q[p] = <<x>>}
        BY <4>2, <4>3, <3>2, <1>1
      <4>6. IsListOf(q, on')
        BY <4>3, <4>4, <4>5, <1>1 DEF IsListOf
      <4> QED BY <4>6 DEF q, a, b
    <3> QED BY <2>2, <3>1, <3>3, <1>2, <1>3 DEF Subscribed, Listeners, List, IsListOf
  <2>3. CASE listeners.kind = "list"
    <3>1. listeners' = List(Append(listeners.list, <<l>>))
      BY <2>3, <1>1
    <3>2. IsListOf(Append(listeners.list, <<l>>), on')
      BY <2>3, <1>0, <1>1, LongerList DEF Subscribed
    <3> QED BY <2>3, <3>1, <3>2, <1>2, <1>3 DEF Subscribed, Listeners, List, IsListOf
  <2> QED BY <1>4, <2>1, <2>2, <2>3
<1>6. QueueOK' /\ StackOK' /\ Waiting' = Waiting
  BY <1>0, <1>1 DEF QueueOK, StackOK, Waiting
<1>7. EventsOK' /\ \A e \in 1 .. MaxEmitted : l \notin audience[e]
  BY <1>0, <1>1 DEF EventsOK, Fired
<1>8. ASSUME ~emptied
      PROVE  DeliveryOK'
  <2>1. DeliveryOK
    BY <1>0, <1>8
  <2>2. Current'
    <3>1. SUFFICES ASSUME dq.current PROVE Current'
      BY <1>1 DEF Current
    <3>2. /\ stack # <<>> /\ Top.live /\ listeners.kind = "list" /\ dq.value \notin Waiting
          /\ dq.end <= Len(listeners.list) /\ Divided(listeners.list, dq, heard, audience)
      BY <2>1, <3>1 DEF DeliveryOK, Current
    <3>3. Top' = Top
      BY <1>1 DEF Top
    <3>4. dq.value \in 1 .. MaxEmitted /\ dq.i \in Nat /\ dq.end \in Nat /\ dq.i <= dq.end
      BY <1>0, <3>1 DEF QueueOK
    <3> DEFINE t == Append(listeners.list, <<l>>)
    <3>5. IsListOf(listeners.list, on) /\ l \notin on
      BY <1>0, <1>1, <3>2 DEF Subscribed
    <3>6. Len(t) = Len(listeners.list) + 1 /\ Divided(t, dq, heard, audience)
      BY <3>2, <3>4, <3>5, <1>7, LongerList
    <3>7. listeners'.kind = "list" /\ listeners'.list = t
      BY <1>5, <3>2 DEF List
    <3>8. Len(listeners.list) \in Nat
      BY <3>5 DEF IsListOf
    <3> HIDE DEF t
    <3>9. dq.end <= Len(t)
      BY <3>2, <3>4, <3>6, <3>8
    <3> QED BY <1>1, <1>6, <3>2, <3>3, <3>6, <3>7, <3>9 DEF Current
  <2>3. \A e \in Fired : audience[e] \cap on' \subseteq on
    BY <1>0, <1>1, <1>7, FiredFacts
  <2> QED BY <1>1, <1>6, <2>1, <2>2, <2>3, SameEvents DEF DeliveryOK
<1> QED BY <1>1, <1>5, <1>6, <1>7, <1>8 DEF EmitterInv

\* The deliveries keep the list they captured and what waits for them.
LEMMA FreezeFacts ==
  ASSUME listeners \in Listeners, StackOK
  PROVE  Freeze \in Seq(Frame) /\ WaitingOf(Freeze) = WaitingOf(stack) /\ FramesOK(Freeze, emitted, within)
<1>1. stack \in Seq(Frame) /\ FramesOK(stack, emitted, within)
  BY DEF StackOK
<1>2. ASSUME NEW f \in Frame
      PROVE  [f EXCEPT !.captured = Captured(f), !.live = FALSE] \in Frame
  <2>1. Captured(f) \in Listeners
    BY DEF Captured, Frame
  <2> DEFINE x == Captured(f)
  <2> DEFINE no == FALSE
  <2>2. x \in Listeners /\ no \in BOOLEAN
    BY <2>1
  <2> HIDE DEF x, no
  <2>3. [f EXCEPT !.captured = x, !.live = no] \in Frame
    BY <2>2 DEF Frame
  <2> QED BY <2>3 DEF x, no
<1>3. ASSUME NEW f \in Frame
      PROVE  LET g == [f EXCEPT !.captured = Captured(f), !.live = FALSE]
             IN  g.next = f.next /\ ~g.live
  BY DEF Frame
<1> DEFINE t == Freeze
<1>4. DOMAIN t = DOMAIN stack
      /\ \A k \in DOMAIN stack : t[k] = [stack[k] EXCEPT !.captured = Captured(stack[k]), !.live = FALSE]
  BY DEF Freeze
<1> HIDE DEF t
<1>5. \A k \in DOMAIN stack : t[k] \in Frame /\ t[k].next = stack[k].next /\ ~t[k].live
  <2>1. TAKE k \in DOMAIN stack
  <2>2. stack[k] \in Frame
    BY <1>1
  <2> QED BY <2>2, <1>2, <1>3, <1>4
<1>6. t \in Seq(Frame)
  <2>1. DOMAIN stack = 1 .. Len(stack) /\ Len(stack) \in Nat
    BY <1>1
  <2>2. t = [k \in 1 .. Len(stack) |-> t[k]]
    <3>1. t = [k \in DOMAIN stack |-> t[k]]
      BY <1>4 DEF t, Freeze
    <3> QED BY <3>1, <2>1
  <2> DEFINE n == Len(stack)
  <2> HIDE DEF n
  <2>3. t \in [1 .. n -> Frame] /\ n \in Nat
    BY <2>1, <2>2, <1>4, <1>5 DEF n
  <2> HIDE DEF Frame
  <2> QED BY <2>3
<1>7. WaitingOf(t) = WaitingOf(stack) /\ FramesOK(t, emitted, within)
  BY <1>1, <1>4, <1>5, <1>6, Frozen
<1> QED BY <1>6, <1>7 DEF t

\* RemoveListener: a delivery under way divides what is left of the list, compacted or not.
LEMMA RemoveKeeps ==
  ASSUME EmitterInv, NEW l \in Listener, RemoveListener(l)
  PROVE  EmitterInv'
<1>0. Subscribed /\ QueueOK /\ EventsOK /\ StackOK /\ (~emptied => DeliveryOK)
  BY DEF EmitterInv
<1>1. /\ UNCHANGED <<emitted, audience, within, heard, disposed>>
      /\ l \in on /\ on' = on \ {l} /\ off' = off \cup {l} /\ size' = size - 1
  BY DEF RemoveListener
<1>2. IsFiniteSet(on') /\ size' = Cardinality(on')
  BY <1>0, <1>1, FS_RemoveElement DEF Subscribed
<1>3. on' \subseteq Listener /\ off' \subseteq Listener /\ on' \cap off' = {}
  BY <1>0, <1>1 DEF Subscribed
<1>4. EventsOK'
  <2>1. on' \cup off' = on \cup off
    BY <1>1
  <2> QED BY <1>0, <1>1, <2>1 DEF EventsOK, Fired, RemoveListener
<1>5. \A e \in Fired : audience[e] \cap on' \subseteq on
  BY <1>1
<1>6. CASE size = 1
  <2>1. /\ listeners' = Undefined /\ stack' = Freeze /\ emptied' = (emptied \/ dq.current) /\ dq' = dq
    BY <1>6 DEF RemoveListener
  <2>2. on' = {}
    <3>1. PICK x : on = {x}
      BY <1>0, <1>6, FS_Singleton DEF Subscribed
    <3> QED BY <3>1, <1>1
  <2>3. Subscribed'
    BY <2>1, <2>2, <1>2, <1>3 DEF Subscribed, Undefined, Listeners
  <2>4. QueueOK'
    BY <2>1, <1>0, <1>1 DEF QueueOK
  <2>5. StackOK' /\ Waiting' = Waiting
    <3>1. Freeze \in Seq(Frame) /\ WaitingOf(Freeze) = WaitingOf(stack) /\ FramesOK(Freeze, emitted, within)
      BY <1>0, FreezeFacts DEF Subscribed
    <3> QED BY <3>1, <2>1, <1>1, WaitingFacts DEF StackOK
  <2>6. ASSUME ~emptied'
        PROVE  DeliveryOK'
    <3>1. DeliveryOK /\ ~dq.current
      BY <1>0, <2>1, <2>6
    <3>2. Current'
      BY <3>1, <2>1 DEF Current
    <3> QED BY <3>1, <3>2, <2>1, <2>5, <1>1, <1>5, SameEvents DEF DeliveryOK
  <2> QED BY <2>3, <2>4, <2>5, <2>6, <1>4 DEF EmitterInv
<1>7. CASE size # 1
  <2> DEFINE sparse == [k \in DOMAIN listeners.list |->
                          IF listeners.list[k] = <<l>> THEN Hole ELSE listeners.list[k]]
  <2> DEFINE compact == (size - 1) * 2 <= Len(sparse)
  <2> DEFINE c == Compaction(sparse)
  <2>1. /\ listeners' = List(IF compact THEN c.kept ELSE sparse)
        /\ dq' = IF compact /\ dq.current THEN Adjusted(c) ELSE dq
        /\ UNCHANGED <<stack, emptied>>
    BY <1>7, Zenon DEF RemoveListener
  <2>2. on # {l} /\ listeners.kind = "list"
    <3>1. on # {l}
      BY <1>0, <1>7, FS_Singleton DEF Subscribed
    <3>2. listeners.kind \in {"undefined", "single", "list"}
      BY <1>0 DEF Subscribed, Listeners, Undefined
    <3>3. listeners.kind # "undefined"
      BY <1>0, <1>1 DEF Subscribed
    <3>4. listeners.kind # "single"
      BY <1>0, <1>1, <3>1 DEF Subscribed
    <3> QED BY <3>1, <3>2, <3>3, <3>4
  <2>3. IsListOf(listeners.list, on)
    BY <2>2, <1>0 DEF Subscribed
  <2>4. /\ IsListOf(sparse, on') /\ Len(sparse) = Len(listeners.list)
        /\ \A q, h, a : Divided(listeners.list, q, h, a) => Divided(sparse, q, h, a)
    BY <2>2, <2>3, <1>1, Sparse
  <2> HIDE DEF sparse
  <2>5. dq.i \in Nat /\ dq.end \in Nat /\ dq.i <= dq.end /\ dq.value \in 0 .. MaxEmitted
    BY <1>0 DEF QueueOK
  <2>6. /\ IsListOf(c.kept, on')
        /\ c.i \in Nat /\ c.end \in Nat /\ c.i <= c.end
        /\ dq.end <= Len(sparse) => c.end <= Len(c.kept)
        /\ \A q, h, a : q.i = c.i /\ q.end = c.end /\ q.value = dq.value
                        /\ Divided(sparse, dq, h, a) => Divided(c.kept, q, h, a)
    BY <2>4, <2>5, Dense
  <2> HIDE DEF c, compact
  <2>7. Adjusted(c) \in [i : Nat, end : Nat, current : BOOLEAN, value : 0 .. MaxEmitted]
        /\ Adjusted(c).i = c.i /\ Adjusted(c).end = c.end /\ Adjusted(c).value = dq.value
        /\ Adjusted(c).current = dq.current
    <3> DEFINE a == c.i
    <3> DEFINE b == c.end
    <3>1. a \in Nat /\ b \in Nat
      BY <2>6
    <3>2. Adjusted(c) = [dq EXCEPT !.i = a, !.end = b]
      BY DEF Adjusted
    <3>3. dq \in [i : Nat, end : Nat, current : BOOLEAN, value : 0 .. MaxEmitted]
      BY <1>0 DEF QueueOK
    <3> HIDE DEF a, b
    <3>4. Adjusted(c) \in [i : Nat, end : Nat, current : BOOLEAN, value : 0 .. MaxEmitted]
          /\ Adjusted(c).i = a /\ Adjusted(c).end = b /\ Adjusted(c).value = dq.value
          /\ Adjusted(c).current = dq.current
      BY <3>1, <3>2, <3>3
    <3> QED BY <3>4 DEF a, b
  <2>8. QueueOK' /\ dq'.current = dq.current /\ dq'.value = dq.value
    <3>1. CASE compact /\ dq.current
      BY <3>1, <2>1, <2>6, <2>7, <1>0, <1>1 DEF QueueOK
    <3>2. CASE ~(compact /\ dq.current)
      BY <3>2, <2>1, <1>0, <1>1 DEF QueueOK
    <3> QED BY <3>1, <3>2
  <2> DEFINE t == IF compact THEN c.kept ELSE sparse
  <2>9. IsListOf(t, on')
    BY <2>4, <2>6
  <2>10. Subscribed' /\ listeners'.kind = "list" /\ listeners'.list = t
    <3>1. listeners' = List(t) /\ t \in Seq(Entry)
      BY <2>1, <2>9 DEF IsListOf
    <3> HIDE DEF t
    <3> QED BY <3>1, <2>9, <1>2, <1>3 DEF Subscribed, Listeners, List
  <2>11. StackOK' /\ Waiting' = Waiting
    BY <1>0, <1>1, <2>1 DEF StackOK, Waiting
  <2>12. ASSUME ~emptied'
         PROVE  DeliveryOK'
    <3>1. DeliveryOK
      BY <1>0, <2>1, <2>12
    <3>2. Current'
      <4>1. SUFFICES ASSUME dq.current PROVE Current'
        BY <2>8 DEF Current
      <4>2. /\ stack # <<>> /\ Top.live /\ listeners.kind = "list" /\ dq.value \notin Waiting
            /\ dq.end <= Len(listeners.list) /\ Divided(listeners.list, dq, heard, audience)
        BY <3>1, <4>1 DEF DeliveryOK, Current
      <4>3. Top' = Top
        BY <2>1 DEF Top
      <4>4. Divided(sparse, dq, heard, audience) /\ dq.end <= Len(sparse)
        BY <4>2, <2>4
      <4>5. Divided(t, dq', heard, audience) /\ dq'.end <= Len(t)
        <5>1. CASE compact
          BY <5>1, <4>1, <4>4, <2>1, <2>6, <2>7
        <5>2. CASE ~compact
          BY <5>2, <4>4, <2>1
        <5> QED BY <5>1, <5>2
      <4> HIDE DEF t
      <4> QED BY <4>2, <4>3, <4>5, <2>1, <2>8, <2>10, <2>11, <1>1 DEF Current
    <3> QED BY <3>1, <3>2, <2>8, <2>11, <1>1, <1>5, SameEvents DEF DeliveryOK
  <2> QED BY <2>8, <2>10, <2>11, <2>12, <1>4 DEF EmitterInv
<1> QED BY <1>6, <1>7

\* reset() of the delivery queue
LEMMA RestFacts ==
  ASSUME QueueOK
  PROVE  LET r == [dq EXCEPT !.i = dq.end, !.current = FALSE]
         IN  /\ r \in [i : Nat, end : Nat, current : BOOLEAN, value : 0 .. MaxEmitted]
             /\ r.i = r.end /\ r.end = dq.end /\ ~r.current /\ r.value = dq.value
<1> DEFINE a == dq.end
<1> DEFINE no == FALSE
<1>1. dq \in [i : Nat, end : Nat, current : BOOLEAN, value : 0 .. MaxEmitted]
      /\ a \in Nat /\ no \in BOOLEAN
  BY DEF QueueOK
<1>2. dq.end = a
  OBVIOUS
<1> HIDE DEF a, no
<1> DEFINE r == [dq EXCEPT !.i = a, !.current = no]
<1>3. /\ r \in [i : Nat, end : Nat, current : BOOLEAN, value : 0 .. MaxEmitted]
      /\ r.i = a /\ r.end = dq.end /\ r.current = no /\ r.value = dq.value
  BY <1>1
<1> QED BY <1>2, <1>3 DEF a, no

\* DisposeEmitter: nobody listens, so that all who listen have heard all.
LEMMA DisposeKeeps ==
  ASSUME EmitterInv, DisposeEmitter
  PROVE  EmitterInv'
<1>0. Subscribed /\ QueueOK /\ EventsOK /\ StackOK /\ (~emptied => DeliveryOK)
  BY DEF EmitterInv
<1>1. /\ UNCHANGED <<emitted, audience, within, heard, emptied>>
      /\ disposed' = TRUE /\ listeners' = Undefined /\ size' = 0 /\ stack' = Freeze
      /\ dq' = IF dq.current THEN [dq EXCEPT !.i = dq.end, !.current = FALSE] ELSE dq
      /\ on' = {} /\ off' = off \cup on
  BY DEF DisposeEmitter
<1>2. Subscribed'
  BY <1>0, <1>1, FS_EmptySet DEF Subscribed, Listeners, Undefined
<1>3. QueueOK' /\ ~dq'.current
  BY <1>0, <1>1, RestFacts DEF QueueOK
<1>4. EventsOK'
  <2>1. on' \cup off' = on \cup off
    BY <1>1
  <2> QED BY <1>0, <1>1, <2>1 DEF EventsOK, Fired
<1>5. StackOK' /\ Waiting' = Waiting
  <2>1. Freeze \in Seq(Frame) /\ WaitingOf(Freeze) = WaitingOf(stack) /\ FramesOK(Freeze, emitted, within)
    BY <1>0, FreezeFacts DEF Subscribed
  <2> QED BY <2>1, <1>1, WaitingFacts DEF StackOK
<1>6. ASSUME ~emptied'
      PROVE  DeliveryOK'
  <2>1. DeliveryOK
    BY <1>0, <1>1, <1>6
  <2>2. Current'
    BY <1>3 DEF Current
  <2>3. \A e \in Fired : audience[e] \cap on' \subseteq on
    BY <1>1
  <2> QED BY <2>1, <2>2, <2>3, <1>1, <1>3, <1>5, SameEvents DEF DeliveryOK
<1> QED BY <1>2, <1>3, <1>4, <1>5, <1>6 DEF EmitterInv

\* The listener that the top of the stack calls, or the end of its call.
HasCalled ==
  /\ stack' \in Seq(Frame) /\ stack' # <<>> /\ Top'.live = Top.live
  /\ Waiting' = Waiting
  /\ \A n, w : FramesOK(stack, n, w) => FramesOK(stack', n, w)

\* The top of the stack calls x, which may be a hole.
LEMMA TopCalls ==
  ASSUME StackOK, stack # <<>>, NEW x \in Entry, stack' = WithTop([Top EXCEPT !.calls = x])
  PROVE  HasCalled
<1>1. stack \in Seq(Frame) /\ Top = stack[Len(stack)] /\ Len(stack) \in DOMAIN stack
      /\ FramesOK(stack, emitted, within)
  BY DEF StackOK, Top
<1>2. Top \in Frame /\ (Top.live => Top.captured.kind = "list")
  BY <1>1 DEF FramesOK
<1> DEFINE f == [Top EXCEPT !.calls = x]
<1>3. f \in Frame /\ f.next = Top.next /\ f.live = Top.live /\ f.captured = Top.captured
  BY <1>2 DEF Frame
<1>4. stack' = [stack EXCEPT ![Len(stack)] = f]
  BY DEF WithTop
<1> HIDE DEF f
<1>5. HasReplaced(stack, f, stack')
  <2>1. f.next = stack[Len(stack)].next /\ (f.live => f.captured.kind = "list")
    BY <1>1, <1>2, <1>3
  <2> QED BY <1>1, <1>3, <1>4, <2>1, Replaced
<1> QED BY <1>3, <1>5, WaitingFacts DEF HasReplaced, HasCalled, Top

\* Return: nothing is heard, and nothing that waits is taken off the stack.
LEMMA ReturnKeeps ==
  ASSUME EmitterInv, Return
  PROVE  EmitterInv'
<1>0. Subscribed /\ QueueOK /\ EventsOK /\ StackOK /\ (~emptied => DeliveryOK)
  BY DEF EmitterInv
<1>1. /\ UNCHANGED <<listeners, size, dq, emitted, on, off, audience, within, heard, emptied, disposed>>
      /\ stack # <<>>
      /\ stack' = IF Top.captured.kind = "single" /\ Top.next = 0 THEN Front(stack)
                  ELSE WithTop([Top EXCEPT !.calls = Hole])
  BY DEF Return
<1>2. stack \in Seq(Frame) /\ FramesOK(stack, emitted, within) /\ Top = stack[Len(stack)]
      /\ Len(stack) \in DOMAIN stack
  BY <1>0, <1>1 DEF StackOK, Top
<1>3. Top \in Frame /\ (Top.live => Top.captured.kind = "list")
  BY <1>2 DEF FramesOK
<1>4. StackOK' /\ Waiting' = Waiting /\ (Top.live => stack' # <<>> /\ Top'.live)
  <2>1. CASE Top.captured.kind = "single" /\ Top.next = 0
    <3>1. stack' = Front(stack) /\ emitted \in Nat
      BY <2>1, <1>0, <1>1, FiredFacts
    <3>2. Front(stack) \in Seq(Frame) /\ FramesOK(Front(stack), emitted, within)
          /\ WaitingOf(Front(stack)) = WaitingOf(stack) \ {0}
      BY <3>1, <2>1, <1>1, <1>2, Popped
    <3>3. 0 \notin WaitingOf(stack)
      BY DEF WaitingOf
    <3> QED BY <2>1, <3>1, <3>2, <3>3, <1>1, <1>3, WaitingFacts DEF StackOK
  <2>2. CASE ~(Top.captured.kind = "single" /\ Top.next = 0)
    <3>1. Hole \in Entry /\ stack' = WithTop([Top EXCEPT !.calls = Hole])
      BY <2>2, <1>1, EntryFacts
    <3>2. HasCalled
      BY <3>1, <1>0, <1>1, TopCalls
    <3> QED BY <3>2, <1>1, <1>2 DEF StackOK, HasCalled
  <2> QED BY <2>1, <2>2
<1>5. Subscribed' /\ QueueOK' /\ EventsOK'
  BY <1>0, <1>1 DEF Subscribed, QueueOK, EventsOK, Fired
<1>6. ASSUME ~emptied'
      PROVE  DeliveryOK'
  <2>1. DeliveryOK
    BY <1>0, <1>1, <1>6
  <2>2. Current'
    BY <2>1, <1>1, <1>4 DEF DeliveryOK, Current
  <2>3. \A e \in Fired : audience[e] \cap on' \subseteq on
    BY <1>1
  <2> QED BY <2>1, <2>2, <2>3, <1>1, <1>4, SameEvents DEF DeliveryOK
<1> QED BY <1>4, <1>5, <1>6 DEF EmitterInv

\* The frame of a delivery.
LEMMA DeliveryFacts ==
  ASSUME listeners \in Listeners, NEW n \in 0 .. MaxEmitted
  PROVE  /\ Delivery(listeners, n) \in Frame
         /\ Delivery(listeners, n).next = n
         /\ Delivery(listeners, n).live <=> listeners.kind = "list"
         /\ Delivery(listeners, n).captured = listeners
<1> DEFINE x == Hole
<1> DEFINE y == listeners.kind = "list"
<1>1. x \in Entry /\ y \in BOOLEAN
  BY EntryFacts
<1>2. Delivery(listeners, n) = [captured |-> listeners, live |-> y, calls |-> x, next |-> n]
  BY DEF Delivery
<1> HIDE DEF x, y
<1> DEFINE d == [captured |-> listeners, live |-> y, calls |-> x, next |-> n]
<1>3. d \in Frame /\ d.next = n /\ d.live = y /\ d.captured = listeners
  BY <1>1 DEF Frame
<1> HIDE DEF d
<1>4. Delivery(listeners, n) = d
  BY <1>2 DEF d
<1>5. d.live <=> listeners.kind = "list"
  BY <1>3, Zenon DEF y
<1> QED BY <1>3, <1>4, <1>5

\* What is left of fire() may begin for the event e: all that was enqueued before precedes it
\* and what waits, all who listen have heard it, and nobody has heard what is not enqueued.
Ready(below, e) ==
  /\ \A g \in (1 .. emitted') \ WaitingOf(below) :
       /\ \A f \in WaitingOf(below) : PrecedesIn(within', g, f)
       /\ g # e => PrecedesIn(within', g, e)
       /\ g # e => \A l \in audience[g] \cap on : Contains(heard[l], g)
  /\ \A g \in 1 .. MaxEmitted : g \in WaitingOf(below) \/ g = e \/ g > emitted' =>
       audience[g] = {} /\ \A l \in Listener : ~Contains(heard[l], g)
  /\ HeardWell(heard, within', audience)

\* The rest of fire(): the event e, that all that was enqueued before precedes, goes to those
\* who listen now.
LEMMA EnqueueKeeps ==
  ASSUME Subscribed, UNCHANGED <<listeners, size, on, off, emptied, disposed>>,
         emitted' \in 0 .. MaxEmitted,
         within' \in [1 .. MaxEmitted -> SUBSET (1 .. MaxEmitted)],
         \A g \in 1 .. emitted' : within'[g] \subseteq 1 .. (g - 1),
         audience \in [1 .. MaxEmitted -> SUBSET (on \cup off)],
         heard \in [Listener -> Seq(1 .. MaxEmitted)],
         emptied \in BOOLEAN, disposed \in BOOLEAN,
         NEW below \in Seq(Frame), FramesOK(below, emitted', within'),
         NEW e \in 1 .. emitted', e \notin WaitingOf(below),
         NEW q \in [i : Nat, end : Nat, current : BOOLEAN, value : 0 .. MaxEmitted],
         q.i = q.end, ~q.current, q.value <= emitted',
         ~emptied => Ready(below, e),
         Enqueue(below, e, q)
  PROVE  EmitterInv'
<1> DEFINE W == WaitingOf(below)
<1> DEFINE F == 1 .. emitted'
<1>1. audience' = [audience EXCEPT ![e] = on] /\ e \in 1 .. MaxEmitted /\ emitted' \in Nat
  BY EmitterBound DEF Enqueue
<1>2. /\ audience' \in [1 .. MaxEmitted -> SUBSET (on' \cup off')]
      /\ audience'[e] = on /\ \A g \in 1 .. MaxEmitted : g # e => audience'[g] = audience[g]
      /\ \A g \in 1 .. MaxEmitted : g # e => audience'[g] = audience[g]
  BY <1>1
<1>3. Subscribed' /\ F = Fired' /\ W \subseteq F /\ F \subseteq 1 .. MaxEmitted
  <2>1. Subscribed'
    BY DEF Subscribed
  <2>2. F = Fired'
    BY DEF Fired
  <2>3. W \subseteq F
    BY <1>1, WaitingFired
  <2>4. F \subseteq 1 .. MaxEmitted
    BY <1>1, EmitterBound
  <2> QED BY <2>1, <2>2, <2>3, <2>4
<1>4. listeners.kind \in {"undefined", "single", "list"}
  BY DEF Subscribed, Listeners, Undefined
\* What follows whoever hears the event first.
<1>5. ASSUME NEW l \in Listener, NEW g, Contains(heard[l], g), ~emptied
      PROVE  g \in F \ W /\ g # e /\ PrecedesIn(within', g, e)
  <2>0. Ready(below, e)
    BY <1>5
  <2>1. g \in 1 .. MaxEmitted
    <3>1. heard \in [Listener -> Seq(1 .. MaxEmitted)]
      OBVIOUS
    <3>2. PICK j \in DOMAIN heard[l] : heard[l][j] = g
      BY <3>1, <1>5, ContainsFacts
    <3> QED BY <3>1, <3>2, ContainsFacts
  <2>2. g \notin W /\ g # e /\ ~(g > emitted')
    BY <1>5, <2>0, <2>1 DEF Ready
  <2>3. g \in F
    BY <1>1, <2>1, <2>2
  <2> QED BY <2>0, <2>2, <2>3 DEF Ready
<1>6. ASSUME heard' \in [Listener -> Seq(1 .. MaxEmitted)]
      PROVE  EventsOK'
  BY <1>2, <1>3, <1>6 DEF EventsOK
<1>7. ASSUME ~emptied, Waiting' = W, dq'.current => dq'.value = e
      PROVE  Order'
  <2>1. \A g \in Fired' \ Waiting' : \A f \in Waiting' : Precedes(g, f)'
    BY <1>3, <1>7, WaitingFacts DEF Ready
  <2>2. dq'.current => \A g \in Fired' \ Waiting' : g # e => PrecedesIn(within', g, e)
    BY <1>3, <1>7 DEF Ready
  <2> QED BY <2>1, <2>2, <1>7, WaitingFacts DEF Order
\* Those who have heard have not heard e.
<1>11. ASSUME ~emptied
       PROVE  HeardWell(heard, within', audience')
  <2>1. \A l \in Listener : \A j \in DOMAIN heard[l] : heard[l][j] \in 1 .. MaxEmitted /\ heard[l][j] # e
    <3>1. heard \in [Listener -> Seq(1 .. MaxEmitted)]
      OBVIOUS
    <3> QED BY <3>1, <1>5, <1>11, ContainsFacts
  <2>2. HeardWell(heard, within', audience)
    BY <1>11 DEF Ready
  <2> QED BY <2>1, <2>2, <1>2 DEF HeardWell
<1>12. ASSUME ~emptied, NEW g \in 1 .. MaxEmitted, g \in W \/ g > emitted'
       PROVE  g # e /\ audience'[g] = {} /\ \A l \in Listener : ~Contains(heard[l], g)
  <2>1. g # e
    BY <1>12, <1>1
  <2>2. audience[g] = {} /\ \A l \in Listener : ~Contains(heard[l], g)
    BY <1>12 DEF Ready
  <2> QED BY <2>1, <2>2, <1>2
<1>13. ASSUME ~emptied, NEW g \in F, NEW l \in audience'[g] \cap on, g \notin W, g # e
       PROVE  Contains(heard[l], g)
  <2>1. l \in audience[g] \cap on
    BY <1>13, <1>2, <1>3
  <2> QED BY <2>1, <1>13 DEF Ready
<1>8. CASE listeners.kind = "undefined"
  <2>1. stack' = below /\ dq' = q /\ heard' = heard /\ on = {}
    BY <1>8 DEF Enqueue, Subscribed
  <2>2. QueueOK' /\ StackOK' /\ Waiting' = W
    BY <2>1, WaitingFacts DEF QueueOK, StackOK
  <2>3. EventsOK'
    BY <1>6, <2>1
  <2>4. ASSUME ~emptied
        PROVE  DeliveryOK'
    <3>1. Order'
      BY <1>7, <2>1, <2>2, <2>4
    <3>2. Current'
      BY <2>1 DEF Current
    <3>3. Later'
      BY <1>12, <2>1, <2>2, <2>4 DEF Later
    <3>4. HeardSo'
      BY <1>11, <2>1, <2>4 DEF HeardSo
    <3>5. AllHeard'
      BY <2>1 DEF AllHeard
    <3> QED BY <3>1, <3>2, <3>3, <3>4, <3>5 DEF DeliveryOK
  <2> QED BY <1>3, <2>2, <2>3, <2>4 DEF EmitterInv
<1>9. CASE listeners.kind = "single"
  <2> DEFINE l == listeners.listener
  <2>1. on = {l} /\ l \in Listener
    BY <1>9 DEF Subscribed
  <2> DEFINE f == [Delivery(listeners, 0) EXCEPT !.calls = <<l>>]
  <2>2. stack' = Append(below, f) /\ dq' = q /\ heard' = [heard EXCEPT ![l] = Append(@, e)]
    BY <1>9 DEF Enqueue
  <2>3. f \in Frame /\ f.next = 0 /\ ~f.live
    <3>1. 0 \in 0 .. MaxEmitted /\ listeners \in Listeners /\ <<l>> \in Entry
      BY <2>1, EmitterBound, EntryFacts DEF Subscribed
    <3> DEFINE d == Delivery(listeners, 0)
    <3>2. d \in Frame /\ d.next = 0 /\ ~d.live
      BY <3>1, <1>9, DeliveryFacts
    <3> DEFINE x == <<l>>
    <3> HIDE DEF x, d
    <3>3. [d EXCEPT !.calls = x] \in Frame /\ [d EXCEPT !.calls = x].next = 0
          /\ ~[d EXCEPT !.calls = x].live
      BY <3>1, <3>2 DEF Frame, x
    <3> QED BY <3>3 DEF x, d
  <2> HIDE DEF f, l
  <2>4. /\ stack' \in Seq(Frame)
        /\ WaitingOf(stack') = W \cup ({0} \ {0})
        /\ FramesOK(stack', emitted', within')
    <3>1. HasPushed(below, f, stack')
      <4>1. f.live => f.captured.kind = "list"
        BY <2>3
      <4> QED BY <2>2, <2>3, <4>1, Pushed
    <3>2. f.next \in 0 .. emitted' /\ ~(f.next # 0)
      BY <1>1, <2>3
    <3> QED BY <3>1, <3>2, <2>3 DEF HasPushed
  <2>5. QueueOK' /\ StackOK' /\ Waiting' = W
    <3>1. W \cup ({0} \ {0}) = W
      OBVIOUS
    <3> QED BY <2>2, <2>4, <3>1, WaitingFacts DEF QueueOK, StackOK
  <2>6. /\ heard' \in [Listener -> Seq(1 .. MaxEmitted)]
        /\ \A m \in Listener : \A g : Contains(heard'[m], g) <=> Contains(heard[m], g) \/ (m = l /\ g = e)
    <3>1. heard \in [Listener -> Seq(1 .. MaxEmitted)]
      OBVIOUS
    <3>2. HasHeard(heard, l, e, heard')
      BY <3>1, <1>1, <2>1, <2>2, Heard
    <3> QED BY <3>2 DEF HasHeard
  <2>7. ASSUME ~emptied
        PROVE  DeliveryOK'
    <3>1. Order'
      BY <1>7, <2>2, <2>5, <2>7
    <3>2. Current'
      BY <2>2 DEF Current
    <3>3. Later'
      BY <1>12, <2>5, <2>6, <2>7 DEF Later
    <3>4. HeardSo'
      <4>1. l \in audience'[e] /\ \A g : Contains(heard[l], g) => PrecedesIn(within', g, e)
        BY <1>2, <1>5, <2>1, <2>7
      <4>2. HeardWell(heard, within', audience') /\ heard \in [Listener -> Seq(1 .. MaxEmitted)]
        BY <1>11, <2>7
      <4>3. HeardWell(heard', within', audience')
        BY <4>1, <4>2, <1>1, <2>1, <2>2, HeardNext
      <4> QED BY <4>3 DEF HeardSo
    <3>5. AllHeard'
      <4>1. ASSUME NEW g \in F, NEW m \in audience'[g] \cap on, g \notin W
            PROVE  Contains(heard'[m], g)
        <5>1. m = l
          BY <4>1, <2>1
        <5>2. CASE g = e
          BY <5>1, <5>2, <2>1, <2>6
        <5>3. CASE g # e
          <6>1. Contains(heard[m], g)
            BY <4>1, <5>3, <1>13, <2>7
          <6> QED BY <6>1, <4>1, <2>1, <2>6
        <5> QED BY <5>2, <5>3
      <4> QED BY <4>1, <1>3, <2>5 DEF AllHeard
    <3> QED BY <3>1, <3>2, <3>3, <3>4, <3>5 DEF DeliveryOK
  <2> QED BY <1>3, <1>6, <2>5, <2>6, <2>7 DEF EmitterInv
<1>10. CASE listeners.kind = "list"
  <2> DEFINE f == Delivery(listeners, 0)
  <2> DEFINE n == Len(listeners.list)
  <2>1. IsListOf(listeners.list, on) /\ n \in Nat /\ DOMAIN listeners.list = 1 .. n
    <3>1. IsListOf(listeners.list, on)
      BY <1>10 DEF Subscribed
    <3>2. listeners.list \in Seq(Entry)
      BY <3>1 DEF IsListOf
    <3> QED BY <3>1, <3>2
  <2>2. stack' = Append(below, f) /\ heard' = heard
        /\ dq' = [i |-> 0, end |-> n, current |-> TRUE, value |-> e]
    BY <1>10 DEF Enqueue
  <2>3. f \in Frame /\ f.next = 0 /\ f.live /\ f.captured.kind = "list"
    BY <1>10, EmitterBound, DeliveryFacts DEF Subscribed
  <2> HIDE DEF f, n
  <2>4. /\ stack' \in Seq(Frame) /\ stack' # <<>> /\ stack'[Len(stack')] = f
        /\ WaitingOf(stack') = W \cup ({0} \ {0})
        /\ FramesOK(stack', emitted', within')
    <3>1. f.next \in 0 .. emitted' /\ ~(f.next # 0) /\ (f.live => f.captured.kind = "list")
      BY <1>1, <2>3
    <3> HIDE DEF W
    <3>2. HasPushed(below, f, stack')
      BY <2>2, <2>3, <3>1, Pushed
    <3> QED BY <3>1, <3>2, <2>3 DEF HasPushed, W
  <2>5. StackOK' /\ Waiting' = W /\ Top'.live
    <3>1. W \cup ({0} \ {0}) = W
      OBVIOUS
    <3> QED BY <2>3, <2>4, <3>1, WaitingFacts DEF StackOK, Top
  <2>6. dq'.i = 0 /\ dq'.end = n /\ dq'.current = TRUE /\ dq'.value = e
    BY <2>2
  <2>7. QueueOK'
    <3>1. dq' \in [i : Nat, end : Nat, current : BOOLEAN, value : 0 .. MaxEmitted]
      <4> DEFINE yes == TRUE
      <4> DEFINE none == 0
      <4>1. dq' = [i |-> none, end |-> n, current |-> yes, value |-> e] /\ yes \in BOOLEAN
            /\ none \in Nat /\ e \in 0 .. MaxEmitted
        BY <2>2, <1>1
      <4> HIDE DEF yes, none
      <4> QED BY <4>1, <2>1
    <3>2. e <= emitted' /\ e # 0
      BY <1>1
    <3> QED BY <3>1, <3>2, <2>1, <2>6 DEF QueueOK
  <2>8. EventsOK'
    BY <1>6, <2>2
  <2>9. ASSUME ~emptied
        PROVE  DeliveryOK'
    <3>1. Order'
      BY <1>7, <2>5, <2>6, <2>9
    <3>2. Current'
      <4>1. Divided(listeners.list, dq', heard, audience')
        <5>1. ASSUME NEW p \in DOMAIN listeners.list, NEW l \in Listener, listeners.list[p] = <<l>>
              PROVE  /\ ~(p <= 0) /\ ~(p > n)
                     /\ l \in audience'[e] /\ ~Contains(heard[l], e)
          <6>1. p \in 1 .. n
            BY <2>1
          <6>2. ~(p <= 0) /\ ~(p > n)
            BY <6>1, <2>1
          <6>3. l \in on
            BY <5>1, <2>1 DEF IsListOf
          <6>4. ~Contains(heard[l], e)
            BY <1>1, <2>9 DEF Ready
          <6> QED BY <6>2, <6>3, <6>4, <1>2
        <5> QED BY <5>1, <2>6 DEF Divided
      <4>2. dq'.end <= Len(listeners.list)
        BY <2>6, <2>1 DEF n
      <4> QED BY <4>1, <4>2, <1>10, <2>2, <2>4, <2>5, <2>6 DEF Current
    <3>3. Later'
      BY <1>12, <2>2, <2>5, <2>9 DEF Later
    <3>4. HeardSo'
      BY <1>11, <2>2, <2>9 DEF HeardSo
    <3>5. AllHeard'
      BY <1>3, <1>13, <2>2, <2>5, <2>6, <2>9 DEF AllHeard
    <3> QED BY <3>1, <3>2, <3>3, <3>4, <3>5 DEF DeliveryOK
  <2> QED BY <1>3, <2>5, <2>7, <2>8, <2>9 DEF EmitterInv
<1> QED BY <1>4, <1>8, <1>9, <1>10

\* An event that is fired comes after what was fired, but for what waits.
LEMMA WithinFacts ==
  ASSUME EventsOK, StackOK, emitted < MaxEmitted, emitted' = emitted + 1,
         within' = [within EXCEPT ![emitted'] = Waiting]
  PROVE  /\ emitted' \in 1 .. MaxEmitted /\ Fired' = Fired \cup {emitted'} /\ emitted' \notin Fired
         /\ Fired \subseteq 1 .. MaxEmitted /\ Waiting \subseteq Fired
         /\ within' \in [1 .. MaxEmitted -> SUBSET (1 .. MaxEmitted)]
         /\ \A g \in 1 .. emitted' : within'[g] \subseteq 1 .. (g - 1)
         /\ \A f \in Fired : f < emitted' /\ ~(emitted' < f)
         /\ \A f, g \in Fired : PrecedesIn(within', f, g) <=> PrecedesIn(within, f, g)
         /\ \A f \in Fired : PrecedesIn(within', f, emitted') <=> f \notin Waiting
         /\ \A f \in Waiting : PrecedesIn(within', emitted', f)
         /\ \A f \in Waiting : f < emitted' /\ f \in within'[emitted']
         /\ FramesOK(stack, emitted', within')
<1> DEFINE e == emitted'
<1>1. emitted \in Nat /\ e \in Nat /\ e = emitted + 1 /\ e <= MaxEmitted /\ MaxEmitted \in Nat
  BY EmitterBound DEF EventsOK
<1>2. e \in 1 .. MaxEmitted /\ Fired' = Fired \cup {e} /\ e \notin Fired /\ Fired \subseteq 1 .. MaxEmitted
  BY <1>1 DEF Fired
<1>3. \A f \in Fired : f < e /\ ~(e < f) /\ f # e
  BY <1>1 DEF Fired
<1>4. Waiting \subseteq Fired
  BY <1>1, WaitingFacts, WaitingFired DEF StackOK, Fired
<1>5. within \in [1 .. MaxEmitted -> SUBSET (1 .. MaxEmitted)] /\ within' = [within EXCEPT ![e] = Waiting]
      /\ \A g \in Fired : within[g] \subseteq 1 .. (g - 1)
  BY DEF EventsOK
<1>6. within' \in [1 .. MaxEmitted -> SUBSET (1 .. MaxEmitted)] /\ within'[e] = Waiting
      /\ \A g \in Fired : within'[g] = within[g]
  BY <1>2, <1>3, <1>4, <1>5
<1>7. \A g \in 1 .. e : within'[g] \subseteq 1 .. (g - 1)
  <2>1. Waiting \subseteq 1 .. (e - 1)
    BY <1>1, <1>4 DEF Fired
  <2>2. \A g \in 1 .. e : g \in Fired \/ g = e
    BY <1>1 DEF Fired
  <2> QED BY <2>1, <2>2, <1>5, <1>6
<1> HIDE DEF e
<1>8. \A f, g \in Fired : PrecedesIn(within', f, g) <=> PrecedesIn(within, f, g)
  BY <1>6 DEF PrecedesIn
<1>9. \A f \in Fired : PrecedesIn(within', f, e) <=> f \notin Waiting
  BY <1>3, <1>6 DEF PrecedesIn
<1>10. \A f \in Waiting : PrecedesIn(within', e, f)
  BY <1>3, <1>4, <1>6 DEF PrecedesIn
<1>11. FramesOK(stack, e, within')
  <2>1. FramesOK(stack, emitted, within)
    BY DEF StackOK
  <2>2. \A k \in DOMAIN stack : stack[k].next # 0 => stack[k].next \in Fired
    BY <1>1, <2>1 DEF FramesOK, Fired
  <2>3. \A k \in DOMAIN stack : stack[k].next \in 0 .. e
    BY <1>1, <2>1 DEF FramesOK
  <2> QED BY <2>1, <2>2, <2>3, <1>6 DEF FramesOK
<1> QED BY <1>2, <1>3, <1>4, <1>6, <1>7, <1>8, <1>9, <1>10, <1>11 DEF e

\* Whoever has heard an event heard one that was fired and does not wait.
LEMMA HeardFired ==
  ASSUME EventsOK, Later, NEW l \in Listener, NEW f, Contains(heard[l], f)
  PROVE  f \in Fired \ Waiting
<1>1. heard \in [Listener -> Seq(1 .. MaxEmitted)]
  BY DEF EventsOK
<1>2. PICK j \in DOMAIN heard[l] : heard[l][j] = f
  <2>1. \A x : Contains(heard[l], x) => \E j \in DOMAIN heard[l] : heard[l][j] = x
    BY <1>1, ContainsFacts
  <2> QED BY <2>1
<1>3. f \in 1 .. MaxEmitted
  BY <1>1, <1>2, ContainsFacts
<1>4. ~(f \in Waiting \/ f > emitted)
  BY <1>3 DEF Later
<1> QED BY <1>3, <1>4, FiredFacts DEF Fired

\* FireEvent: the event is the last that is enqueued, or waits as the last.
LEMMA FireKeeps ==
  ASSUME EmitterInv, FireEvent
  PROVE  EmitterInv'
<1>0. Subscribed /\ QueueOK /\ EventsOK /\ StackOK /\ (~emptied => DeliveryOK)
  BY DEF EmitterInv
<1>1. /\ UNCHANGED <<listeners, size, on, off, emptied, disposed>>
      /\ emitted < MaxEmitted /\ emitted' = emitted + 1
      /\ within' = [within EXCEPT ![emitted'] = Waiting]
  BY DEF FireEvent
<1> DEFINE e == emitted'
<1>2. /\ e \in 1 .. MaxEmitted /\ Fired' = Fired \cup {e} /\ e \notin Fired
      /\ Fired \subseteq 1 .. MaxEmitted /\ Waiting \subseteq Fired
      /\ within' \in [1 .. MaxEmitted -> SUBSET (1 .. MaxEmitted)]
      /\ \A g \in 1 .. e : within'[g] \subseteq 1 .. (g - 1)
      /\ \A f \in Fired : f < e /\ ~(e < f)
      /\ \A f, g \in Fired : PrecedesIn(within', f, g) <=> PrecedesIn(within, f, g)
      /\ \A f \in Fired : PrecedesIn(within', f, e) <=> f \notin Waiting
      /\ \A f \in Waiting : PrecedesIn(within', e, f)
      /\ \A f \in Waiting : f < e /\ f \in within'[e]
      /\ FramesOK(stack, e, within')
  BY <1>0, <1>1, WithinFacts
<1>3. emitted \in Nat /\ e \in Nat /\ e = emitted + 1 /\ e \in 0 .. MaxEmitted /\ e \in 1 .. e
      /\ Fired = 1 .. emitted /\ Fired' = 1 .. e
  BY <1>0, <1>1, <1>2, FiredFacts DEF Fired
<1>4. ASSUME ~emptied
      PROVE  HeardWell(heard, within', audience)
  <2>1. EventsOK /\ Later /\ HeardWell(heard, within, audience)
    BY <1>0, <1>4 DEF DeliveryOK, HeardSo
  <2>2. \A l \in Listener : \A j \in DOMAIN heard[l] : heard[l][j] \in Fired
    <3>1. \A l \in Listener : \A f : Contains(heard[l], f) => f \in Fired
      BY <2>1, HeardFired
    <3>2. heard \in [Listener -> Seq(1 .. MaxEmitted)]
      BY <2>1 DEF EventsOK
    <3> QED BY <3>1, <3>2, ContainsFacts
  <2> QED BY <2>1, <2>2, <1>2 DEF HeardWell
<1>5. QueueOK /\ dq.value <= e /\ dq.value # e
  BY <1>0, <1>3 DEF QueueOK
<1>6. audience \in [1 .. MaxEmitted -> SUBSET (on \cup off)]
      /\ heard \in [Listener -> Seq(1 .. MaxEmitted)] /\ emptied \in BOOLEAN /\ disposed \in BOOLEAN
  BY <1>0 DEF EventsOK
<1>7. CASE ~dq.current
  <2>1. Enqueue(stack, e, dq)
    BY <1>7 DEF FireEvent
  <2>2. stack \in Seq(Frame) /\ FramesOK(stack, e, within') /\ WaitingOf(stack) = Waiting
    BY <1>0, <1>2, WaitingFacts DEF StackOK
  <2>3. e \notin WaitingOf(stack)
    BY <2>2, <1>2
  <2>4. dq \in [i : Nat, end : Nat, current : BOOLEAN, value : 0 .. MaxEmitted] /\ dq.i = dq.end
    BY <1>5, <1>7 DEF QueueOK
  <2>5. ASSUME ~emptied
        PROVE  Ready(stack, e)
    <3>1. Order /\ Later /\ AllHeard
      BY <1>0, <2>5 DEF DeliveryOK
    <3>2. ASSUME NEW g \in Fired' \ Waiting
          PROVE  /\ \A f \in Waiting : PrecedesIn(within', g, f)
                 /\ g # e => PrecedesIn(within', g, e)
                 /\ g # e => \A l \in audience[g] \cap on : Contains(heard[l], g)
      <4>1. CASE g = e
        BY <4>1, <1>2
      <4>2. CASE g \in Fired
        <5>1. \A f \in Waiting : PrecedesIn(within, g, f)
          BY <4>2, <3>1, <3>2, WaitingFacts DEF Order
        <5>2. \A l \in audience[g] \cap on : Contains(heard[l], g)
          BY <4>2, <3>1, <3>2, <1>7 DEF AllHeard
        <5> QED BY <4>2, <5>1, <5>2, <3>2, <1>2
      <4> QED BY <4>1, <4>2, <3>2, <1>2
    <3>3. \A g \in 1 .. MaxEmitted : g \in Waiting \/ g = e \/ g > e =>
            audience[g] = {} /\ \A l \in Listener : ~Contains(heard[l], g)
      <4>1. \A g \in 1 .. MaxEmitted : g = e \/ g > e => g > emitted
        BY <1>3
      <4> QED BY <4>1, <3>1 DEF Later
    <3> QED BY <3>2, <3>3, <2>2, <2>5, <1>3, <1>4 DEF Ready
  <2> HIDE DEF e
  <2>6. /\ e = emitted' /\ emitted' \in 0 .. MaxEmitted /\ e \in 1 .. emitted'
        /\ FramesOK(stack, emitted', within')
        /\ \A g \in 1 .. emitted' : within'[g] \subseteq 1 .. (g - 1)
        /\ ~dq.current /\ dq.value <= emitted'
    BY <1>2, <1>3, <1>5, <1>7, <2>2 DEF e
  <2> QED BY <1>0, <1>1, <1>2, <1>6, <2>1, <2>2, <2>3, <2>4, <2>5, <2>6, EnqueueKeeps
<1>8. CASE dq.current
  <2>1. /\ UNCHANGED <<dq, heard, audience>>
        /\ IF listeners = Undefined /\ dq.i < dq.end
           THEN stack' = WithTop([Top EXCEPT !.calls = Hole])
           ELSE stack' = Append(stack, Delivery(listeners, e))
    BY <1>8 DEF FireEvent
  <2>2. Subscribed' /\ QueueOK' /\ EventsOK'
    <3>1. Subscribed'
      BY <1>0, <1>1 DEF Subscribed
    <3>2. QueueOK'
      BY <1>5, <2>1 DEF QueueOK
    <3>3. EventsOK'
      BY <1>1, <1>2, <1>3, <1>6, <2>1 DEF EventsOK
    <3> QED BY <3>1, <3>2, <3>3
  <2>3. CASE listeners = Undefined /\ dq.i < dq.end
    <3>1. emptied
      BY <1>0, <1>8, <2>3 DEF DeliveryOK, Current, Undefined
    <3>2. StackOK'
      <4>1. CASE stack = <<>>
        <5>1. DOMAIN stack' = {} /\ stack' = <<>>
          BY <4>1, <2>1, <2>3 DEF WithTop
        <5> DEFINE none == <<>>
        <5>2. none \in Seq(Frame) /\ DOMAIN none = {}
          OBVIOUS
        <5> QED BY <5>1, <5>2 DEF StackOK, FramesOK
      <4>2. CASE stack # <<>>
        <5>1. Hole \in Entry /\ stack' = WithTop([Top EXCEPT !.calls = Hole])
          BY <2>1, <2>3, EntryFacts
        <5>2. HasCalled
          BY <5>1, <4>2, <1>0, TopCalls
        <5> QED BY <5>2, <1>2 DEF StackOK, HasCalled
      <4> QED BY <4>1, <4>2
    <3> QED BY <3>1, <3>2, <2>2, <1>1 DEF EmitterInv
  <2>4. CASE ~(listeners = Undefined /\ dq.i < dq.end)
    <3> DEFINE f == Delivery(listeners, e)
    <3>1. stack' = Append(stack, f)
      BY <2>1, <2>4
    <3>2. f \in Frame /\ f.next = e /\ (f.live <=> listeners.kind = "list") /\ f.captured = listeners
      BY <1>0, <1>3, DeliveryFacts DEF Subscribed
    <3> HIDE DEF f, e
    <3>3. HasPushed(stack, f, stack')
      <4>1. stack \in Seq(Frame) /\ (f.live => f.captured.kind = "list")
        BY <1>0, <3>2 DEF StackOK
      <4> QED BY <4>1, <3>1, <3>2, Pushed
    <3>4. Waiting' = Waiting \cup {e}
      <4>1. WaitingOf(stack') = WaitingOf(stack) \cup ({e} \ {0}) /\ e # 0
        BY <3>2, <3>3, <1>2 DEF HasPushed
      <4> QED BY <4>1, WaitingFacts
    <3>5. StackOK'
      <4>1. f.next \in 0 .. e /\ \A g \in WaitingOf(stack) : g < f.next /\ g \in within'[f.next]
        BY <3>2, <1>2, <1>3, WaitingFacts
      <4>2. FramesOK(stack', e, within')
        BY <4>1, <3>3, <1>2 DEF HasPushed
      <4> QED BY <4>2, <3>3 DEF StackOK, HasPushed, e
    <3>6. ASSUME ~emptied
          PROVE  DeliveryOK'
      <4>1. Order /\ Current /\ Later /\ AllHeard
        BY <1>0, <3>6 DEF DeliveryOK
      <4>2. dq.value \in Fired
        BY <1>3, <1>5, <1>8, <1>0 DEF QueueOK
      <4>3. Fired' \ Waiting' = Fired \ Waiting
        BY <3>4, <1>2
      <4>4. Order'
        <5>1. ASSUME NEW g \in Fired \ Waiting, NEW h \in Waiting'
              PROVE  PrecedesIn(within', g, h)
          <6>1. CASE h = e
            BY <6>1, <1>2
          <6>2. CASE h \in Waiting
            BY <6>2, <4>1, <1>2, WaitingFacts DEF Order
          <6> QED BY <6>1, <6>2, <5>1, <3>4
        <5>2. \A g \in Fired \ Waiting : g # dq.value => PrecedesIn(within', g, dq.value)
          BY <4>1, <4>2, <1>2, <1>8, WaitingFacts DEF Order
        <5> QED BY <5>1, <5>2, <4>3, <2>1, WaitingFacts DEF Order
      <4>5. Current'
        <5>1. Top' = f /\ stack' # <<>>
          BY <3>3 DEF HasPushed, Top
        <5>2. dq.value \notin Waiting'
          BY <3>4, <4>1, <1>5, <1>8 DEF Current, e
        <5> QED BY <5>1, <5>2, <4>1, <3>2, <2>1, <1>1, <1>8 DEF Current
      <4>6. Later'
        <5>1. \A g \in 1 .. MaxEmitted : g \in Waiting' \/ g > e => g \in Waiting \/ g > emitted
          BY <3>4, <1>3
        <5> QED BY <5>1, <4>1, <2>1 DEF Later, e
      <4>7. HeardSo'
        BY <1>4, <2>1, <3>6 DEF HeardSo
      <4>8. AllHeard'
        BY <4>1, <3>4, <2>1, <1>1, <1>2 DEF AllHeard
      <4> QED BY <4>4, <4>5, <4>6, <4>7, <4>8 DEF DeliveryOK
    <3> QED BY <2>2, <3>5, <3>6, <1>1 DEF EmitterInv
  <2> QED BY <2>3, <2>4
<1> QED BY <1>7, <1>8

\* At the end of a delivery to a list whoever listens and listened when the event was
\* enqueued has heard it.
LEMMA DeliveredToAll ==
  ASSUME Subscribed, QueueOK, DeliveryOK, dq.current, dq.i = dq.end
  PROVE  \A l \in audience[dq.value] \cap on : Contains(heard[l], dq.value)
<1>1. listeners.kind = "list" /\ Divided(listeners.list, dq, heard, audience)
  BY DEF DeliveryOK, Current
<1>2. IsListOf(listeners.list, on) /\ on \subseteq Listener
  BY <1>1 DEF Subscribed
<1>3. ASSUME NEW l \in audience[dq.value] \cap on
      PROVE  Contains(heard[l], dq.value)
  <2>1. PICK p \in DOMAIN listeners.list : listeners.list[p] = <<l>>
    BY <1>2, <1>3 DEF IsListOf
  <2>2. ~(p > dq.end)
    BY <1>1, <1>2, <1>3, <2>1 DEF Divided
  <2>3. p \in Nat /\ dq.end \in Nat
    BY <1>2 DEF IsListOf, QueueOK
  <2>4. p <= dq.i
    BY <2>2, <2>3
  <2> QED BY <1>1, <1>2, <1>3, <2>1, <2>4 DEF Divided
<1> QED BY <1>3

\* The next listener is called, or a hole is passed.
LEMMA NextKeeps ==
  ASSUME EmitterInv, stack # <<>>, dq.i < dq.end, Captured(Top).kind # "single",
         UNCHANGED <<listeners, size, emitted, on, off, audience, within, emptied, disposed>>,
         dq' = [dq EXCEPT !.i = @ + 1],
         NEW entry,
         entry = (IF Captured(Top).kind = "list" /\ dq.i < Len(Captured(Top).list)
                  THEN Captured(Top).list[dq.i + 1] ELSE Hole),
         stack' = WithTop([Top EXCEPT !.calls = entry]),
         IF entry = Hole THEN UNCHANGED heard ELSE Hears(entry[1])
  PROVE  EmitterInv'
<1>0. Subscribed /\ QueueOK /\ EventsOK /\ StackOK /\ (~emptied => DeliveryOK)
  BY DEF EmitterInv
<1> DEFINE v == dq.value
<1> DEFINE i == dq.i
<1>1. dq.current /\ v \in 1 .. MaxEmitted /\ v \in Fired /\ i \in Nat /\ dq.end \in Nat
  <2>1. dq \in [i : Nat, end : Nat, current : BOOLEAN, value : 0 .. MaxEmitted]
        /\ dq.value <= emitted /\ (IF dq.current THEN dq.value # 0 ELSE dq.i = dq.end)
    BY <1>0 DEF QueueOK
  <2>2. emitted \in Nat /\ MaxEmitted \in Nat
    BY <1>0, FiredFacts, EmitterBound
  <2> QED BY <2>1, <2>2 DEF Fired
<1>2. dq' \in [i : Nat, end : Nat, current : BOOLEAN, value : 0 .. MaxEmitted]
      /\ dq'.i = i + 1 /\ dq'.end = dq.end /\ dq'.current = dq.current /\ dq'.value = v
  <2>1. dq \in [i : Nat, end : Nat, current : BOOLEAN, value : 0 .. MaxEmitted]
    BY <1>0 DEF QueueOK
  <2> DEFINE a == dq.i + 1
  <2>2. a \in Nat
    BY <1>1
  <2> HIDE DEF a
  <2>3. dq' = [dq EXCEPT !.i = a]
    BY DEF a
  <2>4. /\ dq' \in [i : Nat, end : Nat, current : BOOLEAN, value : 0 .. MaxEmitted]
        /\ dq'.i = a /\ dq'.end = dq.end /\ dq'.current = dq.current /\ dq'.value = v
    BY <2>1, <2>2, <2>3
  <2> QED BY <2>4 DEF a
<1>3. entry \in Entry
  <2>1. Captured(Top) \in Listeners
    <3>1. Top \in Frame
      BY <1>0 DEF StackOK, Top
    <3> QED BY <3>1, <1>0 DEF Captured, Frame, Subscribed
  <2>2. CASE Captured(Top).kind = "list" /\ i < Len(Captured(Top).list)
    <3>1. Captured(Top).list \in Seq(Entry)
      BY <2>1, <2>2 DEF Listeners, Undefined
    <3> DEFINE s == Captured(Top).list
    <3> HIDE DEF s
    <3>2. s \in Seq(Entry) /\ i < Len(s) /\ entry = s[i + 1]
      BY <2>2, <3>1 DEF s
    <3> QED BY <3>2, <1>1
  <2>3. CASE ~(Captured(Top).kind = "list" /\ i < Len(Captured(Top).list))
    BY <2>3, EntryFacts
  <2> QED BY <2>2, <2>3
<1>4. HasCalled
  BY <1>0, <1>3, TopCalls
<1>5. Subscribed'
  BY <1>0 DEF Subscribed
<1>6. QueueOK'
  <2>1. i + 1 <= dq.end
    BY <1>1
  <2> QED BY <2>1, <1>0, <1>1, <1>2 DEF QueueOK
<1>7. StackOK' /\ Waiting' = Waiting
  BY <1>0, <1>4, SMTT(40) DEF StackOK, HasCalled
<1>8. entry # Hole => /\ entry[1] \in Listener /\ entry = <<entry[1]>>
                      /\ heard' = [heard EXCEPT ![entry[1]] = Append(@, v)]
                      /\ HasHeard(heard, entry[1], v, heard')
  <2>1. SUFFICES ASSUME entry # Hole
                 PROVE  /\ entry[1] \in Listener /\ entry = <<entry[1]>>
                        /\ heard' = [heard EXCEPT ![entry[1]] = Append(@, v)]
                        /\ HasHeard(heard, entry[1], v, heard')
    OBVIOUS
  <2>2. entry[1] \in Listener /\ entry = <<entry[1]>>
    BY <1>3, <2>1, EntryFacts
  <2> DEFINE m == entry[1]
  <2> HIDE DEF v, m
  <2>3. heard' = [heard EXCEPT ![m] = Append(@, v)]
    BY <2>1, <1>2 DEF Hears, m
  <2>4. heard \in [Listener -> Seq(1 .. MaxEmitted)] /\ m \in Listener
    BY <2>2, <1>0 DEF EventsOK, m
  <2>5. HasHeard(heard, m, v, heard')
    BY <2>3, <2>4, <1>1, Heard
  <2> QED BY <2>2, <2>3, <2>5 DEF m
<1>9. EventsOK'
  <2>1. heard' \in [Listener -> Seq(1 .. MaxEmitted)]
    BY <1>0, <1>8 DEF EventsOK, HasHeard
  <2> QED BY <2>1, <1>0 DEF EventsOK, Fired
<1>10. ASSUME ~emptied'
       PROVE  DeliveryOK'
  <2>1. Order /\ Current /\ Later /\ HeardSo /\ AllHeard
    BY <1>0, <1>10 DEF DeliveryOK
  <2>2. /\ Top.live /\ listeners.kind = "list" /\ dq.end <= Len(listeners.list)
        /\ v \notin Waiting /\ Divided(listeners.list, dq, heard, audience)
    BY <2>1, <1>1 DEF Current
  <2>3. IsListOf(listeners.list, on) /\ Captured(Top) = listeners
    BY <2>2, <1>0 DEF Subscribed, Captured
  <2> DEFINE list == listeners.list
  <2>4. /\ list \in Seq(Entry) /\ OnceEach(list) /\ i + 1 \in DOMAIN list /\ entry = list[i + 1]
        /\ DOMAIN list \subseteq Nat
    <3>1. list \in Seq(Entry) /\ OnceEach(list)
      BY <2>3 DEF IsListOf
    <3> HIDE DEF list
    <3>2. i < Len(list)
      BY <3>1, <2>2, <1>1 DEF list
    <3>3. i + 1 \in DOMAIN list
      BY <3>1, <3>2, <1>1
    <3>4. entry = list[i + 1]
      BY <2>2, <2>3, <3>2 DEF list
    <3> QED BY <3>1, <3>3, <3>4
  <2> HIDE DEF list, i
  <2>5. \A p \in DOMAIN list : /\ p <= i + 1 <=> p <= i \/ p = i + 1
                               /\ p > i + 1 <=> p > i /\ p # i + 1
    BY <2>4, <1>1
  <2>6. ASSUME entry # Hole
        PROVE  /\ entry[1] \in audience[v] /\ ~Contains(heard[entry[1]], v)
               /\ \A p \in DOMAIN list : list[p] = entry => p = i + 1
    <3>1. i + 1 > i /\ i + 1 <= dq.end
      BY <1>1 DEF i
    <3>2. entry[1] \in audience[v] /\ ~Contains(heard[entry[1]], v)
      BY <2>2, <2>4, <2>6, <3>1, <1>8 DEF Divided, list, i
    <3> QED BY <3>2, <2>4, <2>6 DEF OnceEach
  <2>7. \A l \in Listener : \A f : Contains(heard'[l], f) <=>
          Contains(heard[l], f) \/ (entry # Hole /\ l = entry[1] /\ f = v)
    BY <1>8 DEF HasHeard
  <2>8. Order'
    BY <2>1, <1>2, <1>7, WaitingFacts DEF Order, Fired
  <2>9. Current'
    <3>1. Divided(list, dq', heard', audience)
      <4>1. ASSUME NEW p \in DOMAIN list, NEW l \in Listener, list[p] = <<l>>
            PROVE  /\ p <= i + 1 => Contains(heard'[l], v)
                   /\ p > i + 1 /\ p <= dq.end => l \in audience[v] /\ ~Contains(heard'[l], v)
                   /\ p > dq.end => l \notin audience[v]
        <5>1. /\ p <= i => Contains(heard[l], v)
              /\ p > i /\ p <= dq.end => l \in audience[v] /\ ~Contains(heard[l], v)
              /\ p > dq.end => l \notin audience[v]
          BY <4>1, <2>2 DEF Divided, list, i
        <5>2. p = i + 1 => entry # Hole /\ l = entry[1]
          BY <4>1, <2>4, <1>8, EntryFacts
        <5>3. entry # Hole /\ l = entry[1] => p = i + 1
          BY <4>1, <2>6, <1>8
        <5> QED BY <5>1, <5>2, <5>3, <2>5, <2>7
      <4> QED BY <4>1, <1>2 DEF Divided, i
    <3>2. stack' # <<>> /\ Top'.live
      BY <2>2, <1>4 DEF HasCalled
    <3> QED BY <3>1, <3>2, <2>2, <1>2, <1>7 DEF Current, list
  <2>10. Later'
    <3>1. ~(v \in Waiting \/ v > emitted)
      <4>1. emitted \in Nat /\ v \in 1 .. emitted
        BY <1>0, <1>1, FiredFacts DEF Fired
      <4> HIDE DEF v
      <4>2. ~(v > emitted)
        BY <4>1
      <4> QED BY <4>2, <2>2
    <3> QED BY <3>1, <2>1, <2>7, <1>7 DEF Later
  <2>11. HeardSo'
    <3>1. CASE entry = Hole
      BY <3>1, <2>1 DEF HeardSo, HeardWell
    <3>2. CASE entry # Hole
      <4> DEFINE m == entry[1]
      <4>1. \A f : Contains(heard[m], f) => PrecedesIn(within, f, v)
        <5>1. ASSUME NEW f, Contains(heard[m], f)
              PROVE  PrecedesIn(within, f, v)
          <6>1. f \in Fired \ Waiting
            BY <5>1, <3>2, <2>1, <1>0, <1>8, HeardFired
          <6>2. f # v
            BY <5>1, <3>2, <2>6, SMTT(40)
          <6> QED BY <6>1, <6>2, <2>1, <1>1, WaitingFacts, SMTT(40) DEF Order
        <5> QED BY <5>1
      <4>2. m \in Listener /\ m \in audience[v] /\ heard' = [heard EXCEPT ![m] = Append(@, v)]
        BY <3>2, <2>6, <1>8
      <4>3. heard \in [Listener -> Seq(1 .. MaxEmitted)] /\ HeardWell(heard, within, audience)
        BY <2>1, <1>0 DEF EventsOK, HeardSo
      <4> HIDE DEF m, v
      <4>4. HeardWell(heard', within, audience)
        BY <4>1, <4>2, <4>3, <1>1, HeardNext
      <4> QED BY <4>4 DEF HeardSo
    <3> QED BY <3>1, <3>2
  <2>12. AllHeard'
    <3>1. \A g \in Fired : \A l \in audience[g] \cap on : l \in Listener
      BY <1>0 DEF Subscribed
    <3> QED BY <3>1, <2>1, <2>7, <1>2, <1>7 DEF AllHeard, Fired
  <2> QED BY <2>8, <2>9, <2>10, <2>11, <2>12 DEF DeliveryOK
<1> QED BY <1>5, <1>6, <1>7, <1>9, <1>10 DEF EmitterInv

\* A delivery is over: the event that waited for it is enqueued.
LEMMA DeliverKeeps ==
  ASSUME EmitterInv, Deliver
  PROVE  EmitterInv'
<1>0. Subscribed /\ QueueOK /\ EventsOK /\ StackOK /\ (~emptied => DeliveryOK)
  BY DEF EmitterInv
<1> DEFINE seen == Captured(Top)
<1> DEFINE entry == IF seen.kind = "list" /\ dq.i < Len(seen.list) THEN seen.list[dq.i + 1] ELSE Hole
<1> DEFINE rest == [dq EXCEPT !.i = dq.end, !.current = FALSE]
<1>1. /\ UNCHANGED <<listeners, size, emitted, on, off, within, emptied, disposed>>
      /\ stack # <<>>
  BY DEF Deliver, Running
<1>2. IF seen.kind # "single" /\ dq.i < dq.end
      THEN /\ dq' = [dq EXCEPT !.i = @ + 1]
           /\ stack' = WithTop([Top EXCEPT !.calls = entry])
           /\ IF entry = Hole THEN UNCHANGED heard ELSE Hears(entry[1])
           /\ UNCHANGED audience
      ELSE IF Top.next = 0
      THEN stack' = Front(stack) /\ dq' = rest /\ UNCHANGED <<heard, audience>>
      ELSE Enqueue(Front(stack), Top.next, rest)
  BY Zenon DEF Deliver
<1>3. CASE seen.kind # "single" /\ dq.i < dq.end
  <2>1. /\ dq' = [dq EXCEPT !.i = @ + 1]
        /\ stack' = WithTop([Top EXCEPT !.calls = entry])
        /\ IF entry = Hole THEN UNCHANGED heard ELSE Hears(entry[1])
        /\ UNCHANGED audience
    BY <1>2, <1>3
  <2> DEFINE x == entry
  <2>2. x = (IF Captured(Top).kind = "list" /\ dq.i < Len(Captured(Top).list)
             THEN Captured(Top).list[dq.i + 1] ELSE Hole)
    OBVIOUS
  <2>3. stack' = WithTop([Top EXCEPT !.calls = x])
        /\ IF x = Hole THEN UNCHANGED heard ELSE Hears(x[1])
    BY <2>1
  <2>4. Captured(Top).kind # "single" /\ dq.i < dq.end
    BY <1>3
  <2> HIDE DEF x
  <2> QED BY <1>1, <2>1, <2>2, <2>3, <2>4, NextKeeps
<1>4. CASE ~(seen.kind # "single" /\ dq.i < dq.end)
  <2>1. /\ rest \in [i : Nat, end : Nat, current : BOOLEAN, value : 0 .. MaxEmitted]
        /\ rest.i = rest.end /\ rest.end = dq.end /\ ~rest.current /\ rest.value = dq.value
    BY <1>0, RestFacts
  <2>2. ASSUME ~emptied, dq.current
        PROVE  \A l \in audience[dq.value] \cap on : Contains(heard[l], dq.value)
    <3>1. Top.live /\ listeners.kind = "list" /\ DeliveryOK
      BY <1>0, <2>2 DEF DeliveryOK, Current
    <3>2. seen.kind = "list"
      BY <3>1 DEF Captured
    <3>3. dq.i = dq.end
      BY <3>2, <1>0, <1>4 DEF QueueOK
    <3> QED BY <3>1, <3>3, <2>2, <1>0, DeliveredToAll
  <2> DEFINE below == Front(stack)
  <2> DEFINE e == Top.next
  <2>3. /\ below \in Seq(Frame) /\ FramesOK(below, emitted, within)
        /\ WaitingOf(below) = Waiting \ {e} /\ e \in 0 .. emitted
        /\ e # 0 => \A f \in WaitingOf(below) : f < e /\ f \in within[e]
    <3>1. stack \in Seq(Frame) /\ FramesOK(stack, emitted, within) /\ emitted \in Nat
          /\ e = stack[Len(stack)].next
      BY <1>0, FiredFacts DEF StackOK, Top
    <3> QED BY <3>1, <1>1, WaitingFacts, Popped
  <2>4. CASE e = 0
    <3>1. stack' = below /\ dq' = rest /\ UNCHANGED <<heard, audience>>
      BY <2>4, <1>2, <1>4
    <3> HIDE DEF rest, below
    <3>2. StackOK' /\ Waiting' = Waiting
      <4>1. 0 \notin Waiting
        BY DEF Waiting
      <4> QED BY <4>1, <3>1, <2>3, <2>4, <1>1, WaitingFacts DEF StackOK
    <3>3. Subscribed' /\ EventsOK'
      BY <3>1, <1>0, <1>1 DEF Subscribed, EventsOK, Fired
    <3>4. QueueOK'
      BY <3>1, <2>1, <1>0, <1>1 DEF QueueOK
    <3>5. ASSUME ~emptied'
          PROVE  DeliveryOK'
      <4>1. DeliveryOK
        BY <3>5, <1>0, <1>1
      <4>2. ~dq'.current
        BY <3>1, <2>1
      <4>3. Current'
        BY <4>2 DEF Current
      <4>4. \A g \in Fired : audience[g] \cap on' \subseteq on
        BY <1>1
      <4>5. dq.current /\ ~dq'.current =>
              on' = {} \/ \A l \in audience[dq.value] \cap on : Contains(heard[l], dq.value)
        BY <2>2, <3>5, <1>1
      <4> QED BY <4>1, <4>2, <4>3, <4>4, <4>5, <3>1, <3>2, <1>1, SameEvents DEF DeliveryOK
    <3> QED BY <3>2, <3>3, <3>4, <3>5 DEF EmitterInv
  <2>5. CASE e # 0
    <3>1. Enqueue(below, e, rest)
      BY <2>5, <1>2, <1>4
    <3>2. e \in Waiting /\ e \in 1 .. emitted /\ emitted' = emitted /\ within' = within
      <4>1. e \in Waiting
        BY <2>5, <1>0, <1>1 DEF Waiting, Top, StackOK
      <4> QED BY <4>1, <2>3, <2>5, <1>0, <1>1, FiredFacts
    <3> HIDE DEF rest, below, e
    <3>3. ASSUME ~emptied
          PROVE  Ready(below, e)
      <4>1. Order /\ Later /\ HeardSo /\ AllHeard
        BY <3>3, <1>0 DEF DeliveryOK
      <4>2. ASSUME NEW g \in Fired \ (Waiting \ {e})
            PROVE  /\ \A f \in Waiting \ {e} : PrecedesIn(within, g, f)
                   /\ g # e => PrecedesIn(within, g, e)
                   /\ g # e => \A l \in audience[g] \cap on : Contains(heard[l], g)
        <5>1. CASE g = e
          <6>1. \A f \in Waiting \ {e} : f \in within[e] /\ ~(e < f)
            <7>1. Waiting \subseteq Fired
              BY <1>0, WaitingFacts, WaitingFired, FiredFacts DEF StackOK, Fired
            <7>2. ASSUME NEW f \in Waiting \ {e}
                  PROVE  f < e /\ f \in within[e] /\ f \in Nat /\ e \in Nat
              BY <7>1, <3>2, <2>3, <2>5, <1>0, FiredFacts DEF e
            <7> QED BY <7>2
          <6> QED BY <5>1, <6>1 DEF PrecedesIn
        <5>2. CASE g # e
          <6>1. g \in Fired \ Waiting
            BY <5>2, <4>2
          <6>2. \A f \in Waiting : PrecedesIn(within, g, f)
            BY <6>1, <4>1, WaitingFacts DEF Order
          <6>3. \A l \in audience[g] \cap on : Contains(heard[l], g)
            BY <6>1, <4>1, <2>2, <3>3 DEF AllHeard
          <6> QED BY <6>2, <6>3, <3>2
        <5> QED BY <5>1, <5>2
      <4>3. \A g \in 1 .. MaxEmitted : g \in Waiting \ {e} \/ g = e \/ g > emitted =>
              audience[g] = {} /\ \A l \in Listener : ~Contains(heard[l], g)
        BY <4>1, <3>2 DEF Later
      <4> QED BY <4>1, <4>2, <4>3, <3>2, <2>3 DEF Ready, HeardSo, Fired, e
    <3>4. /\ emitted' \in 0 .. MaxEmitted
          /\ within' \in [1 .. MaxEmitted -> SUBSET (1 .. MaxEmitted)]
          /\ \A g \in 1 .. emitted' : within'[g] \subseteq 1 .. (g - 1)
          /\ audience \in [1 .. MaxEmitted -> SUBSET (on \cup off)]
          /\ heard \in [Listener -> Seq(1 .. MaxEmitted)]
          /\ emptied \in BOOLEAN /\ disposed \in BOOLEAN
      BY <3>2, <1>0 DEF EventsOK, Fired
    <3>5. /\ below \in Seq(Frame) /\ FramesOK(below, emitted', within')
          /\ e \in 1 .. emitted' /\ e \notin WaitingOf(below)
      BY <2>3, <3>2 DEF e
    <3>6. rest.value <= emitted'
      BY <2>1, <3>2, <1>0 DEF QueueOK
    <3> QED BY <1>0, <1>1, <2>1, <3>1, <3>3, <3>4, <3>5, <3>6, EnqueueKeeps
  <2> QED BY <2>4, <2>5
<1> QED BY <1>3, <1>4

\* A list has as many entries as listeners.
LEMMA ListSize ==
  ASSUME NEW list, NEW ls, IsListOf(list, ls), IsFiniteSet(ls)
  PROVE  Cardinality({k \in DOMAIN list : list[k] # Hole}) = Cardinality(ls)
<1> DEFINE K == {k \in DOMAIN list : list[k] # Hole}
<1> DEFINE place(l) == CHOOSE k \in DOMAIN list : list[k] = <<l>>
<1> DEFINE f == [l \in ls |-> place(l)]
<1>1. list \in Seq(Entry) /\ OnceEach(list)
      /\ ls = {m \in Listener : \E p \in DOMAIN list : list[p] = <<m>>}
  BY DEF IsListOf
<1>2. ASSUME NEW l \in ls
      PROVE  l \in Listener /\ f[l] \in K /\ list[f[l]] = <<l>>
  <2>1. l \in Listener /\ \E p \in DOMAIN list : list[p] = <<l>>
    BY <1>1
  <2>2. place(l) \in DOMAIN list /\ list[place(l)] = <<l>>
    BY <2>1
  <2>3. <<l>> # Hole
    BY <2>1, EntryFacts
  <2> QED BY <2>1, <2>2, <2>3
<1> HIDE DEF f
<1>3. \A l, m \in ls : f[l] = f[m] => l = m
  BY <1>2, EntryFacts
<1>4. ASSUME NEW k \in K
      PROVE  \E l \in ls : f[l] = k
  <2>1. k \in DOMAIN list /\ list[k] # Hole /\ list[k] \in Entry
    BY <1>1
  <2>2. PICK l \in Listener : list[k] = <<l>>
    BY <2>1, EntryFacts
  <2>3. l \in ls
    BY <1>1, <2>1, <2>2
  <2>4. list[f[l]] = list[k] /\ f[l] \in DOMAIN list
    BY <1>2, <2>2, <2>3
  <2>5. f[l] = k
    BY <1>1, <2>1, <2>4 DEF OnceEach
  <2> QED BY <2>3, <2>5
<1>5. f \in Bijection(ls, K)
  <2>1. f \in [ls -> K]
    BY <1>2 DEF f
  <2> HIDE DEF K
  <2>2. f \in Injection(ls, K)
    BY <2>1, <1>3 DEF Injection, IsInjective
  <2>3. f \in Surjection(ls, K)
    BY <2>1, <1>4 DEF Surjection
  <2> QED BY <2>2, <2>3 DEF Bijection
<1> HIDE DEF K
<1>6. Cardinality(K) = Cardinality(ls)
  BY <1>5, FS_Bijection DEF ExistsBijection
<1> QED BY <1>6 DEF K

\* The types follow from the invariant: a list has as many entries as listeners.
LEMMA EmitterInvType ==
  ASSUME EmitterInv
  PROVE  EmitterTypeOK
<1>1. Subscribed /\ QueueOK /\ EventsOK /\ StackOK
  BY DEF EmitterInv
<1>2. listeners \in Listeners /\ listeners.kind \in {"undefined", "single", "list"}
  BY <1>1 DEF Subscribed, Listeners, Undefined
<1>3. size = (CASE listeners.kind = "undefined" -> 0
                [] listeners.kind = "single" -> 1
                [] OTHER -> Cardinality({k \in DOMAIN listeners.list : listeners.list[k] # Hole}))
  <2>1. CASE listeners.kind = "undefined"
    BY <2>1, <1>1, FS_EmptySet DEF Subscribed
  <2>2. CASE listeners.kind = "single"
    BY <2>2, <1>1, FS_Singleton DEF Subscribed
  <2>3. CASE listeners.kind = "list"
    <3>1. size = Cardinality({k \in DOMAIN listeners.list : listeners.list[k] # Hole})
      BY <2>3, <1>1, ListSize DEF Subscribed
    <3> QED BY <2>3, <3>1
  <2> QED BY <1>2, <2>1, <2>2, <2>3
<1>4. audience \in [1 .. MaxEmitted -> SUBSET Listener] /\ on \subseteq Listener /\ off \subseteq Listener
  <2>1. on \cup off \subseteq Listener /\ audience \in [1 .. MaxEmitted -> SUBSET (on \cup off)]
    BY <1>1 DEF Subscribed, EventsOK
  <2> QED BY <2>1
<1>5. stack \in Seq([captured : Listeners, live : BOOLEAN, calls : Entry, next : 0 .. MaxEmitted])
  BY <1>1 DEF StackOK, Frame
<1> QED BY <1>1, <1>2, <1>3, <1>4, <1>5 DEF EmitterTypeOK, QueueOK, EventsOK

\* The events are heard in the order that the invariant has for them.
LEMMA EmitterInvOrder ==
  ASSUME EmitterInv
  PROVE  HeardInOrder
<1>1. SUFFICES ASSUME ~emptied PROVE HeardInOrder
  BY DEF HeardInOrder
<1>2. EventsOK /\ QueueOK /\ Subscribed /\ Order /\ Current /\ Later /\ HeardSo /\ AllHeard
  BY <1>1 DEF EmitterInv, DeliveryOK
<1>3. \A l \in Listener :
        /\ \A j, k \in DOMAIN heard[l] : j < k => Precedes(heard[l][j], heard[l][k])
        /\ \A j \in DOMAIN heard[l] : l \in audience[heard[l][j]]
  BY <1>2, WaitingFacts DEF HeardSo, HeardWell
<1>4. \A e \in 1 .. emitted : \A l \in audience[e] \cap on :
        \/ Contains(heard[l], e)
        \/ dq.current /\ dq.value = e
        \/ e \in Waiting
  BY <1>2 DEF AllHeard, Fired
<1>5. ASSUME NEW l \in on, NEW j \in DOMAIN heard[l], NEW e \in 1 .. emitted,
             Precedes(e, heard[l][j]), l \in audience[e]
      PROVE  Contains(heard[l], e)
  <2> DEFINE f == heard[l][j]
  <2>1. l \in Listener /\ heard \in [Listener -> Seq(1 .. MaxEmitted)]
    BY <1>2 DEF Subscribed, EventsOK
  <2>2. Contains(heard[l], f)
    BY <2>1, ContainsFacts
  <2>3. f \in Fired \ Waiting
    BY <2>1, <2>2, <1>2, HeardFired
  <2>4. e \in Fired /\ ~Precedes(f, e)
    <3>1. emitted \in Nat /\ \A g \in 1 .. emitted : within[g] \subseteq 1 .. (g - 1)
      BY <1>2, FiredFacts DEF EventsOK, Fired
    <3>2. e \in 1 .. emitted /\ f \in 1 .. emitted /\ PrecedesIn(within, e, f)
      BY <2>3, <1>5, WaitingFacts DEF Fired
    <3> HIDE DEF f
    <3>3. ~PrecedesIn(within, f, e)
      BY <3>1, <3>2, PrecedesFacts
    <3> QED BY <3>2, <3>3, WaitingFacts DEF Fired
  <2>5. e \notin Waiting
    BY <2>3, <2>4, <1>2 DEF Order
  <2>6. dq.current /\ dq.value = e => f = e
    BY <2>3, <2>4, <1>2 DEF Order
  <2> HIDE DEF f
  <2>7. CASE f = e
    BY <2>2, <2>7
  <2>8. CASE f # e
    BY <2>5, <2>6, <2>8, <1>4, <1>5
  <2> QED BY <2>7, <2>8
<1> QED BY <1>3, <1>4, <1>5 DEF HeardInOrder

\* Every step of an emitter keeps the invariant.
THEOREM EmitterInvariant == EmitterSpec => []EmitterInv
<1>1. EmitterInit => EmitterInv
  BY EmitterInitInv
<1>2. EmitterInv /\ [EmitterNext]_emitterVars => EmitterInv'
  <2> SUFFICES ASSUME EmitterInv, [EmitterNext]_emitterVars PROVE EmitterInv'
    OBVIOUS
  <2>1. CASE \E l \in Listener : Add(l) \/ RemoveListener(l)
    BY <2>1, AddKeeps, RemoveKeeps
  <2>2. CASE DisposeEmitter
    BY <2>2, DisposeKeeps
  <2>3. CASE FireEvent
    BY <2>3, FireKeeps
  <2>4. CASE Deliver
    BY <2>4, DeliverKeeps
  <2>5. CASE Return
    BY <2>5, ReturnKeeps
  <2>6. CASE UNCHANGED emitterVars
    <3>1. Subscribed' = Subscribed /\ QueueOK' = QueueOK /\ EventsOK' = EventsOK /\ StackOK' = StackOK
      BY <2>6 DEF emitterVars, Subscribed, QueueOK, EventsOK, StackOK, Fired
    <3>2. Waiting' = Waiting /\ Top' = Top /\ Fired' = Fired
      BY <2>6 DEF emitterVars, Waiting, Top, Fired
    <3>3. Order' = Order /\ Current' = Current /\ Later' = Later /\ HeardSo' = HeardSo /\ AllHeard' = AllHeard
      BY <2>6, <3>2 DEF emitterVars, Order, Current, Later, HeardSo, AllHeard, Precedes
    <3> QED BY <2>6, <3>1, <3>3 DEF emitterVars, EmitterInv, DeliveryOK
  <2> QED BY <2>1, <2>2, <2>3, <2>4, <2>5, <2>6 DEF EmitterNext
<1> QED BY <1>1, <1>2, PTL DEF EmitterSpec

\* _listeners, _size, the delivery queue and the deliveries under way have their types, and
\* _size counts the listeners, whatever listeners do while an event is delivered.
THEOREM EmitterTypesCorrect == EmitterSpec => []EmitterTypeOK
BY EmitterInvariant, EmitterInvType, PTL

\* A listener hears what was fired while it listened, once each and in the order in which
\* fire() enqueued it, and none is left out, unless all listeners went during a delivery.
THEOREM HeardInOrderCorrect == EmitterSpec => []HeardInOrder
BY EmitterInvariant, EmitterInvOrder, PTL
=============================================================================
