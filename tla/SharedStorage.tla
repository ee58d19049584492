---------------------------- MODULE SharedStorage ----------------------------
(***************************************************************************)
(* The application storage as the windows share it.  Each window has a     *)
(* class Storage whose database is ApplicationStorageDatabaseClient: its   *)
(* requests go over IPC to the storage of the main process, and the main   *)
(* process tells every window, debounced, which items changed              *)
(* (platform/storage/common/storageIpc.ts, electron-main/storageIpc.ts).   *)
(*                                                                         *)
(* Module Storage shows of the delayer what is used of it here: changes    *)
(* that are pending are sent some time later, one request at a time.  It   *)
(* also has the way from the main process to the database.  An IPC channel *)
(* delivers in order.                                                      *)
(***************************************************************************)
EXTENDS Integers, Sequences, StorageItems

CONSTANTS
  Window,
  MaxWrites,        \* bound: writes of the windows that change something
  MaxMainWrites,    \* bound: the same, of the main process
  MaxOpens          \* bound: windows opened or reloaded

ASSUME ConstantsAssumption ==
  MaxWrites \in Nat /\ MaxMainWrites \in Nat /\ MaxOpens \in Nat

VARIABLES
  items,            \* main process: the items of its storage
  changed,          \* main process: keys of the debounced change events
  status,           \* window: how far its storage is
  cache,            \* window: cache
  pending,          \* window: pendingInserts and pendingDeletes
  updating,         \* window: an updateItems has not been answered
  toMain,           \* window: the request on its way, or NoUpdate
  toWindow,         \* window: messages on their way to it
  last,             \* history: what was stored last under a key, by anyone
  writes, mainWrites, opens     \* bounds

mainVars == <<items, changed>>
windowVars == <<status, cache, pending, updating>>
channelVars == <<toMain, toWindow>>
bounds == <<writes, mainWrites, opens>>
vars == <<items, changed, status, cache, pending, updating, toMain, toWindow,
          last, writes, mainWrites, opens>>

\* A change event names some keys, the answer to getItems all of them, and
\* the answer to updateItems none.
Message == [type : {"event", "items", "updated"}, keys : SUBSET Key, items : Items]
Event(ks) == [type |-> "event", keys |-> ks, items |-> items]
Snapshot == [type |-> "items", keys |-> Key, items |-> items]
Updated == [type |-> "updated", keys |-> {}, items |-> items]

Subscribed(w) == status[w] \in {"listening", "loading", "open"}

Init ==
  /\ items \in Items
  /\ changed = {}
  /\ status = [w \in Window |-> "closed"]
  /\ cache = [w \in Window |-> NoItems]
  /\ pending = [w \in Window |-> NoUpdate]
  /\ updating = [w \in Window |-> FALSE]
  /\ toMain = [w \in Window |-> NoUpdate]
  /\ toWindow = [w \in Window |-> <<>>]
  /\ last = items
  /\ writes = 0
  /\ mainWrites = 0
  /\ opens = 0

(***************************************************************************)
(* A window opens: it listens to changes, then it asks for the items.      *)
(***************************************************************************)
Open(w) ==
  /\ status[w] = "closed"
  /\ opens < MaxOpens
  /\ opens' = opens + 1
  /\ status' = [status EXCEPT ![w] = "opening"]
  /\ UNCHANGED <<mainVars, cache, pending, updating, channelVars, last, writes,
                 mainWrites>>

\* The main process handles listen.
Listen(w) ==
  /\ status[w] = "opening"
  /\ status' = [status EXCEPT ![w] = "listening"]
  /\ UNCHANGED <<mainVars, cache, pending, updating, channelVars, last, bounds>>

\* The main process handles getItems.
GetItems(w) ==
  /\ status[w] = "listening"
  /\ status' = [status EXCEPT ![w] = "loading"]
  /\ toWindow' = [toWindow EXCEPT ![w] = Append(@, Snapshot)]
  /\ UNCHANGED <<mainVars, cache, pending, updating, toMain, last, bounds>>

\* A window is closed or reloaded, or crashes: what it had pending is gone.
Leave(w) ==
  /\ status[w] # "closed"
  /\ status' = [status EXCEPT ![w] = "closed"]
  /\ cache' = [cache EXCEPT ![w] = NoItems]
  /\ pending' = [pending EXCEPT ![w] = NoUpdate]
  /\ updating' = [updating EXCEPT ![w] = FALSE]
  /\ toMain' = [toMain EXCEPT ![w] = NoUpdate]
  /\ toWindow' = [toWindow EXCEPT ![w] = <<>>]
  /\ UNCHANGED <<mainVars, last, bounds>>

(***************************************************************************)
(* The storage of a window.                                                *)
(***************************************************************************)
NoteStore(k, v) ==
  /\ writes < MaxWrites
  /\ writes' = writes + 1
  /\ last' = [last EXCEPT ![k] = v]
  /\ UNCHANGED <<mainVars, status, updating, channelVars, mainWrites, opens>>

SetItem(w, k, v) ==
  /\ status[w] = "open"
  /\ \/ /\ cache[w][k] # v
        /\ cache' = [cache EXCEPT ![w][k] = v]
        /\ pending' = [pending EXCEPT ![w] = PendingInsert(@, k, v)]
     \/ /\ cache[w][k] = v
        /\ last[k] # v
        /\ UNCHANGED <<cache, pending>>
  /\ NoteStore(k, v)

DeleteItem(w, k) ==
  /\ status[w] = "open"
  /\ \/ /\ cache[w][k] # NoValue
        /\ cache' = [cache EXCEPT ![w][k] = NoValue]
        /\ pending' = [pending EXCEPT ![w] = PendingDelete(@, k)]
     \/ /\ cache[w][k] = NoValue
        /\ last[k] # NoValue
        /\ UNCHANGED <<cache, pending>>
  /\ NoteStore(k, NoValue)

\* flushPending, when the delayer runs it.
SendUpdate(w) ==
  /\ Touched(pending[w]) # {}
  /\ ~updating[w]
  /\ updating' = [updating EXCEPT ![w] = TRUE]
  /\ toMain' = [toMain EXCEPT ![w] = pending[w]]
  /\ pending' = [pending EXCEPT ![w] = NoUpdate]
  /\ UNCHANGED <<mainVars, status, cache, toWindow, last, bounds>>

\* acceptExternal for a change event; init replaces the whole cache.
Accept(w, m) ==
  [k \in Key |-> IF k \in m.keys THEN m.items[k] ELSE cache[w][k]]

\* A window handles the next message of the main process.
Receive(w) ==
  /\ toWindow[w] # <<>>
  /\ toWindow' = [toWindow EXCEPT ![w] = Tail(@)]
  /\ LET m == Head(toWindow[w]) IN
       /\ cache' = [cache EXCEPT ![w] = Accept(w, m)]
       /\ status' = [status EXCEPT ![w] = IF m.type = "items" THEN "open" ELSE @]
       /\ updating' = [updating EXCEPT ![w] = @ /\ m.type # "updated"]
  /\ UNCHANGED <<mainVars, pending, toMain, last, bounds>>

(***************************************************************************)
(* The main process.                                                       *)
(***************************************************************************)

\* The storage fires a change event for a key whose value changes.
ChangeItems(new) ==
  /\ items' = new
  /\ changed' = changed \cup {k \in Key : new[k] # items[k]}

\* Mutant of HandleUpdate: the changes are not remembered while events wait.
HandleUpdateForgetful(w) ==
  /\ toMain[w] # NoUpdate
  /\ items' = Apply(toMain[w], items)
  /\ changed' = {k \in Key : items'[k] # items[k]}
  /\ toMain' = [toMain EXCEPT ![w] = NoUpdate]
  /\ toWindow' = [toWindow EXCEPT ![w] = Append(@, Updated)]
  /\ UNCHANGED <<windowVars, last, bounds>>

\* updateItems of a window arrives.
HandleUpdate(w) ==
  /\ toMain[w] # NoUpdate
  /\ ChangeItems(Apply(toMain[w], items))
  /\ toMain' = [toMain EXCEPT ![w] = NoUpdate]
  /\ toWindow' = [toWindow EXCEPT ![w] = Append(@, Updated)]
  /\ UNCHANGED <<windowVars, last, bounds>>

\* The main process stores or removes an item itself.
MainStore(k, v) ==
  /\ mainWrites < MaxMainWrites
  /\ mainWrites' = mainWrites + 1
  /\ items[k] # v
  /\ ChangeItems([items EXCEPT ![k] = v])
  /\ last' = [last EXCEPT ![k] = v]
  /\ UNCHANGED <<windowVars, channelVars, writes, opens>>

\* Mutant of Debounced: windows that are still loading get no events.
DebouncedToOpen ==
  /\ changed # {}
  /\ changed' = {}
  /\ toWindow' = [w \in Window |-> IF status[w] = "open"
                                   THEN Append(toWindow[w], Event(changed))
                                   ELSE toWindow[w]]
  /\ UNCHANGED <<items, windowVars, toMain, last, bounds>>

\* The debounced event fires: the values are those of now.
Debounced ==
  /\ changed # {}
  /\ changed' = {}
  /\ toWindow' = [w \in Window |-> IF Subscribed(w)
                                   THEN Append(toWindow[w], Event(changed))
                                   ELSE toWindow[w]]
  /\ UNCHANGED <<items, windowVars, toMain, last, bounds>>

-----------------------------------------------------------------------------
WindowStep(w) ==
  \/ Open(w)
  \/ Leave(w)
  \/ \E k \in Key, v \in Value : SetItem(w, k, v)
  \/ \E k \in Key : DeleteItem(w, k)
  \/ SendUpdate(w)
  \/ Receive(w)

MainStep(w) ==
  \/ Listen(w)
  \/ GetItems(w)
  \/ HandleUpdate(w)

Next ==
  \/ \E w \in Window : WindowStep(w) \/ MainStep(w)
  \/ \E k \in Key, v \in Value \cup {NoValue} : MainStore(k, v)
  \/ Debounced

Spec == Init /\ [][Next]_vars

\* Timers fire and messages arrive.  Nobody has to write, open or leave.
Fairness ==
  /\ WF_vars(Debounced)
  /\ \A w \in Window :
       WF_vars(SendUpdate(w)) /\ WF_vars(Receive(w)) /\ WF_vars(MainStep(w))

FairSpec == Spec /\ Fairness

-----------------------------------------------------------------------------
(***************************************************************************)
(* Correctness.                                                            *)
(***************************************************************************)
Status == {"closed", "opening", "listening", "loading", "open"}

TypeOK ==
  /\ items \in Items
  /\ changed \in SUBSET Key
  /\ status \in [Window -> Status]
  /\ cache \in [Window -> Items]
  /\ pending \in [Window -> Request]
  /\ updating \in [Window -> BOOLEAN]
  /\ toMain \in [Window -> Request]
  /\ toWindow \in [Window -> Seq(Message)]
  /\ last \in Items
  /\ writes \in Nat /\ mainWrites \in Nat /\ opens \in Nat

\* Key k of window w has a change on its way, in one direction or the other.
OnItsWay(w, k) ==
  \/ k \in changed
  \/ k \in Touched(pending[w]) \cup Touched(toMain[w])
  \/ \E i \in 1..Len(toWindow[w]) : k \in toWindow[w][i].keys

\* When nothing is on its way, a window shows what the main process has,
\* whatever the windows wrote at the same time, and whenever they opened.
AgreeWhenQuiet ==
  \A w \in Window, k \in Key :
    status[w] = "open" /\ ~OnItsWay(w, k) => cache[w][k] = items[k]

\* A window has one request at a time at most: the answer to a request comes
\* after the request is done, and before the next is sent.
OneRequest ==
  \A w \in Window :
    LET answers == {i \in 1..Len(toWindow[w]) : toWindow[w][i].type = "updated"}
    IN /\ \A i, j \in answers : i = j
       /\ updating[w] <=> toMain[w] # NoUpdate \/ answers # {}
       /\ ~(toMain[w] # NoUpdate /\ answers # {})

\* Windows that disagree with the main process come to agree with it.
Converges ==
  \A w \in Window, k \in Key :
    (status[w] = "open" /\ cache[w][k] # items[k])
      ~> (status[w] = "closed" \/ cache[w][k] = items[k])

\* What IStorageService.store says: it stores the value under the key.  With
\* one window only, what it stored last is what the main process ends with.
LastStoreKept ==
  \A k \in Key :
    (\A w \in Window : status[w] = "open" /\ ~OnItsWay(w, k)) => items[k] = last[k]
=============================================================================
