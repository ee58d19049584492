------------------------------ MODULE Storage ------------------------------
(***************************************************************************)
(* Class Storage of base/parts/storage/common/storage.ts: a cache over a   *)
(* database that is updated later.  Changes are collected and given to the *)
(* database by flushPending, which runs behind a ThrottledDelayer: a timer *)
(* that every change arms again, and a throttler that lets one update run  *)
(* at a time and remembers at most one more run.  The database is          *)
(* SQLiteStorageDatabase of base/parts/storage/node/storage.ts.            *)
(*                                                                         *)
(* A callback of the event loop is one step; so is a timer with the        *)
(* continuations of the promise it resolves, since nothing else runs       *)
(* between them.  The hint STORAGE_IN_MEMORY (no timer, nothing to keep)   *)
(* and dispose() are not modelled.                                         *)
(***************************************************************************)
EXTENDS Integers, StorageItems

CONSTANTS
  DoesNotExist,     \* TRUE: created with the hint STORAGE_DOES_NOT_EXIST
  MaxWrites,        \* bound: calls of set and delete that change something
  MaxFailures       \* bound: errors of the database

ASSUME ConstantsAssumption ==
  /\ DoesNotExist \in BOOLEAN
  /\ MaxWrites \in Nat
  /\ MaxFailures \in Nat

VARIABLES
  state,            \* StorageState
  cache,            \* cache
  pending,          \* pendingInserts and pendingDeletes
  loading,          \* getItems of init: "no", "running", "done", "failed"
  timer,            \* flushDelayer: its timer is armed
  updating,         \* the request of the running updateItems, or NoUpdate
  queued,           \* flushDelayer: its throttler has a queued run
  closing,          \* pendingClose: "no", "flushing", "closed", "failed"
  waiters,          \* whenFlushedCallbacks: for each, the keys that were
                    \* not written since it was registered
  db,               \* the items in the database
  isErroneous,      \* the connection's flag
  settled,          \* history: how a promise of whenFlushed that was made
                    \* after the last write of the key was resolved
  lost,             \* history: keys whose last write the database refused
  writes, failures  \* bounds

storageVars == <<state, cache, pending, loading, closing, waiters>>
flushVars == <<timer, updating, queued>>
databaseVars == <<db, isErroneous, lost, failures>>
vars == <<state, cache, pending, loading, timer, updating, queued, closing,
          waiters, db, isErroneous, settled, lost, writes, failures>>

HasPending == Touched(pending) # {}

Init ==
  /\ state = "None"
  /\ cache = NoItems
  /\ pending = NoUpdate
  /\ loading = "no"
  /\ timer = FALSE
  /\ updating = NoUpdate
  /\ queued = FALSE
  /\ closing = "no"
  /\ waiters = {}
  /\ db \in IF DoesNotExist THEN {NoItems} ELSE Items
  /\ isErroneous = FALSE
  /\ settled = [k \in Key |-> "no"]
  /\ lost = {}
  /\ writes = 0
  /\ failures = 0

(***************************************************************************)
(* init()                                                                  *)
(***************************************************************************)
InitStorage ==
  /\ state = "None"
  /\ state' = "Initialized"
  /\ loading' = IF DoesNotExist THEN "done" ELSE "running"
  /\ UNCHANGED <<cache, pending, flushVars, closing, waiters, databaseVars,
                 settled, writes>>

\* getItems answers: the cache is replaced.
Loaded ==
  /\ loading = "running"
  /\ loading' = "done"
  /\ cache' = db
  /\ UNCHANGED <<state, pending, flushVars, closing, waiters, databaseVars,
                 settled, writes>>

LoadFails ==
  /\ loading = "running"
  /\ failures < MaxFailures
  /\ failures' = failures + 1
  /\ loading' = "failed"
  /\ isErroneous' = TRUE
  /\ UNCHANGED <<state, cache, pending, flushVars, closing, waiters, db, lost,
                 settled, writes>>

(***************************************************************************)
(* set, delete, flush, whenFlushed                                         *)
(***************************************************************************)

\* Callers wait for init before they write, as IStorageMain.whenInit asks.
CanWrite ==
  /\ state # "Closed"
  /\ loading \in {"done", "failed"}
  /\ writes < MaxWrites

\* What a write of key k does besides changing the items.
NoteWrite(k) ==
  /\ timer' = TRUE
  /\ settled' = [settled EXCEPT ![k] = "no"]
  /\ waiters' = {w \ {k} : w \in waiters}
  /\ writes' = writes + 1
  /\ UNCHANGED <<state, loading, closing, updating, queued, databaseVars>>

SetItem(k, v) ==
  /\ CanWrite
  /\ cache[k] # v
  /\ cache' = [cache EXCEPT ![k] = v]
  /\ pending' = PendingInsert(pending, k, v)
  /\ NoteWrite(k)

DeleteItem(k) ==
  /\ CanWrite
  /\ cache[k] # NoValue
  /\ cache' = [cache EXCEPT ![k] = NoValue]
  /\ pending' = PendingDelete(pending, k)
  /\ NoteWrite(k)

\* flush(delay), also as the first half of optimize().
Flush ==
  /\ state # "Closed"
  /\ timer' = TRUE
  /\ UNCHANGED <<storageVars, updating, queued, databaseVars, settled, writes>>

\* whenFlushed() returns at once if nothing is pending.
WhenFlushed ==
  /\ \/ /\ HasPending
        /\ waiters' = waiters \cup {Key}
        /\ UNCHANGED settled
     \/ /\ ~HasPending
        /\ settled' = [k \in Key |-> IF settled[k] = "no" THEN "at once"
                                     ELSE settled[k]]
        /\ UNCHANGED waiters
  /\ UNCHANGED <<state, cache, pending, loading, closing, flushVars,
                 databaseVars, writes>>

(***************************************************************************)
(* flushPending behind the ThrottledDelayer                                *)
(***************************************************************************)

FlushPending ==
  /\ updating' = pending
  /\ pending' = NoUpdate

\* Mutant of TimerFires: a run that comes during another one is dropped.
TimerFiresUnqueued ==
  /\ timer
  /\ timer' = FALSE
  /\ \/ /\ updating # NoUpdate
        /\ UNCHANGED <<updating, pending>>
     \/ /\ updating = NoUpdate
        /\ FlushPending
  /\ UNCHANGED <<queued, state, cache, loading, closing, waiters, databaseVars,
                 settled, writes>>

\* The delayer's timer hands flushPending to the throttler, which runs it
\* now or, once, after the update that is running.
TimerFires ==
  /\ timer
  /\ timer' = FALSE
  /\ \/ /\ updating # NoUpdate
        /\ queued' = TRUE
        /\ UNCHANGED <<updating, pending>>
     \/ /\ updating = NoUpdate
        /\ FlushPending
        /\ UNCHANGED queued
  /\ UNCHANGED <<state, cache, loading, closing, waiters, databaseVars,
                 settled, writes>>

\* Mutant of ReleaseWaiters: they are released whatever is pending.
ReleaseAllWaiters ==
  /\ waiters' = {}
  /\ settled' = [k \in Key |-> IF k \in UNION waiters THEN "waited" ELSE settled[k]]

\* Mutant of ReleaseWaiters: only if an update was queued, which asks again.
ReleaseWaitersUnlessQueued ==
  \/ /\ ~HasPending /\ ~queued
     /\ waiters' = {}
     /\ settled' = [k \in Key |-> IF k \in UNION waiters THEN "waited" ELSE settled[k]]
  \/ /\ HasPending \/ queued
     /\ UNCHANGED <<waiters, settled>>

\* The finally clause of flushPending.
ReleaseWaiters ==
  \/ /\ ~HasPending
     /\ waiters' = {}
     /\ settled' = [k \in Key |-> IF k \in UNION waiters THEN "waited" ELSE settled[k]]
  \/ /\ HasPending
     /\ UNCHANGED <<waiters, settled>>

\* updateItems is settled, one way or the other; a queued run starts.
EndUpdate ==
  /\ updating # NoUpdate
  /\ ReleaseWaiters
  /\ \/ /\ queued
        /\ FlushPending
     \/ /\ ~queued
        /\ updating' = NoUpdate
        /\ UNCHANGED pending
  /\ queued' = FALSE
  /\ UNCHANGED <<state, cache, loading, closing, timer, writes>>

UpdateSucceeds ==
  /\ EndUpdate
  /\ db' = Apply(updating, db)
  /\ lost' = lost \ Touched(updating)
  /\ UNCHANGED <<isErroneous, failures>>

\* A statement of the transaction fails, or all of it: any keys are refused.
UpdateFails ==
  /\ EndUpdate
  /\ failures < MaxFailures
  /\ failures' = failures + 1
  /\ isErroneous' = TRUE
  /\ \E refused \in SUBSET Touched(updating) \ {{}} :
       /\ db' = [k \in Key |-> IF k \in refused THEN db[k]
                               ELSE Apply(updating, db)[k]]
       /\ lost' = (lost \ Touched(updating)) \cup refused

(***************************************************************************)
(* close()                                                                 *)
(***************************************************************************)

Close ==
  /\ closing = "no"
  /\ closing' = "flushing"
  /\ state' = "Closed"
  /\ timer' = TRUE
  /\ UNCHANGED <<cache, pending, loading, waiters, updating, queued,
                 databaseVars, settled, writes>>

\* The flush that close() triggered is settled.  Nothing is triggered after
\* it, so this is when the delayer and the throttler are idle.  SQLite closes
\* a connection after the statements that are under way.
FlushedForClose ==
  /\ closing = "flushing"
  /\ ~timer
  /\ ~queued
  /\ updating = NoUpdate
  /\ loading # "running"

\* Mutant of CloseDatabase: an erroneous database is left as it is.
CloseDatabaseUnrecovered ==
  /\ FlushedForClose
  /\ closing' = "closed"
  /\ UNCHANGED <<db, lost>>
  /\ UNCHANGED <<state, cache, pending, loading, waiters, flushVars,
                 isErroneous, failures, settled, writes>>

\* database.close(): a healthy database is closed; one that had an error is
\* made anew from the cache.
CloseDatabase ==
  /\ FlushedForClose
  /\ closing' = "closed"
  /\ \/ /\ ~isErroneous
        /\ UNCHANGED <<db, lost>>
     \/ /\ isErroneous
        /\ db' = cache
        /\ lost' = {}
  /\ UNCHANGED <<state, cache, pending, loading, waiters, flushVars,
                 isErroneous, failures, settled, writes>>

\* The recovery fails before the old file was deleted, or after.
RecoveryFails ==
  /\ FlushedForClose
  /\ isErroneous
  /\ failures < MaxFailures
  /\ failures' = failures + 1
  /\ closing' = "failed"
  /\ \/ UNCHANGED <<db, lost>>
     \/ /\ db' = NoItems
        /\ lost' = Key
  /\ UNCHANGED <<state, cache, pending, loading, waiters, flushVars,
                 isErroneous, settled, writes>>

-----------------------------------------------------------------------------
Next ==
  \/ InitStorage
  \/ Loaded
  \/ LoadFails
  \/ \E k \in Key, v \in Value : SetItem(k, v)
  \/ \E k \in Key : DeleteItem(k)
  \/ Flush
  \/ WhenFlushed
  \/ TimerFires
  \/ UpdateSucceeds
  \/ UpdateFails
  \/ Close
  \/ CloseDatabase
  \/ RecoveryFails

Spec == Init /\ [][Next]_vars

\* Timers fire and the database answers; callers owe nothing.
Fairness ==
  /\ WF_vars(TimerFires)
  /\ WF_vars(UpdateSucceeds \/ UpdateFails)
  /\ WF_vars(Loaded \/ LoadFails)
  /\ WF_vars(CloseDatabase \/ RecoveryFails)

FairSpec == Spec /\ Fairness

-----------------------------------------------------------------------------
(***************************************************************************)
(* Correctness.                                                            *)
(***************************************************************************)
TypeOK ==
  /\ state \in {"None", "Initialized", "Closed"}
  /\ cache \in Items
  /\ pending \in Request
  /\ loading \in {"no", "running", "done", "failed"}
  /\ timer \in BOOLEAN
  /\ updating \in Request
  /\ queued \in BOOLEAN
  /\ closing \in {"no", "flushing", "closed", "failed"}
  /\ waiters \in SUBSET SUBSET Key
  /\ db \in Items
  /\ isErroneous \in BOOLEAN
  /\ settled \in [Key -> {"no", "waited", "at once"}]
  /\ lost \in SUBSET Key
  /\ writes \in Nat
  /\ failures \in Nat

\* Nothing falls between the cache, what is pending, the update that runs
\* and the database: when all of it is written, the database holds what the
\* cache holds, but for keys whose update the database itself refused.
NothingDropped ==
  loading = "done" =>
    \A k \in Key \ lost : Apply(pending, Apply(updating, db))[k] = cache[k]

\* Every change that is pending has a flush coming: the timer is armed, or
\* the throttler will run flushPending once more.
FlushComing == HasPending => timer \/ queued

\* Somebody who waits for a flush waits for one that is running or due.
WaitersHaveReason == waiters # {} => HasPending \/ updating # NoUpdate

\* When a caller of whenFlushed was made to wait, what it wrote before is in
\* the database when its promise resolves and as long as it is not written
\* again, unless the database refused it.
WaitedMeansStored ==
  loading = "done" =>
    \A k \in Key \ lost : settled[k] = "waited" => db[k] = cache[k]

\* Once close() has resolved, the database holds what the cache holds, even
\* if it had refused updates before.
ClosedMeansStored ==
  closing = "closed" /\ (loading = "done" \/ isErroneous) => db = cache

\* Whatever a storage that is open holds is in the database in the end, or
\* was refused by it.
EventuallyStored ==
  \A k \in Key :
    (loading = "done" /\ db[k] # cache[k]) ~> (db[k] = cache[k] \/ k \in lost)

\* Whoever waits for a flush is told of it.
WaitersAreServed == (waiters # {}) ~> (waiters = {})

\* What the documentation of IStorageService.flush promises: when the
\* promise resolves, all updates have been flushed.
FlushedMeansStored ==
  loading = "done" =>
    \A k \in Key \ lost : settled[k] # "no" => db[k] = cache[k]
=============================================================================
