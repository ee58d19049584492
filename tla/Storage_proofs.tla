--------------------------- MODULE Storage_proofs ---------------------------
(***************************************************************************)
(* Theorems about Storage, for every set of keys and values and without    *)
(* the bounds of the model-checked instances.                              *)
(***************************************************************************)
EXTENDS Storage, StorageItems_proofs, TLAPS

LEMMA Successor == ASSUME NEW n \in Nat PROVE n + 1 \in Nat
  OBVIOUS

(***************************************************************************)
(* The inductive invariant.                                                *)
(***************************************************************************)

\* Until it is loaded nothing was written; before init all is empty.
Unloaded ==
  /\ loading \in {"no", "running"} => pending = NoUpdate /\ updating = NoUpdate
  /\ state = "None" =>
       /\ loading = "no"
       /\ cache = NoItems
       /\ DoesNotExist => db = NoItems

\* NothingDropped, also for a refused key that is about to be written again.
Accounted ==
  loading = "done" =>
    \A k \in Key :
      k \notin lost \/ k \in Touched(updating) \/ k \in Touched(pending) =>
        Apply(pending, Apply(updating, db))[k] = cache[k]

\* A key whose writer was told that it is stored is not being written.
WaitedIsIdle ==
  \A k \in Key :
    settled[k] = "waited" => k \notin Touched(pending) /\ k \notin Touched(updating)

\* Nothing runs once the database is closed, and none runs after close().
ClosedIsIdle ==
  /\ closing = "no" <=> state # "Closed"
  /\ closing \in {"closed", "failed"} =>
       ~timer /\ ~queued /\ updating = NoUpdate /\ loading # "running"

RefusedIsErroneous == lost # {} => isErroneous

IInv ==
  /\ TypeOK
  /\ Unloaded
  /\ Accounted
  /\ FlushComing
  /\ WaitersHaveReason
  /\ WaitedIsIdle
  /\ ClosedIsIdle
  /\ RefusedIsErroneous
  /\ ClosedMeansStored

\* The invariant holds at first.
LEMMA InitInvariant == Init => IInv
<1> SUFFICES ASSUME Init PROVE IInv
  OBVIOUS
<1> NoItems \in Items /\ db \in Items
  BY DEF NoItems, Items, Init
<1>1. TypeOK
  BY NothingTouched DEF Init, TypeOK
<1> QED BY <1>1, NothingTouched
  DEF Init, IInv, Unloaded, Accounted, FlushComing, HasPending,
      WaitersHaveReason, WaitedIsIdle, ClosedIsIdle, RefusedIsErroneous,
      ClosedMeansStored

\* When a closed database is idle, nothing is pending, and all the keys it
\* did not refuse hold what the cache holds.
LEMMA IdleIsStored ==
  ASSUME IInv, ~timer, ~queued, updating = NoUpdate
  PROVE  /\ pending = NoUpdate
         /\ loading = "done" => \A k \in Key \ lost : db[k] = cache[k]
<1>1. pending = NoUpdate
  BY NothingTouched DEF IInv, FlushComing, HasPending, TypeOK
<1>2. Apply(pending, Apply(updating, db)) = db
  BY <1>1, ApplyNothing DEF IInv, TypeOK
<1> QED BY <1>1, <1>2 DEF IInv, Accounted

(***************************************************************************)
(* One lemma per kind of step.                                             *)
(***************************************************************************)

\* Steps that change neither what is to be stored nor what is stored.
LEMMA InitStorageInvariant == IInv /\ InitStorage => IInv'
<1> SUFFICES ASSUME IInv, InitStorage PROVE IInv'
  OBVIOUS
<1> USE DEF IInv, InitStorage, flushVars, databaseVars
<1>1. TypeOK'
  BY DEF TypeOK
<1>2. Accounted'
  <2>1. pending = NoUpdate /\ updating = NoUpdate /\ cache = NoItems
    BY DEF Unloaded
  <2>2. DoesNotExist => db = cache
    BY <2>1 DEF Unloaded
  <2>3. Apply(pending, Apply(updating, db)) = db
    BY <2>1, ApplyNothing DEF TypeOK
  <2> QED BY <2>2, <2>3 DEF Accounted
<1>3. (Unloaded /\ FlushComing /\ WaitersHaveReason /\ WaitedIsIdle)'
  BY DEF Unloaded, FlushComing, HasPending, WaitersHaveReason, WaitedIsIdle
<1>4. (ClosedIsIdle /\ RefusedIsErroneous /\ ClosedMeansStored)'
  BY DEF ClosedIsIdle, RefusedIsErroneous, ClosedMeansStored
<1> QED BY <1>1, <1>2, <1>3, <1>4

LEMMA LoadedInvariant == IInv /\ Loaded => IInv'
<1> SUFFICES ASSUME IInv, Loaded PROVE IInv'
  OBVIOUS
<1> USE DEF IInv, Loaded, flushVars, databaseVars
<1>1. TypeOK'
  BY DEF TypeOK
<1>2. Accounted'
  <2>1. Apply(pending, Apply(updating, db)) = db
    BY ApplyNothing DEF TypeOK, Unloaded
  <2> QED BY <2>1 DEF Accounted
<1>3. (Unloaded /\ FlushComing /\ WaitersHaveReason /\ WaitedIsIdle)'
  BY DEF Unloaded, FlushComing, HasPending, WaitersHaveReason, WaitedIsIdle
<1>4. (ClosedIsIdle /\ RefusedIsErroneous /\ ClosedMeansStored)'
  BY DEF ClosedIsIdle, RefusedIsErroneous, ClosedMeansStored
<1> QED BY <1>1, <1>2, <1>3, <1>4

LEMMA LoadFailsInvariant == IInv /\ LoadFails => IInv'
<1> SUFFICES ASSUME IInv, LoadFails PROVE IInv'
  OBVIOUS
<1> USE DEF IInv, LoadFails, flushVars
<1>1. TypeOK'
  <2>1. failures \in Nat
    BY DEF TypeOK
  <2>2. failures' \in Nat
    BY <2>1, Successor
  <2> QED BY <2>2 DEF TypeOK
<1>2. (Unloaded /\ Accounted /\ FlushComing /\ WaitersHaveReason /\ WaitedIsIdle)'
  BY DEF Unloaded, Accounted, FlushComing, HasPending, WaitersHaveReason,
         WaitedIsIdle
<1>3. (ClosedIsIdle /\ RefusedIsErroneous /\ ClosedMeansStored)'
  BY DEF ClosedIsIdle, RefusedIsErroneous, ClosedMeansStored
<1> QED BY <1>1, <1>2, <1>3

LEMMA FlushInvariant == IInv /\ Flush => IInv'
<1> SUFFICES ASSUME IInv, Flush PROVE IInv'
  OBVIOUS
<1> USE DEF IInv, Flush, storageVars, databaseVars
<1>1. TypeOK'
  BY DEF TypeOK
<1>2. (Unloaded /\ Accounted /\ FlushComing /\ WaitersHaveReason /\ WaitedIsIdle)'
  BY DEF Unloaded, Accounted, FlushComing, HasPending, WaitersHaveReason,
         WaitedIsIdle
<1>3. (ClosedIsIdle /\ RefusedIsErroneous /\ ClosedMeansStored)'
  BY DEF ClosedIsIdle, RefusedIsErroneous, ClosedMeansStored
<1> QED BY <1>1, <1>2, <1>3

LEMMA CloseInvariant == IInv /\ Close => IInv'
<1> SUFFICES ASSUME IInv, Close PROVE IInv'
  OBVIOUS
<1> USE DEF IInv, Close, databaseVars
<1>1. TypeOK'
  BY DEF TypeOK
<1>2. (Unloaded /\ Accounted /\ FlushComing /\ WaitersHaveReason /\ WaitedIsIdle)'
  BY DEF Unloaded, Accounted, FlushComing, HasPending, WaitersHaveReason,
         WaitedIsIdle
<1>3. (ClosedIsIdle /\ RefusedIsErroneous /\ ClosedMeansStored)'
  BY DEF ClosedIsIdle, RefusedIsErroneous, ClosedMeansStored
<1> QED BY <1>1, <1>2, <1>3

\* A new waiter waits for what is pending.
LEMMA WhenFlushedInvariant == IInv /\ WhenFlushed => IInv'
<1> SUFFICES ASSUME IInv, WhenFlushed PROVE IInv'
  OBVIOUS
<1> USE DEF IInv, WhenFlushed, flushVars, databaseVars
<1>1. TypeOK'
  BY DEF TypeOK
<1>2. (Unloaded /\ Accounted /\ FlushComing)'
  BY DEF Unloaded, Accounted, FlushComing, HasPending
<1>3. WaitersHaveReason'
  BY DEF WaitersHaveReason, HasPending
<1>4. WaitedIsIdle'
  BY DEF WaitedIsIdle, TypeOK
<1>5. (ClosedIsIdle /\ RefusedIsErroneous /\ ClosedMeansStored)'
  BY DEF ClosedIsIdle, RefusedIsErroneous, ClosedMeansStored
<1> QED BY <1>1, <1>2, <1>3, <1>4, <1>5

\* A write: the request r notes value v under key k.
LEMMA WriteInvariant ==
  ASSUME IInv, CanWrite, NEW k \in Key, NEW v \in Value \cup {NoValue},
         NEW r \in Request,
         Touched(r) = Touched(pending) \cup {k},
         \A items \in Items :
           Apply(r, items) = [Apply(pending, items) EXCEPT ![k] = v],
         cache' = [cache EXCEPT ![k] = v],
         pending' = r,
         NoteWrite(k)
  PROVE  IInv'
<1> USE DEF IInv, NoteWrite, databaseVars
<1>1. TypeOK'
  <2>1. writes' \in Nat
    <3>1. writes \in Nat
      BY DEF TypeOK
    <3> QED BY <3>1, Successor
  <2>2. cache' \in Items
    BY DEF TypeOK, Items
  <2>3. waiters' \in SUBSET SUBSET Key
    <3>1. \A w \in waiters : w \ {k} \in SUBSET Key
      BY DEF TypeOK
    <3> QED BY <3>1
  <2>4. settled' \in [Key -> {"no", "waited", "at once"}]
    BY DEF TypeOK
  <2> QED BY <2>1, <2>2, <2>3, <2>4 DEF TypeOK
<1>2. Unloaded' /\ state # "Closed"
  BY DEF Unloaded, CanWrite
<1>3. Accounted'
  <2> SUFFICES ASSUME loading = "done", NEW j \in Key,
                      j \notin lost \/ j \in Touched(updating) \/ j \in Touched(r)
               PROVE  Apply(r, Apply(updating, db))[j] = cache'[j]
    BY DEF Accounted
  <2>1. Apply(updating, db) \in Items
    BY ApplyType DEF TypeOK
  <2>2. Apply(pending, Apply(updating, db)) \in Items
    BY <2>1, ApplyType DEF TypeOK
  <2>3. Apply(r, Apply(updating, db)) =
          [Apply(pending, Apply(updating, db)) EXCEPT ![k] = v]
    BY <2>1
  <2>4. CASE j = k
    BY <2>2, <2>3, <2>4 DEF Items, TypeOK
  <2>5. CASE j # k
    <3>1. Apply(pending, Apply(updating, db))[j] = cache[j]
      BY <2>5 DEF Accounted
    <3> QED BY <2>2, <2>3, <2>5, <3>1 DEF Items, TypeOK
  <2> QED BY <2>4, <2>5
<1>4. (FlushComing /\ WaitersHaveReason)'
  BY DEF FlushComing, WaitersHaveReason, HasPending
<1>5. WaitedIsIdle'
  BY DEF WaitedIsIdle, TypeOK
<1>6. (ClosedIsIdle /\ RefusedIsErroneous /\ ClosedMeansStored)'
  BY <1>2 DEF ClosedIsIdle, RefusedIsErroneous, ClosedMeansStored
<1> QED BY <1>1, <1>2, <1>3, <1>4, <1>5, <1>6

LEMMA SetItemInvariant ==
  ASSUME IInv, NEW k \in Key, NEW v \in Value, SetItem(k, v)
  PROVE  IInv'
<1>1. pending \in Request
  BY DEF IInv, TypeOK
<1>2. PendingInsert(pending, k, v) \in Request
  BY <1>1, InsertNoted
<1>3. Touched(PendingInsert(pending, k, v)) = Touched(pending) \cup {k}
  BY <1>1, InsertNoted
<1>4. \A items \in Items : Apply(PendingInsert(pending, k, v), items) =
        [Apply(pending, items) EXCEPT ![k] = v]
  BY <1>1, InsertNoted
<1> QED BY <1>2, <1>3, <1>4, WriteInvariant DEF SetItem

LEMMA DeleteItemInvariant ==
  ASSUME IInv, NEW k \in Key, DeleteItem(k)
  PROVE  IInv'
<1>1. pending \in Request
  BY DEF IInv, TypeOK
<1>2. PendingDelete(pending, k) \in Request
  BY <1>1, DeleteNoted
<1>3. Touched(PendingDelete(pending, k)) = Touched(pending) \cup {k}
  BY <1>1, DeleteNoted
<1>4. \A items \in Items : Apply(PendingDelete(pending, k), items) =
        [Apply(pending, items) EXCEPT ![k] = NoValue]
  BY <1>1, DeleteNoted
<1> QED BY <1>2, <1>3, <1>4, WriteInvariant DEF DeleteItem

\* The timer moves what is pending to the update, or queues a run.
LEMMA TimerFiresInvariant == IInv /\ TimerFires => IInv'
<1> SUFFICES ASSUME IInv, TimerFires PROVE IInv'
  OBVIOUS
<1> USE DEF IInv, TimerFires, FlushPending, databaseVars
<1>1. TypeOK'
  BY NothingTouched DEF TypeOK
<1>2. Unloaded'
  BY DEF Unloaded
<1>3. Accounted'
  <2>1. CASE updating # NoUpdate
    BY <2>1 DEF Accounted
  <2>2. CASE updating = NoUpdate
    <3>1. Apply(updating, db) = db
      BY <2>2, ApplyNothing DEF TypeOK
    <3>2. Apply(pending, db) \in Items
      BY ApplyType DEF TypeOK
    <3>3. Apply(NoUpdate, Apply(pending, db)) = Apply(pending, db)
      BY <3>2, ApplyNothing
    <3>4. UNCHANGED <<db, lost, loading, cache>> /\ updating' = pending
          /\ pending' = NoUpdate
      BY <2>2
    <3> QED BY <2>2, <3>1, <3>3, <3>4, NothingTouched DEF Accounted
  <2> QED BY <2>1, <2>2
<1>4. FlushComing'
  BY NothingTouched DEF FlushComing, HasPending
<1>5. WaitersHaveReason'
  BY NothingTouched DEF WaitersHaveReason, HasPending
<1>6. WaitedIsIdle'
  BY NothingTouched DEF WaitedIsIdle
<1>7. (ClosedIsIdle /\ RefusedIsErroneous /\ ClosedMeansStored)'
  BY DEF ClosedIsIdle, RefusedIsErroneous, ClosedMeansStored
<1> QED BY <1>1, <1>2, <1>3, <1>4, <1>5, <1>6, <1>7

\* The end of an update: the database took it but for the refused keys.
LEMMA EndUpdateInvariant ==
  ASSUME IInv, EndUpdate, NEW refused \in SUBSET Touched(updating),
         db' = [k \in Key |-> IF k \in refused THEN db[k]
                              ELSE Apply(updating, db)[k]],
         lost' = (lost \ Touched(updating)) \cup refused,
         refused # {} => isErroneous',
         isErroneous' \in BOOLEAN, isErroneous => isErroneous',
         failures' \in Nat
  PROVE  IInv'
<1> USE DEF IInv, EndUpdate, FlushPending
<1> DEFINE written == Apply(updating, db)
<1>0. written \in Items /\ db \in Items /\ db' \in Items
  BY ApplyType DEF TypeOK, Items
<1>1. TypeOK'
  <2>1. lost' \in SUBSET Key
    BY DEF TypeOK, Touched, Request
  <2>2. waiters' \in SUBSET SUBSET Key /\ settled' \in [Key -> {"no", "waited", "at once"}]
    BY DEF TypeOK, ReleaseWaiters
  <2>3. pending' \in Request /\ updating' \in Request
    BY NothingTouched DEF TypeOK
  <2> QED BY <1>0, <2>1, <2>2, <2>3 DEF TypeOK
<1>2. Unloaded' /\ loading # "no" /\ loading # "running"
  BY DEF Unloaded, TypeOK
<1>3. Accounted'
  <2> SUFFICES ASSUME loading = "done", NEW k \in Key,
                      k \notin lost' \/ k \in Touched(updating') \/ k \in Touched(pending')
               PROVE  Apply(pending', Apply(updating', db'))[k] = cache[k]
    BY DEF Accounted
  <2>1. pending \in Request /\ updating \in Request /\ Key \cap lost' \subseteq Key
    BY DEF TypeOK
  <2>2. Apply(pending', Apply(updating', db')) = Apply(pending, db')
    <3>1. Apply(NoUpdate, db') = db'
      BY <1>0, ApplyNothing
    <3>2. Apply(NoUpdate, Apply(pending, db')) = Apply(pending, db')
      BY <1>0, <2>1, ApplyNothing, ApplyType
    <3> QED BY <3>1, <3>2
  <2>3. k \notin lost' \/ k \in Touched(pending)
    BY NothingTouched
  <2>4. CASE k \in Touched(pending)
    <3>1. Apply(pending, db')[k] = Apply(pending, written)[k]
      BY <1>0, <2>1, <2>4, ApplyPointwise
    <3> QED BY <2>2, <2>4, <3>1 DEF Accounted
  <2>5. CASE k \notin lost'
    <3>1. k \notin refused /\ (k \notin lost \/ k \in Touched(updating))
      BY <2>5
    <3>2. db'[k] = written[k]
      BY <3>1
    <3>3. Apply(pending, db')[k] = Apply(pending, written)[k]
      BY <1>0, <2>1, <3>2, ApplyPointwise
    <3> QED BY <2>2, <3>1, <3>3 DEF Accounted
  <2> QED BY <2>3, <2>4, <2>5
<1>4. FlushComing'
  BY NothingTouched DEF FlushComing, HasPending
<1>5. WaitersHaveReason'
  <2>1. CASE HasPending
    BY <2>1, NothingTouched DEF WaitersHaveReason, HasPending, ReleaseWaiters
  <2>2. CASE ~HasPending
    BY <2>2 DEF WaitersHaveReason, ReleaseWaiters
  <2> QED BY <2>1, <2>2
<1>6. WaitedIsIdle'
  <2>1. CASE HasPending
    BY <2>1, NothingTouched DEF WaitedIsIdle, ReleaseWaiters
  <2>2. CASE ~HasPending
    BY <2>2, NothingTouched DEF WaitedIsIdle, HasPending
  <2> QED BY <2>1, <2>2
<1>7. closing \notin {"closed", "failed"}
  BY DEF ClosedIsIdle
<1>8. (ClosedIsIdle /\ RefusedIsErroneous /\ ClosedMeansStored)'
  BY <1>7 DEF ClosedIsIdle, RefusedIsErroneous, ClosedMeansStored
<1> QED BY <1>1, <1>2, <1>3, <1>4, <1>5, <1>6, <1>8

LEMMA UpdateSucceedsInvariant == IInv /\ UpdateSucceeds => IInv'
<1> SUFFICES ASSUME IInv, UpdateSucceeds PROVE IInv'
  OBVIOUS
<1> USE DEF UpdateSucceeds
<1>1. isErroneous' \in BOOLEAN /\ failures' \in Nat /\ (isErroneous => isErroneous')
  BY DEF IInv, TypeOK
<1> DEFINE refused == {}
<1>2. refused \in SUBSET Touched(updating)
  OBVIOUS
<1>3. /\ db' = [k \in Key |-> IF k \in refused THEN db[k]
                              ELSE Apply(updating, db)[k]]
      /\ lost' = (lost \ Touched(updating)) \cup refused
      /\ refused # {} => isErroneous'
  BY DEF Apply
<1>4. EndUpdate
  OBVIOUS
<1> HIDE DEF UpdateSucceeds, refused
<1> QED BY <1>1, <1>2, <1>3, <1>4, EndUpdateInvariant

LEMMA UpdateFailsInvariant == IInv /\ UpdateFails => IInv'
<1> SUFFICES ASSUME IInv, UpdateFails PROVE IInv'
  OBVIOUS
<1>1. EndUpdate /\ isErroneous' = TRUE
  BY DEF UpdateFails
<1>2. failures' \in Nat
  <2>1. failures \in Nat
    BY DEF IInv, TypeOK
  <2> QED BY <2>1, Successor DEF UpdateFails
<1>3. PICK refused \in SUBSET Touched(updating) :
        /\ db' = [k \in Key |-> IF k \in refused THEN db[k]
                                ELSE Apply(updating, db)[k]]
        /\ lost' = (lost \ Touched(updating)) \cup refused
  BY DEF UpdateFails
<1>4. isErroneous' \in BOOLEAN
  BY <1>1
<1> QED BY <1>1, <1>2, <1>3, <1>4, EndUpdateInvariant

LEMMA CloseDatabaseInvariant == IInv /\ CloseDatabase => IInv'
<1> SUFFICES ASSUME IInv, CloseDatabase PROVE IInv'
  OBVIOUS
<1> USE DEF CloseDatabase, FlushedForClose, flushVars
<1>1. /\ pending = NoUpdate /\ updating = NoUpdate
      /\ loading = "done" => \A k \in Key \ lost : db[k] = cache[k]
  BY IdleIsStored
<1> USE DEF IInv
<1>2. TypeOK'
  BY DEF TypeOK
<1>3. Accounted'
  <2>1. Apply(pending, Apply(updating, db')) = db'
    BY <1>1, <1>2, ApplyNothing DEF TypeOK
  <2>2. CASE isErroneous
    BY <2>1, <2>2 DEF Accounted
  <2>3. CASE ~isErroneous
    BY <2>3 DEF Accounted
  <2> QED BY <2>2, <2>3
<1>4. (Unloaded /\ FlushComing /\ WaitersHaveReason /\ WaitedIsIdle)'
  BY DEF Unloaded, FlushComing, HasPending, WaitersHaveReason, WaitedIsIdle,
         ClosedIsIdle
<1>5. (ClosedIsIdle /\ RefusedIsErroneous)'
  BY DEF ClosedIsIdle, RefusedIsErroneous
<1>6. ClosedMeansStored'
  <2>1. CASE isErroneous
    BY <2>1 DEF ClosedMeansStored
  <2>2. CASE ~isErroneous
    <3>1. loading = "done" => \A k \in Key : db[k] = cache[k]
      BY <1>1, <2>2 DEF RefusedIsErroneous
    <3>2. db \in Items /\ cache \in Items
      BY DEF TypeOK
    <3>3. loading = "done" => db = cache
      BY <3>1, <3>2 DEF Items
    <3> QED BY <2>2, <3>3 DEF ClosedMeansStored
  <2> QED BY <2>1, <2>2
<1> QED BY <1>2, <1>3, <1>4, <1>5, <1>6

LEMMA RecoveryFailsInvariant == IInv /\ RecoveryFails => IInv'
<1> SUFFICES ASSUME IInv, RecoveryFails PROVE IInv'
  OBVIOUS
<1> USE DEF RecoveryFails, FlushedForClose, flushVars
<1>1. pending = NoUpdate /\ updating = NoUpdate
  BY IdleIsStored
<1>2. Touched(pending) = {} /\ Touched(updating) = {}
  BY <1>1, NothingTouched
<1> USE DEF IInv
<1>3. TypeOK'
  <2>0. failures \in Nat
    BY DEF TypeOK
  <2>1. failures' \in Nat
    BY <2>0, Successor
  <2>2. NoItems \in Items
    BY DEF NoItems, Items
  <2> QED BY <2>1, <2>2 DEF TypeOK
<1>4. Accounted'
  BY <1>2 DEF Accounted
<1>5. (Unloaded /\ FlushComing /\ WaitersHaveReason /\ WaitedIsIdle)'
  BY DEF Unloaded, FlushComing, HasPending, WaitersHaveReason, WaitedIsIdle,
         ClosedIsIdle
<1>6. (ClosedIsIdle /\ RefusedIsErroneous /\ ClosedMeansStored)'
  BY DEF ClosedIsIdle, RefusedIsErroneous, ClosedMeansStored
<1> QED BY <1>3, <1>4, <1>5, <1>6

LEMMA StutterInvariant == IInv /\ UNCHANGED vars => IInv'
<1> SUFFICES ASSUME IInv, UNCHANGED vars PROVE IInv'
  OBVIOUS
<1> USE DEF IInv, vars
<1>1. TypeOK'
  BY DEF TypeOK
<1>2. (Unloaded /\ Accounted /\ FlushComing /\ WaitersHaveReason /\ WaitedIsIdle)'
  BY DEF Unloaded, Accounted, FlushComing, HasPending, WaitersHaveReason,
         WaitedIsIdle
<1>3. (ClosedIsIdle /\ RefusedIsErroneous /\ ClosedMeansStored)'
  BY DEF ClosedIsIdle, RefusedIsErroneous, ClosedMeansStored
<1> QED BY <1>1, <1>2, <1>3

LEMMA NextInvariant == IInv /\ [Next]_vars => IInv'
<1> SUFFICES ASSUME IInv, [Next]_vars PROVE IInv'
  OBVIOUS
<1>1. CASE InitStorage
  BY <1>1, InitStorageInvariant
<1>2. CASE Loaded
  BY <1>2, LoadedInvariant
<1>3. CASE LoadFails
  BY <1>3, LoadFailsInvariant
<1>4. ASSUME NEW k \in Key, NEW v \in Value, SetItem(k, v) PROVE IInv'
  BY <1>4, SetItemInvariant
<1>5. ASSUME NEW k \in Key, DeleteItem(k) PROVE IInv'
  BY <1>5, DeleteItemInvariant
<1>6. CASE Flush
  BY <1>6, FlushInvariant
<1>7. CASE WhenFlushed
  BY <1>7, WhenFlushedInvariant
<1>8. CASE TimerFires
  BY <1>8, TimerFiresInvariant
<1>9. CASE UpdateSucceeds
  BY <1>9, UpdateSucceedsInvariant
<1>10. CASE UpdateFails
  BY <1>10, UpdateFailsInvariant
<1>11. CASE Close
  BY <1>11, CloseInvariant
<1>12. CASE CloseDatabase
  BY <1>12, CloseDatabaseInvariant
<1>13. CASE RecoveryFails
  BY <1>13, RecoveryFailsInvariant
<1>14. CASE UNCHANGED vars
  BY <1>14, StutterInvariant
<1> QED BY <1>1, <1>2, <1>3, <1>4, <1>5, <1>6, <1>7, <1>8, <1>9, <1>10, <1>11,
           <1>12, <1>13, <1>14 DEF Next

(***************************************************************************)
(* The theorems.                                                           *)
(***************************************************************************)

\* The inductive invariant of class Storage holds in every reachable state.
THEOREM Invariance == Spec => []IInv
  BY InitInvariant, NextInvariant, PTL DEF Spec

\* Every variable keeps its type.
THEOREM TypeCorrect == Spec => []TypeOK
<1>1. IInv => TypeOK
  BY DEF IInv
<1> QED BY <1>1, Invariance, PTL

\* Every change is in the cache and on its way to the database, or was
\* refused by it: set, delete and flushPending drop none between them.
THEOREM NothingDroppedCorrect == Spec => []NothingDropped
<1>1. IInv => NothingDropped
  BY DEF IInv, Accounted, NothingDropped
<1> QED BY <1>1, Invariance, PTL

\* Pending changes always have a run of flushPending ahead of them.
THEOREM FlushComingCorrect == Spec => []FlushComing
<1>1. IInv => FlushComing
  BY DEF IInv
<1> QED BY <1>1, Invariance, PTL

\* The callbacks of whenFlushed are kept only while an update is due.
THEOREM WaitersHaveReasonCorrect == Spec => []WaitersHaveReason
<1>1. IInv => WaitersHaveReason
  BY DEF IInv
<1> QED BY <1>1, Invariance, PTL

\* The promise of a caller that whenFlushed made wait tells the truth.
THEOREM WaitedMeansStoredCorrect == Spec => []WaitedMeansStored
<1>1. IInv => WaitedMeansStored
  <2> SUFFICES ASSUME IInv, loading = "done", NEW k \in Key \ lost,
                      settled[k] = "waited"
               PROVE  db[k] = cache[k]
    BY DEF WaitedMeansStored
  <2>1. k \notin Touched(pending) /\ k \notin Touched(updating)
    BY DEF IInv, WaitedIsIdle
  <2>2. pending \in Request /\ updating \in Request /\ db \in Items
    BY DEF IInv, TypeOK
  <2>3. Apply(updating, db) \in Items
    BY <2>2, ApplyType
  <2>4. Apply(updating, db)[k] = db[k]
    BY <2>1, <2>2, ApplyPointwise
  <2>5. Apply(pending, Apply(updating, db))[k] = Apply(updating, db)[k]
    BY <2>1, <2>2, <2>3, ApplyPointwise
  <2>6. Apply(pending, Apply(updating, db))[k] = cache[k]
    BY DEF IInv, Accounted
  <2> QED BY <2>4, <2>5, <2>6
<1> QED BY <1>1, Invariance, PTL

\* When close() has resolved the database holds what the cache holds: the
\* last flush and the recovery leave nothing behind.
THEOREM ClosedMeansStoredCorrect == Spec => []ClosedMeansStored
<1>1. IInv => ClosedMeansStored
  BY DEF IInv
<1> QED BY <1>1, Invariance, PTL
=============================================================================
