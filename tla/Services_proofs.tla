------------------------- MODULE Services_proofs -------------------------
(***************************************************************************)
(* Three of the parts that MCServices composes, each with its inductive    *)
(* invariant: the backup of a working copy, the protocol of the extension  *)
(* hosts, and a channel.  Their properties are about quiet moments, or     *)
(* about one call; the invariants say of every operation in a queue and of *)
(* every message on its way what it was made for and what it will find.    *)
(***************************************************************************)
EXTENDS WorkingCopyBackups, RPCProtocol, Channels, SequenceTheorems, FiniteSetTheorems, TLAPS

(***************************************************************************)
(* WorkingCopyBackups.                                                     *)
(***************************************************************************)
\* The places of the queue.
Ops == 1 .. Len(queue)
\* The cache has a backup of version v.
Cached(v) == known.kind = "known" /\ known.version = v
\* No copy was closed while a backup of it was around.
Steady == "closed" \notin lapses
\* The content when the shutdown began is not in the file, and nothing happened since that
\* lets it be lost.
AtStake == atStake # 0 /\ saved < atStake /\ lapses \subseteq {"failed", "vetoed"}

\* The kind and the fields of operation i of queue q. They have names of their own so that
\* most of the proof reasons about queues without the records in them.
IsBackup(q, i) == q[i].kind = "backup"
IsDiscard(q, i) == q[i].kind = "discard"
IsNothing(q, i) == q[i].kind = "nothing"
Owner(q, i) == q[i].owner
Content(q, i) == q[i].content
Version(q, i) == q[i].version
Meta(q, i) == q[i].meta
Started(q, i) == q[i].started

\* The content at stake will be kept: no operation deletes the backup or replaces it by an
\* older content, and the backup file is of it unless the operation that runs writes the
\* file.
Secured ==
  /\ \A i \in Ops : ~IsDiscard(queue, i)
  /\ \A i \in Ops : IsBackup(queue, i) => Content(queue, i) >= atStake
  /\ \/ Readable(file) /\ file.content >= atStake
     \/ Len(queue) > 0 /\ Started(queue, 1)

\* What the type of the queue says of its operations.
OpFacts ==
  \A i \in Ops :
    /\ Content(queue, i) \in Nat /\ Version(queue, i) \in Nat /\ Meta(queue, i) \in Nat
    /\ IsBackup(queue, i) \/ IsDiscard(queue, i) \/ IsNothing(queue, i)
    /\ ~(IsBackup(queue, i) /\ IsDiscard(queue, i))
    /\ ~(IsBackup(queue, i) /\ IsNothing(queue, i))
    /\ ~(IsDiscard(queue, i) /\ IsNothing(queue, i))
    /\ Owner(queue, i) \in {"tracker", "closing", "nobody"}

\* Two operations do the same.
SameWork(p, i, q, j) ==
  /\ IsBackup(p, i) <=> IsBackup(q, j)
  /\ IsDiscard(p, i) <=> IsDiscard(q, j)
  /\ IsNothing(p, i) <=> IsNothing(q, j)
  /\ Content(p, i) = Content(q, j)
  /\ Version(p, i) = Version(q, j)
  /\ Meta(p, i) = Meta(q, j)

\* They do it for the same owner, and both have started or neither.
SameOp(p, i, q, j) ==
  /\ SameWork(p, i, q, j)
  /\ Owner(p, i) = Owner(q, j)
  /\ Started(p, i) <=> Started(q, j)

\* What Cancelled does to the queue: an operation of the owner is no longer its own, and if
\* it had not started it has become nothing.
Thinned(owner) ==
  \A i \in Ops :
    /\ Started(queue', i) <=> Started(queue, i)
    /\ Owner(queue', i) # owner
    /\ Owner(queue', i) \in {Owner(queue, i), "nobody"}
    /\ Owner(queue, i) # owner => SameOp(queue', i, queue, i)
    /\ \/ SameWork(queue', i, queue, i)
       \/ /\ IsNothing(queue', i) /\ ~IsBackup(queue', i) /\ ~IsDiscard(queue', i)
          /\ Owner(queue', i) = "nobody" /\ ~Started(queue, i)

\* The last operation of the longer queue is a new discard.
AddedDiscard(owner) ==
  /\ Len(queue') = Len(queue) + 1
  /\ IsDiscard(queue', Len(queue'))
  /\ ~IsBackup(queue', Len(queue')) /\ ~IsNothing(queue', Len(queue'))
  /\ Owner(queue', Len(queue')) = owner /\ ~Started(queue', Len(queue'))

\* The last operation of the longer queue is a new backup of the copy as it is.
AddedBackup(owner, version) ==
  /\ Len(queue') = Len(queue) + 1
  /\ IsBackup(queue', Len(queue'))
  /\ ~IsDiscard(queue', Len(queue')) /\ ~IsNothing(queue', Len(queue'))
  /\ Owner(queue', Len(queue')) = owner /\ ~Started(queue', Len(queue'))
  /\ Content(queue', Len(queue')) = copy.content
  /\ Version(queue', Len(queue')) = version
  /\ Meta(queue', Len(queue')) = saved

\* The first operation has left the queue.
Shorter ==
  /\ Len(queue') = Len(queue) - 1
  /\ \A i \in 1 .. Len(queue') :
       i + 1 \in Ops /\ i + 1 # 1 /\ SameOp(queue', i, queue, i + 1)
  /\ Len(queue) > 1 => SameOp(queue', Len(queue'), queue, Len(queue))

\* The operations that were queued are as they were.
Idem == \A i \in Ops : SameOp(queue', i, queue, i)

\* The types of the variables, one by one.
CopyType ==
  copy \in [registered : BOOLEAN, modified : BOOLEAN, content : Nat, version : Nat]

NumberTypes ==
  saved \in Nat /\ typed \in Nat /\ events \in Nat /\ atStake \in Nat

QueueType ==
  queue \in Seq(Op)

\* Only the first operation runs.
HeadOnly ==
  \A i \in Ops : Started(queue, i) => i = 1

PendingType ==
  pending \in {"none", "timer", "snapshot", "queued"}

FlagType ==
  suspended \in BOOLEAN

WindowType ==
  window \in {"open", "accepted", "closing", "gone"}

LapsesType ==
  lapses \subseteq {"closed", "failed", "failedLate", "vetoed"}

FileType ==
  file \in {None, Partial} \cup [kind : {"stored"}, content : Nat, meta : Nat]

KnownType ==
  known \in {None} \cup [kind : {"known"}, version : Nat, meta : Nat]

ClosingType ==
  /\ closing.stage \in {"none", "autoSave", "backup", "snapshot", "storing", "confirm",
                        "saving", "error", "folder", "discard", "done"}
  /\ closing.stage = "snapshot" => closing.version \in Nat

\* Without a backup file there is no entry in the cache.
FileCached ==
  file = None => known = None

\* A backup that is being written is unreadable, and not the one that the cache has.
NeverBoth ==
  Len(queue) > 0 /\ Started(queue, 1) /\ IsBackup(queue, 1) =>
    ~Readable(file) /\ ~Has(Version(queue, 1), Meta(queue, 1))

\* A cancelled operation never runs and belongs to nobody.
NothingStarts ==
  \A i \in Ops : IsNothing(queue, i) => ~Started(queue, i) /\ Owner(queue, i) = "nobody"

\* The tracker is suspended while a shutdown is handled and while the window closes; then
\* it has nothing pending.
ShutdownStages ==
  /\ window = "open" => (suspended <=> closing.stage # "none")
  /\ window # "open" => closing.stage = "none"
  /\ window = "closing" => suspended
  /\ window = "gone" => Len(queue) = 0
  /\ suspended \/ window = "gone" => pending = "none"

\* Who waits for an operation waits for the last one, and knows what it is.
Owners ==
  /\ \A i \in Ops : Owner(queue, i) = "tracker" => pending = "queued" /\ i = Len(queue)
  /\ \A i \in Ops : Owner(queue, i) = "closing" =>
       /\ i = Len(queue)
       /\ IsBackup(queue, i) => closing.stage = "storing"
       /\ IsDiscard(queue, i) => closing.stage = "discard"

\* Who waits for an operation has one in the queue.
Owned ==
  /\ pending = "queued" => Len(queue) > 0 /\ Owner(queue, Len(queue)) = "tracker"
  /\ closing.stage = "storing" =>
       Len(queue) > 0 /\ Owner(queue, Len(queue)) = "closing" /\ IsBackup(queue, Len(queue))

\* No content is newer than the last one typed, and a copy that is closed is like its file.
Numbers ==
  /\ copy.content <= typed /\ saved <= typed /\ atStake <= typed
  /\ ~copy.registered => ~copy.modified /\ copy.content = saved

\* The backup file is of the content the cache says; either it was made when the file was
\* as it is now or its content is not newer than that of the file.
DatedFile ==
  Readable(file) =>
    /\ known.kind = "known" /\ known.meta = file.meta
    /\ file.meta = saved \/ file.content <= saved
    /\ copy.modified /\ window # "gone" => file.content <= copy.content
    /\ file.content <= typed

\* The same for the backups that are queued.
DatedQueue ==
  \A i \in Ops : IsBackup(queue, i) =>
    /\ Meta(queue, i) = saved \/ Content(queue, i) <= saved
    /\ copy.modified => Content(queue, i) <= copy.content
    /\ Content(queue, i) <= typed

\* No backup that is queued is of a version still to come.
QueueBefore ==
  Steady => \A i \in Ops : IsBackup(queue, i) => Version(queue, i) <= copy.version

\* Nor is the one in the cache.
CacheBefore ==
  Steady => (known.kind = "known" => known.version <= copy.version)

\* Backups are queued in the order of their versions.
QueueInOrder ==
  Steady => \A i, j \in Ops :
    IsBackup(queue, i) /\ IsBackup(queue, j) /\ i <= j =>
      Version(queue, i) <= Version(queue, j)

\* The one in the cache is not newer than those in the queue.
CacheInOrder ==
  Steady => \A i \in Ops :
    IsBackup(queue, i) /\ known.kind = "known" => known.version <= Version(queue, i)

\* The version that a shutdown asks for is not older than those.
SnapBefore ==
  Steady /\ closing.stage = "snapshot" =>
    /\ closing.version <= copy.version
    /\ \A i \in Ops : IsBackup(queue, i) => Version(queue, i) <= closing.version
    /\ known.kind = "known" => known.version <= closing.version

\* A queued backup of the version of the copy is of its content.
QueueSame ==
  Steady => \A i \in Ops :
    IsBackup(queue, i) /\ Version(queue, i) = copy.version =>
      Content(queue, i) = copy.content

\* So is the backup file, when it is the one of that version in the cache.
CacheSame ==
  Steady /\ Cached(copy.version) /\ Readable(file) => file.content = copy.content

\* A queued backup of the version of a modified copy is made against the file as it is.
QueueHolds ==
  Steady /\ copy.modified => \A i \in Ops :
    IsBackup(queue, i) /\ Version(queue, i) = copy.version => Meta(queue, i) = saved

\* So is the one in the cache, unless the content is in the file anyway.
CacheMeta ==
  Steady /\ copy.modified /\ Cached(copy.version) =>
    known.meta = saved \/ copy.content <= saved

\* A cached backup of a modified copy in its present version, made against the file as it
\* is, is in the backup file.
CacheHolds ==
  Steady /\ copy.modified /\ Cached(copy.version) /\ known.meta = saved => Readable(file)

\* No operation deletes it.
CacheStays ==
  Steady /\ copy.modified /\ Cached(copy.version) => \A i \in Ops : ~IsDiscard(queue, i)

\* No operation deletes a queued one that is of the present version.
QueueStays ==
  Steady /\ copy.modified => \A i, j \in Ops :
    IsBackup(queue, i) /\ IsDiscard(queue, j) /\ i <= j =>
      Version(queue, i) # copy.version

\* Without lapses: what the tracker waits for, when the copy is modified, is the backup of
\* the copy as it is.
ModifiedQueued ==
  window = "open" /\ ~suspended /\ lapses = {} =>
    (copy.modified /\ pending = "queued" =>
       /\ IsBackup(queue, Len(queue))
       /\ Version(queue, Len(queue)) = copy.version /\ Meta(queue, Len(queue)) = saved)

\* When the copy is modified and the tracker waits for nothing, the cache has that backup.
ModifiedStored ==
  window = "open" /\ ~suspended /\ lapses = {} =>
    (copy.modified /\ pending = "none" => known = Known(copy.version, saved))

\* When the copy is not modified, the tracker waits for a discard or for nothing.
CleanQueued ==
  window = "open" /\ ~suspended /\ lapses = {} =>
    (~copy.modified =>
       /\ pending \in {"none", "queued"}
       /\ pending = "queued" => IsDiscard(queue, Len(queue)))

\* In the second case the backup has been deleted.
CleanDiscarded ==
  window = "open" /\ ~suspended /\ lapses = {} =>
    (~copy.modified /\ pending = "none" => Len(queue) = 0 /\ ~Readable(file))

\* The content at stake is in the copy or in the file.
StakeModified ==
  atStake # 0 /\ window # "gone" =>
    IF copy.modified THEN copy.content >= atStake ELSE saved >= atStake

\* While a shutdown asks for the content: a queued backup of the version it has read has
\* the content at stake.
SnapAsked ==
  AtStake /\ closing.stage = "snapshot" =>
    \A i \in Ops : IsBackup(queue, i) =>
      /\ Version(queue, i) <= closing.version
      /\ Version(queue, i) = closing.version =>
           Meta(queue, i) = saved /\ Content(queue, i) >= atStake

\* So has the backup file, if the cache has that version; and no operation deletes it.
SnapKept ==
  AtStake /\ closing.stage = "snapshot" =>
    (Cached(closing.version) =>
       /\ known.meta = saved /\ Readable(file) /\ file.content >= atStake
       /\ \A i \in Ops : ~IsDiscard(queue, i))

\* No operation deletes a queued one.
SnapStays ==
  AtStake /\ closing.stage = "snapshot" =>
    \A i, j \in Ops :
      IsBackup(queue, i) /\ IsDiscard(queue, j) /\ i <= j => Version(queue, i) # closing.version

\* The same three for the backup that the shutdown waits for.
StoreAsked ==
  AtStake /\ closing.stage = "storing" =>
    \A i \in Ops : IsBackup(queue, i) =>
      /\ Version(queue, i) <= Version(queue, Len(queue))
      /\ Version(queue, i) = Version(queue, Len(queue)) =>
           Meta(queue, i) = saved /\ Content(queue, i) >= atStake

StoreKept ==
  AtStake /\ closing.stage = "storing" =>
    (Cached(Version(queue, Len(queue))) =>
       /\ known.meta = saved /\ Readable(file) /\ file.content >= atStake
       /\ \A i \in Ops : ~IsDiscard(queue, i))

StoreStays ==
  AtStake /\ closing.stage = "storing" =>
    \A i, j \in Ops :
      IsBackup(queue, i) /\ IsDiscard(queue, j) /\ i <= j => Version(queue, i) # Version(queue, Len(queue))

\* A shutdown that has its backup leaves nothing in the queue.
DoneSecured ==
  AtStake =>
    (closing.stage = "done" => Len(queue) = 0 /\ Readable(file) /\ file.content >= atStake)

\* With a content at stake a shutdown does not discard.
NotDiscarding ==
  AtStake => closing.stage \notin {"discard", "folder"}

\* Once a shutdown is accepted the content at stake is kept.
AcceptSecured ==
  AtStake => (window \in {"accepted", "closing"} => Secured)

\* It is in the backup when the window is gone.
GoneSecured ==
  AtStake => (window = "gone" => Readable(file) /\ file.content >= atStake)

\* The inductive invariant. BackupFollows says something only of moments at which nothing
\* is pending, and NothingLost only of windows that are gone: what they say then is decided
\* by what was queued, cached and deleted before, in the order of the versions.
BInv ==
  /\ CopyType
  /\ NumberTypes
  /\ QueueType
  /\ HeadOnly
  /\ PendingType
  /\ FlagType
  /\ WindowType
  /\ LapsesType
  /\ FileType
  /\ KnownType
  /\ ClosingType
  /\ FileCached
  /\ NeverBoth
  /\ NothingStarts
  /\ ShutdownStages
  /\ Owners
  /\ Owned
  /\ Numbers
  /\ DatedFile
  /\ DatedQueue
  /\ QueueBefore
  /\ CacheBefore
  /\ QueueInOrder
  /\ CacheInOrder
  /\ SnapBefore
  /\ QueueSame
  /\ CacheSame
  /\ QueueHolds
  /\ CacheMeta
  /\ CacheHolds
  /\ CacheStays
  /\ QueueStays
  /\ ModifiedQueued
  /\ ModifiedStored
  /\ CleanQueued
  /\ CleanDiscarded
  /\ StakeModified
  /\ SnapAsked
  /\ SnapKept
  /\ SnapStays
  /\ StoreAsked
  /\ StoreKept
  /\ StoreStays
  /\ DoneSecured
  /\ NotDiscarding
  /\ AcceptSecured
  /\ GoneSecured

\* What the types of the copy and of the queue say.
LEMMA Fields ==
  ASSUME CopyType, QueueType
  PROVE  /\ copy.content \in Nat /\ copy.version \in Nat
         /\ copy.modified \in BOOLEAN /\ copy.registered \in BOOLEAN
         /\ Len(queue) \in Nat
         /\ queue # <<>> <=> Len(queue) > 0
         /\ Ops = DOMAIN queue
         /\ OpFacts
<1>1. \A i \in 1 .. Len(queue) : queue[i] \in Op
  BY DEF QueueType
<1>2. Len(queue) \in Nat /\ (queue # <<>> <=> Len(queue) > 0) /\ DOMAIN queue = 1 .. Len(queue)
  BY DEF QueueType
<1>3. copy.content \in Nat /\ copy.version \in Nat
      /\ copy.modified \in BOOLEAN /\ copy.registered \in BOOLEAN
  BY DEF CopyType
<1>4. OpFacts
  BY <1>1
  DEF OpFacts, Ops, Op, IsBackup, IsDiscard, IsNothing, Owner, Content, Version, Meta,
      Started
<1> QED
  BY <1>2, <1>3, <1>4 DEF Ops

\* An operation that is copied is the same.
LEMMA CopiedOp ==
  ASSUME NEW p, NEW q, NEW i, NEW j, p[i] = q[j]
  PROVE  SameOp(p, i, q, j)
  BY DEF SameOp, SameWork, IsBackup, IsDiscard, IsNothing, Owner, Content, Version, Meta,
         Started

\* A function on 1 .. n is a sequence.
LEMMA FunctionIsSeq ==
  ASSUME NEW n \in Nat, NEW s \in [1 .. n -> Op]
  PROVE  s \in Seq(Op) /\ Len(s) = n
  OBVIOUS

\* What Cancelled returns, operation by operation.
LEMMA CancelledFacts ==
  ASSUME QueueType, NEW owner, owner # "nobody"
  PROVE  /\ Cancelled(owner) \in Seq(Op)
         /\ Len(Cancelled(owner)) = Len(queue)
         /\ \A i \in Ops :
              \/ queue[i].owner # owner /\ Cancelled(owner)[i] = queue[i]
              \/ /\ queue[i].owner = owner /\ queue[i].started
                 /\ Cancelled(owner)[i] = [queue[i] EXCEPT !.owner = "nobody"]
              \/ queue[i].owner = owner /\ ~queue[i].started /\ Cancelled(owner)[i] = Nothing
<1> DEFINE c == Cancelled(owner)
<1>1. DOMAIN queue = 1 .. Len(queue) /\ Len(queue) \in Nat
  BY DEF QueueType
<1>2. \A i \in 1 .. Len(queue) : queue[i] \in Op
  BY DEF QueueType
<1>3. c = [i \in 1 .. Len(queue) |->
              IF queue[i].owner # owner THEN queue[i]
              ELSE IF queue[i].started THEN [queue[i] EXCEPT !.owner = "nobody"]
              ELSE Nothing]
  BY <1>1 DEF Cancelled
<1>4. c \in [1 .. Len(queue) -> Op]
  BY <1>2, <1>3 DEF Op, Nothing
<1>5. c \in Seq(Op)
  BY <1>1, <1>4
<1>6. Len(c) = Len(queue)
  BY <1>1, <1>4, <1>5
<1>7. \A i \in 1 .. Len(queue) :
        \/ queue[i].owner # owner /\ c[i] = queue[i]
        \/ /\ queue[i].owner = owner /\ queue[i].started
           /\ c[i] = [queue[i] EXCEPT !.owner = "nobody"]
        \/ queue[i].owner = owner /\ ~queue[i].started /\ c[i] = Nothing
  BY <1>3, Zenon
<1> HIDE DEF c
<1> QED
  BY <1>5, <1>6, <1>7 DEF Ops, c

\* Cancelled thins the queue, also when more is appended.
LEMMA ThinnedFacts ==
  ASSUME QueueType, NEW owner, owner # "nobody",
         \A i \in Ops : queue'[i] = Cancelled(owner)[i]
  PROVE  Thinned(owner)
<1> SUFFICES ASSUME NEW i \in Ops
             PROVE  /\ Started(queue', i) <=> Started(queue, i)
                    /\ Owner(queue', i) # owner
                    /\ Owner(queue', i) \in {Owner(queue, i), "nobody"}
                    /\ Owner(queue, i) # owner => SameOp(queue', i, queue, i)
                    /\ \/ SameWork(queue', i, queue, i)
                       \/ /\ IsNothing(queue', i) /\ ~IsBackup(queue', i) /\ ~IsDiscard(queue', i)
                          /\ Owner(queue', i) = "nobody" /\ ~Started(queue, i)
  BY DEF Thinned
<1>1. queue[i] \in Op
  BY DEF QueueType, Ops
<1>2. \/ queue[i].owner # owner /\ queue'[i] = queue[i]
      \/ /\ queue[i].owner = owner /\ queue[i].started
         /\ queue'[i] = [queue[i] EXCEPT !.owner = "nobody"]
      \/ queue[i].owner = owner /\ ~queue[i].started /\ queue'[i] = Nothing
  BY CancelledFacts
<1>3. CASE queue[i].owner # owner /\ queue'[i] = queue[i]
  BY <1>3
  DEF SameOp, SameWork, IsBackup, IsDiscard, IsNothing, Owner, Content, Version, Meta,
      Started
<1>4. CASE /\ queue[i].owner = owner /\ queue[i].started
           /\ queue'[i] = [queue[i] EXCEPT !.owner = "nobody"]
  <2>1. /\ queue'[i].kind = queue[i].kind /\ queue'[i].content = queue[i].content
        /\ queue'[i].version = queue[i].version /\ queue'[i].meta = queue[i].meta
        /\ queue'[i].owner = "nobody"
    BY <1>1, <1>4 DEF Op
  <2>2. queue'[i].started <=> queue[i].started
    BY <1>1, <1>4 DEF Op
  <2> QED
    BY <1>4, <2>1, <2>2
    DEF SameWork, IsBackup, IsDiscard, IsNothing, Owner, Content, Version, Meta, Started
<1>5. CASE queue[i].owner = owner /\ ~queue[i].started /\ queue'[i] = Nothing
  <2>1. queue'[i].kind = "nothing" /\ queue'[i].owner = "nobody" /\ ~queue'[i].started
    BY <1>5 DEF Nothing
  <2> QED
    BY <1>5, <2>1 DEF IsBackup, IsDiscard, IsNothing, Owner, Content, Version, Meta, Started
<1> QED
  BY <1>2, <1>3, <1>4, <1>5

\* Cancelled alone.
LEMMA CancelFacts ==
  ASSUME QueueType, NEW owner, owner # "nobody", queue' = Cancelled(owner)
  PROVE  queue' \in Seq(Op) /\ Len(queue') = Len(queue) /\ Thinned(owner)
  BY CancelledFacts, ThinnedFacts

\* What ScheduleBackup does.
LEMMA ScheduleFacts ==
  ASSUME QueueType, ScheduleBackup
  PROVE  /\ suspended => queue' = queue /\ pending' = pending
         /\ ~suspended => /\ pending' = "timer"
                          /\ queue' \in Seq(Op) /\ Len(queue') = Len(queue)
                          /\ Thinned("tracker")
<1>1. CASE suspended
  BY <1>1 DEF ScheduleBackup
<1>2. CASE ~suspended
  <2>1. pending' = "timer" /\ queue' = Cancelled("tracker")
    BY <1>2 DEF ScheduleBackup
  <2> QED
    BY <1>2, <2>1, CancelFacts
<1> QED
  BY <1>1, <1>2

\* What Append returns.
LEMMA AppendFacts ==
  ASSUME NEW q \in Seq(Op), NEW op \in Op
  PROVE  /\ Append(q, op) \in Seq(Op)
         /\ Len(Append(q, op)) = Len(q) + 1
         /\ Append(q, op)[Len(q) + 1] = op
         /\ \A i \in 1 .. Len(q) : Append(q, op)[i] = q[i]
  OBVIOUS

\* Appending DiscardOp adds a discard.
LEMMA AddedDiscardFacts ==
  ASSUME NEW owner \in {"tracker", "closing"}, Len(queue') = Len(queue) + 1,
         queue'[Len(queue) + 1] = DiscardOp(owner)
  PROVE  AddedDiscard(owner)
<1>1. queue'[Len(queue')] = DiscardOp(owner)
  OBVIOUS
<1>2. /\ queue'[Len(queue')].kind = "discard" /\ queue'[Len(queue')].owner = owner
      /\ ~queue'[Len(queue')].started
  BY <1>1 DEF DiscardOp
<1> QED
  BY <1>2
  DEF AddedDiscard, IsBackup, IsDiscard, IsNothing, Owner, Content, Version, Meta, Started

\* Appending BackupOp adds a backup.
LEMMA AddedBackupFacts ==
  ASSUME NEW owner \in {"tracker", "closing"}, NEW version, Len(queue') = Len(queue) + 1,
         queue'[Len(queue) + 1] = BackupOp(owner, version)
  PROVE  AddedBackup(owner, version)
<1>1. queue'[Len(queue')] = BackupOp(owner, version)
  OBVIOUS
<1>2. /\ queue'[Len(queue')].kind = "backup" /\ queue'[Len(queue')].owner = owner
      /\ ~queue'[Len(queue')].started
      /\ queue'[Len(queue')].content = copy.content
      /\ queue'[Len(queue')].version = version
      /\ queue'[Len(queue')].meta = saved
  BY <1>1 DEF BackupOp
<1> QED
  BY <1>2
  DEF AddedBackup, IsBackup, IsDiscard, IsNothing, Owner, Content, Version, Meta, Started

\* DiscardOp returns an operation.
LEMMA DiscardOpType ==
  DiscardOp("tracker") \in Op /\ DiscardOp("closing") \in Op
  BY DEF DiscardOp, Op

\* Cancelling what is pending and appending a discard.
LEMMA CancelDiscardFacts ==
  ASSUME QueueType, NEW owner \in {"tracker"}, NEW for \in {"tracker", "closing"},
         queue' = Append(Cancelled(owner), DiscardOp(for))
  PROVE  queue' \in Seq(Op) /\ AddedDiscard(for) /\ Thinned(owner)
<1> DEFINE c == Cancelled(owner)
<1>1. c \in Seq(Op) /\ Len(c) = Len(queue)
  BY CancelledFacts
<1>2. DiscardOp(for) \in Op
  BY DiscardOpType
<1>3. queue' = Append(c, DiscardOp(for))
  OBVIOUS
<1>4. \A i \in Ops : c[i] = Cancelled(owner)[i]
  OBVIOUS
<1> HIDE DEF c
<1>5. /\ queue' \in Seq(Op)
      /\ Len(queue') = Len(c) + 1
      /\ queue'[Len(c) + 1] = DiscardOp(for)
      /\ \A i \in 1 .. Len(c) : queue'[i] = c[i]
  BY <1>1, <1>2, <1>3, AppendFacts
<1>6. AddedDiscard(for)
  BY <1>1, <1>5, AddedDiscardFacts
<1>7. \A i \in Ops : queue'[i] = Cancelled(owner)[i]
  BY <1>1, <1>4, <1>5 DEF Ops
<1> QED
  BY <1>5, <1>6, <1>7, ThinnedFacts

\* What DiscardBackup does.
LEMMA DiscardFacts ==
  ASSUME QueueType, DiscardBackup
  PROVE  /\ suspended => queue' = queue /\ pending' = pending
         /\ ~suspended => /\ pending' = "queued"
                          /\ queue' \in Seq(Op)
                          /\ AddedDiscard("tracker")
                          /\ Thinned("tracker")
<1>1. CASE suspended
  BY <1>1 DEF DiscardBackup
<1>2. CASE ~suspended
  <2>1. pending' = "queued" /\ queue' = Append(Cancelled("tracker"), DiscardOp("tracker"))
    BY <1>2 DEF DiscardBackup
  <2> QED
    BY <1>2, <2>1, CancelDiscardFacts
<1> QED
  BY <1>1, <1>2

\* Taking the first operation from the queue.
LEMMA TailFacts ==
  ASSUME QueueType, Len(queue) > 0, queue' = Tail(queue)
  PROVE  queue' \in Seq(Op) /\ Shorter
<1>1. /\ queue' \in Seq(Op)
      /\ Len(queue') = Len(queue) - 1
      /\ \A i \in 1 .. Len(queue') : queue'[i] = queue[i + 1]
  BY DEF QueueType
<1>2. \A i \in 1 .. Len(queue') : i + 1 \in Ops /\ i + 1 # 1
  BY <1>1 DEF QueueType, Ops
<1>3. Len(queue) > 1 => queue'[Len(queue')] = queue[Len(queue)]
  BY <1>1 DEF QueueType
<1> QED
  BY <1>1, <1>2, <1>3, CopiedOp DEF Shorter

\* Appending an operation.
LEMMA AddFacts ==
  ASSUME QueueType, NEW op \in Op, queue' = Append(queue, op)
  PROVE  /\ queue' \in Seq(Op) /\ Idem
         /\ Len(queue') = Len(queue) + 1 /\ queue'[Len(queue) + 1] = op
<1>1. queue \in Seq(Op)
  BY DEF QueueType
<1> QED
  BY <1>1, AppendFacts, CopiedOp DEF Idem, Ops

\* Appending a discard.
LEMMA AddDiscardFacts ==
  ASSUME QueueType, queue' = Append(queue, DiscardOp("closing"))
  PROVE  queue' \in Seq(Op) /\ AddedDiscard("closing") /\ Idem
  BY AddFacts, DiscardOpType, AddedDiscardFacts

\* Appending a backup.
LEMMA AddBackupFacts ==
  ASSUME QueueType, NEW owner \in {"tracker", "closing"}, NEW version \in Nat,
         copy.content \in Nat, saved \in Nat, queue' = Append(queue, BackupOp(owner, version))
  PROVE  queue' \in Seq(Op) /\ AddedBackup(owner, version) /\ Idem
<1>1. BackupOp(owner, version) \in Op
  BY DEF BackupOp, Op
<1> QED
  BY <1>1, AddFacts, AddedBackupFacts

\* Cancelling the progress of a discard leaves the operations to nobody.
LEMMA OrphanFacts ==
  ASSUME QueueType, queue' = [i \in DOMAIN queue |-> [queue[i] EXCEPT !.owner = "nobody"]]
  PROVE  /\ queue' \in Seq(Op) /\ Len(queue') = Len(queue)
         /\ \A i \in Ops : SameWork(queue', i, queue, i) /\ Owner(queue', i) = "nobody"
                           /\ (Started(queue', i) <=> Started(queue, i))
<1>1. DOMAIN queue = 1 .. Len(queue) /\ Len(queue) \in Nat
  BY DEF QueueType
<1>2. \A i \in 1 .. Len(queue) : queue[i] \in Op
  BY DEF QueueType
<1>3. queue' = [i \in 1 .. Len(queue) |-> [queue[i] EXCEPT !.owner = "nobody"]]
  BY <1>1
<1>4. queue' \in [1 .. Len(queue) -> Op]
  BY <1>2, <1>3 DEF Op
<1>5. queue' \in Seq(Op) /\ Len(queue') = Len(queue)
  BY <1>1, <1>4
<1>6. \A i \in 1 .. Len(queue) : SameWork(queue', i, queue, i) /\ Owner(queue', i) = "nobody"
                           /\ (Started(queue', i) <=> Started(queue, i))
  BY <1>2, <1>3
  DEF SameWork, Op, IsBackup, IsDiscard, IsNothing, Owner, Content, Version, Meta, Started
<1> QED
  BY <1>5, <1>6 DEF Ops

\* Starting the first operation changes nothing else.
LEMMA StartedFacts ==
  ASSUME QueueType, Len(queue) > 0, queue' = [queue EXCEPT ![1].started = TRUE]
  PROVE  /\ queue' \in Seq(Op) /\ Len(queue') = Len(queue)
         /\ Started(queue', 1)
         /\ \A i \in Ops : i # 1 => (Started(queue', i) <=> Started(queue, i))
         /\ \A i \in Ops : SameWork(queue', i, queue, i) /\ Owner(queue', i) = Owner(queue, i)
<1> DEFINE op == [queue[1] EXCEPT !.started = TRUE]
<1>1. DOMAIN queue = 1 .. Len(queue) /\ Len(queue) \in Nat /\ 1 \in 1 .. Len(queue)
  BY DEF QueueType
<1>2. \A i \in 1 .. Len(queue) : queue[i] \in Op
  BY DEF QueueType
<1>3. queue[1] \in Op
  BY <1>1, <1>2
<1>4. /\ op \in Op /\ op.started
      /\ op.kind = queue[1].kind /\ op.content = queue[1].content /\ op.version = queue[1].version
      /\ op.meta = queue[1].meta /\ op.owner = queue[1].owner
  BY <1>3 DEF Op
<1>5. queue' = [queue EXCEPT ![1] = op]
  OBVIOUS
<1> HIDE DEF op
<1>6. queue' = [i \in 1 .. Len(queue) |-> IF i = 1 THEN op ELSE queue[i]]
  BY <1>1, <1>5
<1>7. queue' \in [1 .. Len(queue) -> Op]
  BY <1>2, <1>4, <1>6
<1>8. queue' \in Seq(Op) /\ Len(queue') = Len(queue)
  BY <1>1, <1>7, FunctionIsSeq
<1>9. queue'[1] = op /\ \A i \in Ops : i # 1 => queue'[i] = queue[i]
  BY <1>1, <1>6 DEF Ops
<1>10. Started(queue', 1) /\ SameWork(queue', 1, queue, 1) /\ Owner(queue', 1) = Owner(queue, 1)
  BY <1>4, <1>9
  DEF SameWork, IsBackup, IsDiscard, IsNothing, Owner, Content, Version, Meta, Started
<1>11. \A i \in Ops : i # 1 => SameOp(queue', i, queue, i)
  BY <1>9, CopiedOp
<1> QED
  BY <1>8, <1>10, <1>11 DEF SameOp

\* The cases of the actions that the proof tells apart. An operation starts: it has nothing
\* to do, or it has.
SkipCase ==
  /\ StartOp
  /\ IsNothing(queue, 1) \/ (IsBackup(queue, 1) /\ Has(Version(queue, 1), Meta(queue, 1)))

StartCase ==
  /\ StartOp
  /\ ~(IsNothing(queue, 1) \/ (IsBackup(queue, 1) /\ Has(Version(queue, 1), Meta(queue, 1))))

\* An operation ends well, or fails.
FinishWellCase ==
  /\ FinishOp
  /\ events' = events
  /\ file' = IF IsBackup(queue, 1) THEN Stored(Content(queue, 1), Meta(queue, 1)) ELSE None
  /\ known' = IF IsBackup(queue, 1) THEN Known(Version(queue, 1), Meta(queue, 1)) ELSE None
  /\ closing' = IF Owner(queue, 1) = "closing" THEN [stage |-> "done"] ELSE closing
  /\ lapses' = lapses

FinishBadlyCase ==
  /\ FinishOp
  /\ Bounded
  /\ file' = file
  /\ known' = known
  /\ closing' = IF Owner(queue, 1) = "closing"
                    THEN [stage |-> IF IsDiscard(queue, 1) THEN "done" ELSE "error"]
                    ELSE closing
  /\ lapses' = lapses \cup {IF window = "open" THEN "failed" ELSE "failedLate"}

\* A backup is not needed any more, or queued.
StoreNotCase ==
  /\ StoreBackup
  /\ ~copy.modified \/ Has(copy.version, saved)

StoreCase ==
  /\ StoreBackup
  /\ ~(~copy.modified \/ Has(copy.version, saved))

\* A shutdown begins with a modified copy, or without.
ShutdownModifiedCase ==
  /\ BeforeShutdown
  /\ copy.modified

ShutdownCleanCase ==
  /\ BeforeShutdown
  /\ ~copy.modified

\* Saving has left the copy modified, or not.
AutoSavedModifiedCase ==
  /\ AutoSaved
  /\ copy.modified

AutoSavedAllCase ==
  /\ AutoSaved
  /\ ~copy.modified

\* The cache has the version of the copy, or not.
BackupThereCase ==
  /\ BackupExists
  /\ Cached(copy.version)

BackupNotThereCase ==
  /\ BackupExists
  /\ ~Cached(copy.version)

\* The cache has the version asked for, or it is queued.
SnapshotKnownCase ==
  /\ BackupAtShutdown
  /\ Has(closing.version, saved)

SnapshotStoredCase ==
  /\ BackupAtShutdown
  /\ ~Has(closing.version, saved)

\* The progress of a backup is cancelled, or that of a discard.
CancelBackupCase ==
  /\ CancelProgress
  /\ closing.stage # "discard"

CancelDiscardCase ==
  /\ CancelProgress
  /\ closing.stage = "discard"

\* The next window finds a readable backup, or none.
RestartBackedCase ==
  /\ Restart
  /\ Readable(file)

RestartBareCase ==
  /\ Restart
  /\ ~Readable(file)

\* A step that leaves alone what a part of the invariant reads keeps that part.
LEMMA BackupFrames ==
  ASSUME BInv
  PROVE  /\ UNCHANGED copy => CopyType'
         /\ UNCHANGED <<saved, typed, events, atStake>> => NumberTypes'
         /\ UNCHANGED queue => QueueType' /\ HeadOnly' /\ NothingStarts'
         /\ UNCHANGED pending => PendingType'
         /\ UNCHANGED suspended => FlagType'
         /\ UNCHANGED window => WindowType'
         /\ UNCHANGED lapses => LapsesType'
         /\ UNCHANGED file => FileType'
         /\ UNCHANGED known => KnownType'
         /\ UNCHANGED closing => ClosingType'
         /\ UNCHANGED <<file, known>> => FileCached'
         /\ UNCHANGED <<queue, file, known>> => NeverBoth'
         /\ UNCHANGED <<pending, suspended, queue, closing, window>> => ShutdownStages'
         /\ UNCHANGED <<pending, queue, closing>> => Owners' /\ Owned'
         /\ UNCHANGED <<copy, saved, typed, atStake>> => Numbers'
         /\ UNCHANGED <<copy, saved, file, known, window, typed>> => DatedFile'
         /\ UNCHANGED <<copy, saved, queue, typed>> => DatedQueue'
         /\ UNCHANGED <<copy, queue, lapses>> => QueueBefore' /\ QueueSame' /\ QueueStays'
         /\ UNCHANGED <<copy, known, lapses>> => CacheBefore'
         /\ UNCHANGED <<queue, lapses>> => QueueInOrder'
         /\ UNCHANGED <<queue, known, lapses>> => CacheInOrder'
         /\ UNCHANGED <<copy, queue, known, closing, lapses>> => SnapBefore'
         /\ UNCHANGED <<copy, file, known, lapses>> => CacheSame'
         /\ UNCHANGED <<copy, saved, queue, lapses>> => QueueHolds'
         /\ UNCHANGED <<copy, saved, known, lapses>> => CacheMeta'
         /\ UNCHANGED <<copy, saved, file, known, lapses>> => CacheHolds'
         /\ UNCHANGED <<copy, queue, known, lapses>> => CacheStays'
         /\ UNCHANGED <<copy, saved, pending, suspended, queue, window, lapses>> =>
              ModifiedQueued'
         /\ UNCHANGED <<copy, saved, pending, suspended, known, window, lapses>> =>
              ModifiedStored'
         /\ UNCHANGED <<copy, pending, suspended, queue, window, lapses>> => CleanQueued'
         /\ UNCHANGED <<copy, pending, suspended, queue, file, window, lapses>> =>
              CleanDiscarded'
         /\ UNCHANGED <<copy, saved, window, atStake>> => StakeModified'
         /\ UNCHANGED <<saved, queue, closing, lapses, atStake>> =>
              SnapAsked' /\ SnapStays' /\ StoreAsked' /\ StoreStays'
         /\ UNCHANGED <<saved, queue, file, known, closing, lapses, atStake>> =>
              SnapKept' /\ StoreKept'
         /\ UNCHANGED <<saved, queue, file, closing, lapses, atStake>> => DoneSecured'
         /\ UNCHANGED <<saved, closing, lapses, atStake>> => NotDiscarding'
         /\ UNCHANGED <<saved, queue, file, window, lapses, atStake>> => AcceptSecured'
         /\ UNCHANGED <<saved, file, window, lapses, atStake>> => GoneSecured'
<1>1. ASSUME UNCHANGED copy
      PROVE  CopyType'
  BY <1>1 DEF BInv, CopyType
<1>2. ASSUME UNCHANGED <<saved, typed, events, atStake>>
      PROVE  NumberTypes'
  BY <1>2 DEF BInv, NumberTypes
<1>3. ASSUME UNCHANGED queue
      PROVE  QueueType' /\ HeadOnly' /\ NothingStarts'
  <2>1. QueueType'
    BY <1>3 DEF BInv, QueueType, Op
  <2>2. HeadOnly'
    BY <1>3 DEF BInv, HeadOnly, Ops
  <2>3. NothingStarts'
    BY <1>3 DEF BInv, NothingStarts, Ops
  <2> QED
    BY <2>1, <2>2, <2>3
<1>4. ASSUME UNCHANGED pending
      PROVE  PendingType'
  BY <1>4 DEF BInv, PendingType
<1>5. ASSUME UNCHANGED suspended
      PROVE  FlagType'
  BY <1>5 DEF BInv, FlagType
<1>6. ASSUME UNCHANGED window
      PROVE  WindowType'
  BY <1>6 DEF BInv, WindowType
<1>7. ASSUME UNCHANGED lapses
      PROVE  LapsesType'
  BY <1>7 DEF BInv, LapsesType
<1>8. ASSUME UNCHANGED file
      PROVE  FileType'
  BY <1>8 DEF BInv, FileType, None
<1>9. ASSUME UNCHANGED known
      PROVE  KnownType'
  BY <1>9 DEF BInv, KnownType, None
<1>10. ASSUME UNCHANGED closing
      PROVE  ClosingType'
  BY <1>10 DEF BInv, ClosingType
<1>11. ASSUME UNCHANGED <<file, known>>
      PROVE  FileCached'
  BY <1>11 DEF BInv, FileCached, None
<1>12. ASSUME UNCHANGED <<queue, file, known>>
      PROVE  NeverBoth'
  BY <1>12 DEF BInv, NeverBoth, Readable, Has
<1>13. ASSUME UNCHANGED <<pending, suspended, queue, closing, window>>
      PROVE  ShutdownStages'
  BY <1>13 DEF BInv, ShutdownStages
<1>14. ASSUME UNCHANGED <<pending, queue, closing>>
      PROVE  Owners' /\ Owned'
  <2>1. Owners'
    BY <1>14 DEF BInv, Owners, Ops
  <2>2. Owned'
    BY <1>14 DEF BInv, Owned
  <2> QED
    BY <2>1, <2>2
<1>15. ASSUME UNCHANGED <<copy, saved, typed, atStake>>
      PROVE  Numbers'
  BY <1>15 DEF BInv, Numbers
<1>16. ASSUME UNCHANGED <<copy, saved, file, known, window, typed>>
      PROVE  DatedFile'
  BY <1>16 DEF BInv, DatedFile, Readable
<1>17. ASSUME UNCHANGED <<copy, saved, queue, typed>>
      PROVE  DatedQueue'
  BY <1>17 DEF BInv, DatedQueue, Ops
<1>18. ASSUME UNCHANGED <<copy, queue, lapses>>
      PROVE  QueueBefore' /\ QueueSame' /\ QueueStays'
  <2>1. QueueBefore'
    BY <1>18 DEF BInv, QueueBefore, Ops, Steady
  <2>2. QueueSame'
    BY <1>18 DEF BInv, QueueSame, Ops, Steady
  <2>3. QueueStays'
    BY <1>18 DEF BInv, QueueStays, Ops, Steady
  <2> QED
    BY <2>1, <2>2, <2>3
<1>19. ASSUME UNCHANGED <<copy, known, lapses>>
      PROVE  CacheBefore'
  BY <1>19 DEF BInv, CacheBefore, Steady
<1>20. ASSUME UNCHANGED <<queue, lapses>>
      PROVE  QueueInOrder'
  BY <1>20 DEF BInv, QueueInOrder, Ops, Steady
<1>21. ASSUME UNCHANGED <<queue, known, lapses>>
      PROVE  CacheInOrder'
  BY <1>21 DEF BInv, CacheInOrder, Ops, Steady
<1>22. ASSUME UNCHANGED <<copy, queue, known, closing, lapses>>
      PROVE  SnapBefore'
  BY <1>22 DEF BInv, SnapBefore, Ops, Steady
<1>23. ASSUME UNCHANGED <<copy, file, known, lapses>>
      PROVE  CacheSame'
  BY <1>23 DEF BInv, CacheSame, Cached, Steady, Readable
<1>24. ASSUME UNCHANGED <<copy, saved, queue, lapses>>
      PROVE  QueueHolds'
  BY <1>24 DEF BInv, QueueHolds, Ops, Steady
<1>25. ASSUME UNCHANGED <<copy, saved, known, lapses>>
      PROVE  CacheMeta'
  BY <1>25 DEF BInv, CacheMeta, Cached, Steady
<1>26. ASSUME UNCHANGED <<copy, saved, file, known, lapses>>
      PROVE  CacheHolds'
  BY <1>26 DEF BInv, CacheHolds, Cached, Steady, Readable
<1>27. ASSUME UNCHANGED <<copy, queue, known, lapses>>
      PROVE  CacheStays'
  BY <1>27 DEF BInv, CacheStays, Ops, Cached, Steady
<1>28. ASSUME UNCHANGED <<copy, saved, pending, suspended, queue, window, lapses>>
      PROVE  ModifiedQueued'
  BY <1>28 DEF BInv, ModifiedQueued
<1>29. ASSUME UNCHANGED <<copy, saved, pending, suspended, known, window, lapses>>
      PROVE  ModifiedStored'
  BY <1>29 DEF BInv, ModifiedStored
<1>30. ASSUME UNCHANGED <<copy, pending, suspended, queue, window, lapses>>
      PROVE  CleanQueued'
  BY <1>30 DEF BInv, CleanQueued
<1>31. ASSUME UNCHANGED <<copy, pending, suspended, queue, file, window, lapses>>
      PROVE  CleanDiscarded'
  BY <1>31 DEF BInv, CleanDiscarded, Readable
<1>32. ASSUME UNCHANGED <<copy, saved, window, atStake>>
      PROVE  StakeModified'
  BY <1>32 DEF BInv, StakeModified
<1>33. ASSUME UNCHANGED <<saved, queue, closing, lapses, atStake>>
      PROVE  SnapAsked' /\ SnapStays' /\ StoreAsked' /\ StoreStays'
  <2>1. SnapAsked'
    BY <1>33 DEF BInv, SnapAsked, Ops, AtStake
  <2>2. SnapStays'
    BY <1>33 DEF BInv, SnapStays, Ops, AtStake
  <2>3. StoreAsked'
    BY <1>33 DEF BInv, StoreAsked, Ops, AtStake
  <2>4. StoreStays'
    BY <1>33 DEF BInv, StoreStays, Ops, AtStake
  <2> QED
    BY <2>1, <2>2, <2>3, <2>4
<1>34. ASSUME UNCHANGED <<saved, queue, file, known, closing, lapses, atStake>>
      PROVE  SnapKept' /\ StoreKept'
  <2>1. SnapKept'
    BY <1>34 DEF BInv, SnapKept, Ops, Cached, AtStake, Readable
  <2>2. StoreKept'
    BY <1>34 DEF BInv, StoreKept, Ops, Cached, AtStake, Readable
  <2> QED
    BY <2>1, <2>2
<1>35. ASSUME UNCHANGED <<saved, queue, file, closing, lapses, atStake>>
      PROVE  DoneSecured'
  BY <1>35 DEF BInv, DoneSecured, AtStake, Readable
<1>36. ASSUME UNCHANGED <<saved, closing, lapses, atStake>>
      PROVE  NotDiscarding'
  BY <1>36 DEF BInv, NotDiscarding, AtStake
<1>37. ASSUME UNCHANGED <<saved, queue, file, window, lapses, atStake>>
      PROVE  AcceptSecured'
  BY <1>37 DEF BInv, AcceptSecured, AtStake, Secured, Ops, Readable
<1>38. ASSUME UNCHANGED <<saved, file, window, lapses, atStake>>
      PROVE  GoneSecured'
  BY <1>38 DEF BInv, GoneSecured, AtStake, Readable
<1> QED
  BY <1>1, <1>2, <1>3, <1>4, <1>5, <1>6, <1>7, <1>8, <1>9, <1>10, <1>11, <1>12, <1>13,
     <1>14, <1>15, <1>16, <1>17, <1>18, <1>19, <1>20, <1>21, <1>22, <1>23, <1>24, <1>25,
     <1>26, <1>27, <1>28, <1>29, <1>30, <1>31, <1>32, <1>33, <1>34, <1>35, <1>36, <1>37,
     <1>38

\* Skip keeps the invariant.
LEMMA SkipStep ==
  ASSUME BInv, SkipCase
  PROVE  BInv'
<1>fields.
      /\ copy.content \in Nat /\ copy.version \in Nat
      /\ copy.modified \in BOOLEAN /\ copy.registered \in BOOLEAN
      /\ Len(queue) \in Nat
      /\ OpFacts
  BY Fields DEF BInv
<1>empty. (queue # <<>> <=> Len(queue) > 0) /\ Ops = DOMAIN queue
  BY Fields DEF BInv
<1>guard.
      /\ Len(queue) > 0
      /\ ~Started(queue, 1)
      /\ IsNothing(queue, 1) \/ (IsBackup(queue, 1) /\ Has(Version(queue, 1), Meta(queue, 1)))
  BY <1>empty DEF SkipCase, StartOp, Settles, IsBackup, IsNothing, Version, Meta, Started
<1>pos. Len(queue) > 0
  BY <1>guard
<1>one. 1 \in Ops
  BY <1>fields, <1>pos DEF Ops
<1>pending. pending' = IF Owner(queue, 1) = "tracker" THEN "none" ELSE pending
  BY <1>empty DEF SkipCase, StartOp, Settles, IsBackup, IsNothing, Version, Meta, Owner
<1>closing. closing' = IF Owner(queue, 1) = "closing" THEN [stage |-> "done"] ELSE closing
  BY <1>empty DEF SkipCase, StartOp, Settles, IsBackup, IsNothing, Version, Meta, Owner
<1>same. UNCHANGED <<copy, saved, suspended, file, known, window, typed, events, lapses,
                     atStake>>
  BY <1>empty DEF SkipCase, StartOp, Settles, IsBackup, IsNothing, Version, Meta
<1>calls. queue' = Tail(queue)
  BY <1>empty DEF SkipCase, StartOp, Settles, IsBackup, IsNothing, Version, Meta
<1>e1. queue' \in Seq(Op) /\ Shorter
  BY <1>guard, <1>calls, TailFacts DEF BInv
<1>after. Len(queue') \in Nat /\ Shorter
  BY <1>fields, <1>e1
<1>frame. /\ CopyType' /\ NumberTypes' /\ FlagType' /\ WindowType' /\ LapsesType'
           /\ FileType' /\ KnownType' /\ FileCached' /\ Numbers' /\ DatedFile'
           /\ CacheBefore' /\ CacheSame' /\ CacheMeta' /\ CacheHolds' /\ StakeModified'
           /\ GoneSecured'
  BY <1>same, BackupFrames
<1>QueueType. QueueType'
  BY <1>e1 DEF BInv, QueueType
<1>HeadOnly. HeadOnly'
  BY <1>after DEF BInv, HeadOnly, Ops, Shorter, SameOp
<1>PendingType. PendingType'
  BY <1>pending DEF BInv, PendingType
<1>ClosingType. ClosingType'
  BY <1>closing DEF BInv, ClosingType
<1>NeverBoth. NeverBoth'
  BY <1>after
     DEF BInv, NeverBoth, Known, HeadOnly, Partial, ShutdownStages, Shorter, OpFacts,
         SameWork, SameOp
<1>NothingStarts. NothingStarts'
  BY <1>after DEF BInv, NothingStarts, Ops, Shorter, SameWork, SameOp
<1>ShutdownStages. ShutdownStages'
  BY <1>guard, <1>one, <1>pending, <1>closing, <1>same, <1>after
     DEF BInv, ShutdownStages, FlagType, Owners, NothingStarts, ClosingType
<1>Owners. Owners'
  BY <1>pending, <1>closing, <1>after
     DEF BInv, Owners, Ops, HeadOnly, Shorter, Has, OpFacts, SameWork, SameOp, Known
<1>Owned. Owned'
  BY <1>pending, <1>closing, <1>after
     DEF BInv, Owned, HeadOnly, Ops, Shorter, Has, OpFacts, SameWork, SameOp, Known
<1>DatedQueue. DatedQueue'
  BY <1>same, <1>after DEF BInv, DatedQueue, Ops, Shorter, Has, OpFacts, SameWork, SameOp
<1>QueueBefore. QueueBefore'
  BY <1>same, <1>after
     DEF BInv, QueueBefore, Ops, Steady, NumberTypes, HeadOnly, Shorter, Has, OpFacts,
         SameWork, SameOp, Known
<1>QueueInOrder. QueueInOrder'
  BY <1>same, <1>after
     DEF BInv, QueueInOrder, Ops, Steady, NumberTypes, HeadOnly, Shorter, Has, OpFacts,
         SameWork, SameOp, Known
<1>CacheInOrder. CacheInOrder'
  BY <1>one, <1>same, <1>after
     DEF BInv, CacheInOrder, Ops, Steady, NumberTypes, SnapBefore, Shorter, SameWork,
         SameOp, Known
<1>SnapBefore. SnapBefore'
  BY <1>one, <1>closing, <1>same, <1>after
     DEF BInv, SnapBefore, Ops, Steady, Shorter, Has, OpFacts, SameWork, SameOp, Known
<1>QueueSame. QueueSame'
  BY <1>same, <1>after
     DEF BInv, QueueSame, Ops, Steady, Shorter, Has, OpFacts, SameWork, SameOp
<1>QueueHolds. QueueHolds'
  BY <1>same, <1>after
     DEF BInv, QueueHolds, Ops, Steady, NumberTypes, HeadOnly, Shorter, Has, OpFacts,
         SameWork, SameOp, Known
<1>CacheStays. CacheStays'
  BY <1>one, <1>same, <1>after
     DEF BInv, CacheStays, Ops, Cached, Steady, Shorter, Has, OpFacts, SameWork, SameOp,
         Known
<1>QueueStays. QueueStays'
  BY <1>same, <1>after
     DEF BInv, QueueStays, Ops, Steady, NumberTypes, HeadOnly, QueueBefore, ShutdownStages,
         Shorter, Has, OpFacts, SameWork, SameOp, Known
<1>ModifiedQueued. ModifiedQueued'
  BY <1>one, <1>pending, <1>same, <1>after
     DEF BInv, ModifiedQueued, Owners, Owned, Shorter, Has, OpFacts, SameWork, SameOp, Known
<1>ModifiedStored. ModifiedStored'
  BY <1>fields, <1>guard, <1>one, <1>pending, <1>same
     DEF BInv, ModifiedStored, None, ShutdownStages, Owners, Ops, Owned, ModifiedQueued,
         CacheStays, Cached, Readable, NothingStarts, Has, OpFacts
<1>CleanQueued. CleanQueued'
  BY <1>one, <1>pending, <1>same, <1>after
     DEF BInv, CleanQueued, Owners, Owned, Shorter, Has, OpFacts, SameWork, SameOp, Known
<1>CleanDiscarded. CleanDiscarded'
  BY <1>fields, <1>guard, <1>one, <1>pending, <1>same, <1>after
     DEF BInv, CleanDiscarded, Readable, NumberTypes, ShutdownStages, Owners, Owned,
         CleanQueued, Shorter, Has, OpFacts, SameWork
<1>SnapAsked. SnapAsked'
  BY <1>one, <1>closing, <1>same, <1>after
     DEF BInv, SnapAsked, Ops, AtStake, Shorter, Has, OpFacts, SameWork, SameOp, Known
<1>SnapKept. SnapKept'
  BY <1>one, <1>closing, <1>same, <1>after
     DEF BInv, SnapKept, Ops, Cached, AtStake, Readable, CacheInOrder, Shorter, Has,
         OpFacts, SameWork, SameOp, Known
<1>SnapStays. SnapStays'
  BY <1>one, <1>closing, <1>same, <1>after
     DEF BInv, SnapStays, Ops, AtStake, NumberTypes, HeadOnly, ClosingType, KnownType, None,
         Partial, FileType, ShutdownStages, Shorter, Has, OpFacts, SameWork, SameOp, Known
<1>StoreAsked. StoreAsked'
  BY <1>one, <1>closing, <1>same, <1>after
     DEF BInv, StoreAsked, Ops, AtStake, Shorter, Has, OpFacts, SameWork, SameOp, Known
<1>StoreKept. StoreKept'
  BY <1>closing, <1>same, <1>after
     DEF BInv, StoreKept, Ops, Cached, AtStake, Readable, Owners, Owned, Shorter, Has,
         OpFacts, SameWork, SameOp, Known
<1>StoreStays. StoreStays'
  BY <1>one, <1>closing, <1>same, <1>after, Z3T(10)
     DEF BInv, StoreStays, Ops, AtStake, Shorter, Has, OpFacts, SameWork, SameOp, Known
<1>DoneSecured. DoneSecured'
  BY <1>fields, <1>guard, <1>one, <1>closing, <1>same, <1>after
     DEF BInv, DoneSecured, AtStake, Readable, NumberTypes, HeadOnly, Ops, ClosingType,
         SnapKept, Cached, SnapStays, StoreAsked, StoreKept, StoreStays, Owners, Owned,
         NeverBoth, Has, Known, SnapBefore, Steady, NothingStarts, NotDiscarding, Shorter,
         OpFacts, SameWork
<1>NotDiscarding. NotDiscarding'
  BY <1>closing, <1>same DEF BInv, NotDiscarding, AtStake
<1>AcceptSecured. AcceptSecured'
  BY <1>fields, <1>guard, <1>one, <1>same, <1>after
     DEF BInv, AcceptSecured, AtStake, Secured, Ops, Readable, NotDiscarding, Shorter,
         OpFacts, SameWork, SameOp
<1> QED
  BY <1>frame, <1>QueueType, <1>HeadOnly, <1>PendingType, <1>ClosingType, <1>NeverBoth,
     <1>NothingStarts, <1>ShutdownStages, <1>Owners, <1>Owned, <1>DatedQueue,
     <1>QueueBefore, <1>QueueInOrder, <1>CacheInOrder, <1>SnapBefore, <1>QueueSame,
     <1>QueueHolds, <1>CacheStays, <1>QueueStays, <1>ModifiedQueued, <1>ModifiedStored,
     <1>CleanQueued, <1>CleanDiscarded, <1>SnapAsked, <1>SnapKept, <1>SnapStays,
     <1>StoreAsked, <1>StoreKept, <1>StoreStays, <1>DoneSecured, <1>NotDiscarding,
     <1>AcceptSecured
  DEF BInv

\* Start keeps the invariant.
LEMMA StartStep ==
  ASSUME BInv, StartCase
  PROVE  BInv'
<1>fields.
      /\ copy.content \in Nat /\ copy.version \in Nat
      /\ copy.modified \in BOOLEAN /\ copy.registered \in BOOLEAN
      /\ Len(queue) \in Nat
      /\ OpFacts
  BY Fields DEF BInv
<1>empty. (queue # <<>> <=> Len(queue) > 0) /\ Ops = DOMAIN queue
  BY Fields DEF BInv
<1>guard.
      /\ Len(queue) > 0
      /\ ~Started(queue, 1)
      /\ ~(IsNothing(queue, 1) \/ (IsBackup(queue, 1) /\ Has(Version(queue, 1), Meta(queue, 1))))
  BY <1>empty DEF StartCase, StartOp, IsBackup, IsNothing, Version, Meta, Started
<1>pos. Len(queue) > 0
  BY <1>guard
<1>one. 1 \in Ops
  BY <1>fields, <1>pos DEF Ops
<1>file. file' = IF IsBackup(queue, 1) THEN Partial ELSE file
  BY <1>empty DEF StartCase, StartOp, IsBackup, IsNothing, Version, Meta
<1>same. UNCHANGED <<copy, saved, pending, suspended, known, closing, window, typed,
                     events, lapses, atStake>>
  BY <1>empty DEF StartCase, StartOp, IsBackup, IsNothing, Version, Meta
<1>calls. queue' = [queue EXCEPT ![1].started = TRUE]
  BY <1>empty DEF StartCase, StartOp, IsBackup, IsNothing, Version, Meta
<1>e1.
      /\ queue' \in Seq(Op) /\ Len(queue') = Len(queue)
      /\ Started(queue', 1)
      /\ \A i \in Ops : i # 1 => (Started(queue', i) <=> Started(queue, i))
      /\ \A i \in Ops : SameWork(queue', i, queue, i) /\ Owner(queue', i) = Owner(queue, i)
  BY <1>guard, <1>calls, StartedFacts DEF BInv
<1>after.
      /\ Len(queue') \in Nat /\ Len(queue') = Len(queue)
      /\ Started(queue', 1)
      /\ \A i \in Ops : i # 1 => (Started(queue', i) <=> Started(queue, i))
      /\ \A i \in Ops : SameWork(queue', i, queue, i) /\ Owner(queue', i) = Owner(queue, i)
  BY <1>fields, <1>e1
<1>frame. /\ CopyType' /\ NumberTypes' /\ PendingType' /\ FlagType' /\ WindowType'
           /\ LapsesType' /\ KnownType' /\ ClosingType' /\ Numbers' /\ CacheBefore'
           /\ CacheMeta' /\ ModifiedStored' /\ StakeModified' /\ NotDiscarding'
  BY <1>same, BackupFrames
<1>QueueType. QueueType'
  BY <1>e1 DEF BInv, QueueType
<1>HeadOnly. HeadOnly'
  BY <1>after DEF BInv, HeadOnly, Ops
<1>FileType. FileType'
  BY <1>file DEF BInv, FileType
<1>FileCached. FileCached'
  BY <1>file, <1>same DEF BInv, FileCached, None, Partial, FileType
<1>NeverBoth. NeverBoth'
  BY <1>guard, <1>one, <1>file, <1>same, <1>after
     DEF BInv, NeverBoth, Readable, Has, Known, None, Partial, ShutdownStages, SameWork,
         OpFacts
<1>NothingStarts. NothingStarts'
  BY <1>guard, <1>after DEF BInv, NothingStarts, Ops, SameWork
<1>ShutdownStages. ShutdownStages'
  BY <1>same, <1>after DEF BInv, ShutdownStages
<1>Owners. Owners'
  BY <1>same, <1>after DEF BInv, Owners, Ops, SameWork, Has
<1>Owned. Owned'
  BY <1>same, <1>after DEF BInv, Owned, HeadOnly, Ops, NothingStarts, SameWork, Has
<1>DatedFile. DatedFile'
  BY <1>file, <1>same DEF BInv, DatedFile, Readable, Partial
<1>DatedQueue. DatedQueue'
  BY <1>same, <1>after DEF BInv, DatedQueue, Ops, SameWork, Has
<1>QueueBefore. QueueBefore'
  BY <1>same, <1>after
     DEF BInv, QueueBefore, Ops, Steady, NumberTypes, HeadOnly, SameWork, Has, OpFacts
<1>QueueInOrder. QueueInOrder'
  BY <1>same, <1>after
     DEF BInv, QueueInOrder, Ops, Steady, NumberTypes, HeadOnly, SameWork, Has, OpFacts
<1>CacheInOrder. CacheInOrder'
  BY <1>same, <1>after
     DEF BInv, CacheInOrder, Ops, Steady, ShutdownStages, SnapBefore, SameWork, Has
<1>SnapBefore. SnapBefore'
  BY <1>same, <1>after DEF BInv, SnapBefore, Ops, Steady, SameWork
<1>QueueSame. QueueSame'
  BY <1>same, <1>after
     DEF BInv, QueueSame, Ops, Steady, NumberTypes, HeadOnly, Numbers, ShutdownStages,
         SameWork
<1>CacheSame. CacheSame'
  BY <1>file, <1>same
     DEF BInv, CacheSame, Cached, Steady, Readable, NumberTypes, KnownType, None, Partial
<1>QueueHolds. QueueHolds'
  BY <1>same, <1>after
     DEF BInv, QueueHolds, Ops, Steady, NumberTypes, HeadOnly, SameWork, Has, OpFacts
<1>CacheHolds. CacheHolds'
  BY <1>fields, <1>guard, <1>file, <1>same
     DEF BInv, CacheHolds, Cached, Steady, Readable, NumberTypes, KnownType, None, Partial,
         FileType, CacheBefore, CacheInOrder, Ops, QueueHolds, QueueBefore, Has, OpFacts,
         Known
<1>CacheStays. CacheStays'
  BY <1>same, <1>after
     DEF BInv, CacheStays, Ops, Cached, Steady, NumberTypes, ShutdownStages, SameWork, Has
<1>QueueStays. QueueStays'
  BY <1>same, <1>after
     DEF BInv, QueueStays, Ops, Steady, NumberTypes, ShutdownStages, SameWork
<1>ModifiedQueued. ModifiedQueued'
  BY <1>same, <1>after
     DEF BInv, ModifiedQueued, HeadOnly, Ops, FlagType, Owners, Owned, SameWork
<1>CleanQueued. CleanQueued'
  BY <1>same, <1>after
     DEF BInv, CleanQueued, HeadOnly, Ops, FlagType, Owners, Owned, SameWork
<1>CleanDiscarded. CleanDiscarded'
  BY <1>guard, <1>same DEF BInv, CleanDiscarded
<1>SnapAsked. SnapAsked'
  BY <1>same, <1>after DEF BInv, SnapAsked, Ops, AtStake, SameWork
<1>SnapKept. SnapKept'
  BY <1>fields, <1>guard, <1>one, <1>file, <1>same, <1>after
     DEF BInv, SnapKept, Ops, Cached, AtStake, Readable, NumberTypes, HeadOnly, ClosingType,
         KnownType, None, Partial, FileType, ShutdownStages, SnapAsked, SnapStays,
         SnapBefore, Steady, CacheInOrder, SameWork, Has, OpFacts, Known
<1>SnapStays. SnapStays'
  BY <1>same, <1>after DEF BInv, SnapStays, Ops, AtStake, SameWork
<1>StoreAsked. StoreAsked'
  BY <1>same, <1>after DEF BInv, StoreAsked, Ops, AtStake, Owners, Owned, SameWork, Has
<1>StoreKept. StoreKept'
  BY <1>fields, <1>guard, <1>same, <1>after
     DEF BInv, StoreKept, Ops, Cached, AtStake, Readable, NumberTypes, HeadOnly,
         ClosingType, KnownType, None, Partial, FileType, ShutdownStages, StoreAsked,
         StoreStays, CacheInOrder, Steady, SameWork, Has, OpFacts, Known
<1>StoreStays. StoreStays'
  BY <1>same, <1>after DEF BInv, StoreStays, Ops, AtStake, Owners, Owned, SameWork, Has
<1>DoneSecured. DoneSecured'
  BY <1>guard, <1>same, <1>after DEF BInv, DoneSecured, AtStake, Readable, NumberTypes
<1>AcceptSecured. AcceptSecured'
  BY <1>fields, <1>guard, <1>one, <1>file, <1>same, <1>after
     DEF BInv, AcceptSecured, AtStake, Secured, Ops, NothingStarts, NotDiscarding, SameWork
<1>GoneSecured. GoneSecured'
  BY <1>guard, <1>same DEF BInv, GoneSecured, AtStake, FileType, ShutdownStages
<1> QED
  BY <1>frame, <1>QueueType, <1>HeadOnly, <1>FileType, <1>FileCached, <1>NeverBoth,
     <1>NothingStarts, <1>ShutdownStages, <1>Owners, <1>Owned, <1>DatedFile, <1>DatedQueue,
     <1>QueueBefore, <1>QueueInOrder, <1>CacheInOrder, <1>SnapBefore, <1>QueueSame,
     <1>CacheSame, <1>QueueHolds, <1>CacheHolds, <1>CacheStays, <1>QueueStays,
     <1>ModifiedQueued, <1>CleanQueued, <1>CleanDiscarded, <1>SnapAsked, <1>SnapKept,
     <1>SnapStays, <1>StoreAsked, <1>StoreKept, <1>StoreStays, <1>DoneSecured,
     <1>AcceptSecured, <1>GoneSecured
  DEF BInv

\* FinishWell keeps the invariant.
LEMMA FinishWellStep ==
  ASSUME BInv, FinishWellCase
  PROVE  BInv'
<1>fields.
      /\ copy.content \in Nat /\ copy.version \in Nat
      /\ copy.modified \in BOOLEAN /\ copy.registered \in BOOLEAN
      /\ Len(queue) \in Nat
      /\ OpFacts
  BY Fields DEF BInv
<1>empty. (queue # <<>> <=> Len(queue) > 0) /\ Ops = DOMAIN queue
  BY Fields DEF BInv
<1>guard.
      /\ Len(queue) > 0
      /\ Started(queue, 1)
  BY <1>empty
  DEF FinishWellCase, FinishOp, Settles, IsBackup, Owner, Content, Version, Meta, Started
<1>pos. Len(queue) > 0
  BY <1>guard
<1>one. 1 \in Ops
  BY <1>fields, <1>pos DEF Ops
<1>pending. pending' = IF Owner(queue, 1) = "tracker" THEN "none" ELSE pending
  BY <1>empty DEF FinishWellCase, FinishOp, Settles, IsBackup, Owner, Content, Version, Meta
<1>same.
      /\ UNCHANGED <<copy, saved, suspended, window, typed, atStake>>
      /\ events' = events
      /\ lapses' = lapses
  BY <1>empty DEF FinishWellCase, FinishOp, Settles, IsBackup, Owner, Content, Version, Meta
<1>file. file' = IF IsBackup(queue, 1) THEN Stored(Content(queue, 1), Meta(queue, 1)) ELSE None
  BY <1>empty DEF FinishWellCase, FinishOp, Settles, IsBackup, Owner, Content, Version, Meta
<1>known. known' = IF IsBackup(queue, 1) THEN Known(Version(queue, 1), Meta(queue, 1)) ELSE None
  BY <1>empty DEF FinishWellCase, FinishOp, Settles, IsBackup, Owner, Content, Version, Meta
<1>closing. closing' = IF Owner(queue, 1) = "closing" THEN [stage |-> "done"] ELSE closing
  BY <1>empty DEF FinishWellCase, FinishOp, Settles, IsBackup, Owner, Content, Version, Meta
<1>calls. queue' = Tail(queue)
  BY <1>empty DEF FinishWellCase, FinishOp, Settles, IsBackup, Owner, Content, Version, Meta
<1>e1. queue' \in Seq(Op) /\ Shorter
  BY <1>guard, <1>calls, TailFacts DEF BInv
<1>after. Len(queue') \in Nat /\ Shorter
  BY <1>fields, <1>e1
<1>frame. /\ CopyType' /\ NumberTypes' /\ FlagType' /\ WindowType' /\ LapsesType'
           /\ Numbers' /\ StakeModified'
  BY <1>same, BackupFrames
<1>QueueType. QueueType'
  BY <1>e1 DEF BInv, QueueType
<1>HeadOnly. HeadOnly'
  BY <1>after DEF BInv, HeadOnly, Ops, Shorter, SameOp
<1>PendingType. PendingType'
  BY <1>pending DEF BInv, PendingType
<1>FileType. FileType'
  BY <1>fields, <1>guard, <1>file DEF BInv, FileType, Stored, OpFacts, Ops
<1>KnownType. KnownType'
  BY <1>fields, <1>guard, <1>known DEF BInv, KnownType, Known, OpFacts, Ops
<1>ClosingType. ClosingType'
  BY <1>closing DEF BInv, ClosingType
<1>FileCached. FileCached'
  BY <1>file, <1>known DEF BInv, FileCached, None, Partial, Stored, Known
<1>NeverBoth. NeverBoth'
  BY <1>after
     DEF BInv, NeverBoth, Known, HeadOnly, Ops, ShutdownStages, Shorter, Stored, OpFacts,
         SameWork, SameOp
<1>NothingStarts. NothingStarts'
  BY <1>after DEF BInv, NothingStarts, Ops, Shorter, SameWork, SameOp
<1>ShutdownStages. ShutdownStages'
  BY <1>fields, <1>one, <1>pending, <1>same, <1>closing, <1>after
     DEF BInv, ShutdownStages, FlagType, Owners, NothingStarts, ClosingType, Shorter,
         OpFacts, SameWork, SameOp
<1>Owners. Owners'
  BY <1>pending, <1>closing, <1>after
     DEF BInv, Owners, Ops, HeadOnly, Shorter, OpFacts, SameWork, SameOp
<1>Owned. Owned'
  BY <1>pending, <1>closing, <1>after
     DEF BInv, Owned, HeadOnly, Ops, Shorter, OpFacts, SameWork, SameOp
<1>DatedFile. DatedFile'
  BY <1>one, <1>same, <1>file, <1>known
     DEF BInv, DatedFile, Readable, NumberTypes, FileType, None, Partial, KnownType,
         Numbers, DatedQueue, Ops, Stored, Known, OpFacts
<1>DatedQueue. DatedQueue'
  BY <1>same, <1>after DEF BInv, DatedQueue, Ops, Shorter, OpFacts, SameWork, SameOp
<1>QueueBefore. QueueBefore'
  BY <1>same, <1>after
     DEF BInv, QueueBefore, Ops, Steady, NumberTypes, HeadOnly, Shorter, OpFacts, SameWork,
         SameOp
<1>CacheBefore. CacheBefore'
  BY <1>one, <1>same, <1>known
     DEF BInv, CacheBefore, Steady, None, Partial, QueueBefore, Ops, FileType, Known
<1>QueueInOrder. QueueInOrder'
  BY <1>same, <1>after
     DEF BInv, QueueInOrder, Ops, Steady, NumberTypes, HeadOnly, Shorter, OpFacts, SameWork,
         SameOp
<1>CacheInOrder. CacheInOrder'
  BY <1>one, <1>same, <1>known, <1>after
     DEF BInv, CacheInOrder, Ops, Steady, NumberTypes, HeadOnly, KnownType, None, Partial,
         QueueBefore, CacheBefore, QueueInOrder, ShutdownStages, SnapBefore, Shorter, Known,
         OpFacts, SameWork, SameOp
<1>SnapBefore. SnapBefore'
  BY <1>one, <1>same, <1>known, <1>closing, <1>after
     DEF BInv, SnapBefore, Ops, Steady, NumberTypes, HeadOnly, ClosingType, KnownType, None,
         Partial, CacheBefore, ShutdownStages, Shorter, Known, OpFacts, SameWork, SameOp
<1>QueueSame. QueueSame'
  BY <1>same, <1>after
     DEF BInv, QueueSame, Ops, Steady, NumberTypes, HeadOnly, Numbers, ShutdownStages,
         Shorter, OpFacts, SameWork, SameOp
<1>CacheSame. CacheSame'
  BY <1>one, <1>same, <1>file, <1>known
     DEF BInv, CacheSame, Cached, Steady, Readable, NumberTypes, KnownType, None, Ops,
         QueueSame, Numbers, Stored, Known, OpFacts
<1>QueueHolds. QueueHolds'
  BY <1>same, <1>after
     DEF BInv, QueueHolds, Ops, Steady, NumberTypes, HeadOnly, Shorter, OpFacts, SameWork,
         SameOp
<1>CacheMeta. CacheMeta'
  BY <1>one, <1>same, <1>known
     DEF BInv, CacheMeta, Cached, Steady, NumberTypes, KnownType, None, Partial,
         CacheBefore, QueueHolds, Ops, DatedFile, Readable, FileType, Known
<1>CacheHolds. CacheHolds'
  BY <1>file, <1>known
     DEF BInv, CacheHolds, Cached, Steady, Readable, NumberTypes, KnownType, None, Ops,
         QueueHolds, QueueBefore, Stored
<1>CacheStays. CacheStays'
  BY <1>one, <1>same, <1>known, <1>after
     DEF BInv, CacheStays, Ops, Cached, Steady, NumberTypes, HeadOnly, KnownType, None,
         Partial, CacheBefore, QueueStays, ShutdownStages, Shorter, Known, OpFacts,
         SameWork, SameOp
<1>QueueStays. QueueStays'
  BY <1>same, <1>after
     DEF BInv, QueueStays, Ops, Steady, NumberTypes, ShutdownStages, Shorter, OpFacts,
         SameWork, SameOp
<1>ModifiedQueued. ModifiedQueued'
  BY <1>one, <1>pending, <1>same, <1>after
     DEF BInv, ModifiedQueued, Owners, Owned, Shorter, OpFacts, SameWork, SameOp
<1>ModifiedStored. ModifiedStored'
  BY <1>fields, <1>guard, <1>one, <1>pending, <1>same, <1>known
     DEF BInv, ModifiedStored, Known, NumberTypes, FlagType, PendingType, Owners, Ops,
         Owned, ModifiedQueued, CacheStays, Cached, Steady, CacheInOrder, QueueHolds,
         QueueBefore, DatedFile, Readable, NothingStarts, OpFacts
<1>CleanQueued. CleanQueued'
  BY <1>one, <1>pending, <1>same, <1>after
     DEF BInv, CleanQueued, Owners, Owned, Shorter, OpFacts, SameWork, SameOp
<1>CleanDiscarded. CleanDiscarded'
  BY <1>fields, <1>guard, <1>one, <1>pending, <1>same, <1>file, <1>after
     DEF BInv, CleanDiscarded, Readable, PendingType, KnownType, None, Partial, FileType,
         ShutdownStages, Owners, Owned, CleanQueued, Shorter, Stored, OpFacts
<1>SnapAsked. SnapAsked'
  BY <1>fields, <1>guard, <1>one, <1>same, <1>closing, <1>after, SMTT(10), Z3T(10)
     DEF BInv, SnapAsked, Ops, AtStake, NumberTypes, HeadOnly, ClosingType, KnownType, None,
         Partial, FileType, ShutdownStages, Shorter, OpFacts, SameWork, SameOp
<1>SnapKept. SnapKept'
  BY <1>one, <1>same, <1>file, <1>known, <1>closing, <1>after
     DEF BInv, SnapKept, Ops, Cached, AtStake, Readable, NumberTypes, HeadOnly, ClosingType,
         KnownType, None, Partial, FileType, ShutdownStages, SnapAsked, SnapStays,
         SnapBefore, Steady, CacheInOrder, Shorter, Stored, Known, OpFacts, SameWork, SameOp
<1>SnapStays. SnapStays'
  <2>1. SUFFICES ASSUME AtStake', closing'.stage = "snapshot", NEW i \in Ops', NEW j \in Ops',
                        IsBackup(queue', i), IsDiscard(queue', j), i <= j
                 PROVE  Version(queue', i) # closing'.version
    BY DEF SnapStays
  <2>2. AtStake /\ closing' = closing
    BY <2>1, <1>same, <1>closing DEF AtStake
  <2>3. /\ i + 1 \in Ops /\ j + 1 \in Ops /\ i + 1 <= j + 1
        /\ SameOp(queue', i, queue, i + 1) /\ SameOp(queue', j, queue, j + 1)
    BY <2>1, <1>fields, <1>after DEF Ops, Shorter
  <2> QED
    BY <2>1, <2>2, <2>3 DEF BInv, SnapStays, SameWork, SameOp
<1>StoreAsked. StoreAsked'
  BY <1>same, <1>closing, <1>after
     DEF BInv, StoreAsked, Ops, AtStake, Owned, Shorter, OpFacts, SameWork, SameOp
<1>StoreKept. StoreKept'
  BY <1>one, <1>same, <1>file, <1>known, <1>closing, <1>after
     DEF BInv, StoreKept, Ops, Cached, AtStake, Readable, NumberTypes, HeadOnly,
         ClosingType, KnownType, None, Partial, FileType, ShutdownStages, StoreAsked,
         StoreStays, CacheInOrder, Steady, Shorter, Stored, Known, OpFacts, SameWork, SameOp
<1>StoreStays. StoreStays'
  BY <1>one, <1>same, <1>closing, <1>after
     DEF BInv, StoreStays, Ops, AtStake, Shorter, OpFacts, SameWork, SameOp
<1>DoneSecured. DoneSecured'
  BY <1>fields, <1>guard, <1>one, <1>same, <1>file, <1>closing, <1>after
     DEF BInv, DoneSecured, AtStake, Readable, NumberTypes, HeadOnly, Ops, SnapAsked,
         SnapKept, Cached, SnapStays, StoreAsked, StoreKept, StoreStays, Owners, Owned,
         NeverBoth, Has, Known, SnapBefore, Steady, NothingStarts, NotDiscarding, Shorter,
         Stored, OpFacts, SameWork, SameOp
<1>NotDiscarding. NotDiscarding'
  BY <1>same, <1>closing DEF BInv, NotDiscarding, AtStake
<1>AcceptSecured. AcceptSecured'
  BY <1>fields, <1>guard, <1>one, <1>same, <1>file, <1>after
     DEF BInv, AcceptSecured, AtStake, Secured, Ops, Readable, NumberTypes, HeadOnly, Has,
         Known, NothingStarts, NotDiscarding, Shorter, Stored, OpFacts, SameWork, SameOp
<1>GoneSecured. GoneSecured'
  BY <1>guard, <1>same DEF BInv, GoneSecured, AtStake, FileType, ShutdownStages
<1> QED
  BY <1>frame, <1>QueueType, <1>HeadOnly, <1>PendingType, <1>FileType, <1>KnownType,
     <1>ClosingType, <1>FileCached, <1>NeverBoth, <1>NothingStarts, <1>ShutdownStages,
     <1>Owners, <1>Owned, <1>DatedFile, <1>DatedQueue, <1>QueueBefore, <1>CacheBefore,
     <1>QueueInOrder, <1>CacheInOrder, <1>SnapBefore, <1>QueueSame, <1>CacheSame,
     <1>QueueHolds, <1>CacheMeta, <1>CacheHolds, <1>CacheStays, <1>QueueStays,
     <1>ModifiedQueued, <1>ModifiedStored, <1>CleanQueued, <1>CleanDiscarded, <1>SnapAsked,
     <1>SnapKept, <1>SnapStays, <1>StoreAsked, <1>StoreKept, <1>StoreStays, <1>DoneSecured,
     <1>NotDiscarding, <1>AcceptSecured, <1>GoneSecured
  DEF BInv

\* FinishBadly keeps the invariant.
LEMMA FinishBadlyStep ==
  ASSUME BInv, FinishBadlyCase
  PROVE  BInv'
<1>fields.
      /\ copy.content \in Nat /\ copy.version \in Nat
      /\ copy.modified \in BOOLEAN /\ copy.registered \in BOOLEAN
      /\ Len(queue) \in Nat
      /\ OpFacts
  BY Fields DEF BInv
<1>empty. (queue # <<>> <=> Len(queue) > 0) /\ Ops = DOMAIN queue
  BY Fields DEF BInv
<1>guard.
      /\ Len(queue) > 0
      /\ Started(queue, 1)
  BY <1>empty DEF FinishBadlyCase, FinishOp, Settles, IsDiscard, Owner, Started
<1>pos. Len(queue) > 0
  BY <1>guard
<1>one. 1 \in Ops
  BY <1>fields, <1>pos DEF Ops
<1>pending. pending' = IF Owner(queue, 1) = "tracker" THEN "none" ELSE pending
  BY <1>empty DEF FinishBadlyCase, FinishOp, Settles, IsDiscard, Owner
<1>same.
      /\ UNCHANGED <<copy, saved, suspended, window, typed, atStake>>
      /\ file' = file
      /\ known' = known
  BY <1>empty DEF FinishBadlyCase, FinishOp, Settles, IsDiscard, Owner
<1>events. events' = events + 1
  BY <1>empty DEF FinishBadlyCase, FinishOp, Settles, IsDiscard, Owner, Bounded
<1>closing. closing' = IF Owner(queue, 1) = "closing"
                    THEN [stage |-> IF IsDiscard(queue, 1) THEN "done" ELSE "error"]
                    ELSE closing
  BY <1>empty DEF FinishBadlyCase, FinishOp, Settles, IsDiscard, Owner
<1>lapses. lapses' = lapses \cup {IF window = "open" THEN "failed" ELSE "failedLate"}
  BY <1>empty DEF FinishBadlyCase, FinishOp, Settles, IsDiscard, Owner
<1>calls. queue' = Tail(queue)
  BY <1>empty DEF FinishBadlyCase, FinishOp, Settles, IsDiscard, Owner
<1>e1. queue' \in Seq(Op) /\ Shorter
  BY <1>guard, <1>calls, TailFacts DEF BInv
<1>after. Len(queue') \in Nat /\ Shorter
  BY <1>fields, <1>e1
<1>some. lapses' # {}
  BY <1>lapses
<1>weaker. AtStake' => AtStake
  BY <1>lapses, <1>same DEF AtStake
<1>late. window # "open" => ~AtStake'
  BY <1>lapses, <1>same DEF AtStake
<1>frame. /\ CopyType' /\ FlagType' /\ WindowType' /\ FileType' /\ KnownType'
           /\ FileCached' /\ Numbers' /\ DatedFile' /\ StakeModified'
  BY <1>same, BackupFrames
<1>NumberTypes. NumberTypes'
  BY <1>same, <1>events DEF BInv, NumberTypes
<1>QueueType. QueueType'
  BY <1>e1 DEF BInv, QueueType
<1>HeadOnly. HeadOnly'
  BY <1>after DEF BInv, HeadOnly, Ops, Shorter, SameOp
<1>PendingType. PendingType'
  BY <1>pending DEF BInv, PendingType
<1>LapsesType. LapsesType'
  BY <1>lapses DEF BInv, LapsesType
<1>ClosingType. ClosingType'
  BY <1>closing DEF BInv, ClosingType
<1>NeverBoth. NeverBoth'
  BY <1>after
     DEF BInv, NeverBoth, Known, HeadOnly, Partial, ShutdownStages, Shorter, OpFacts,
         SameWork, SameOp
<1>NothingStarts. NothingStarts'
  BY <1>after DEF BInv, NothingStarts, Ops, Shorter, SameWork, SameOp
<1>ShutdownStages. ShutdownStages'
  BY <1>fields, <1>one, <1>pending, <1>same, <1>closing, <1>after
     DEF BInv, ShutdownStages, FlagType, Owners, NothingStarts, ClosingType, Shorter,
         OpFacts, SameWork, SameOp
<1>Owners. Owners'
  BY <1>pending, <1>closing, <1>after
     DEF BInv, Owners, Ops, HeadOnly, Shorter, OpFacts, SameWork, SameOp
<1>Owned. Owned'
  BY <1>pending, <1>closing, <1>after
     DEF BInv, Owned, HeadOnly, Ops, Shorter, OpFacts, SameWork, SameOp
<1>DatedQueue. DatedQueue'
  BY <1>same, <1>after DEF BInv, DatedQueue, Ops, Shorter, OpFacts, SameWork, SameOp
<1>QueueBefore. QueueBefore'
  BY <1>same, <1>lapses, <1>after
     DEF BInv, QueueBefore, Ops, Steady, NumberTypes, SnapBefore, Shorter, OpFacts,
         SameWork, SameOp
<1>CacheBefore. CacheBefore'
  BY <1>same, <1>lapses DEF BInv, CacheBefore, Steady
<1>QueueInOrder. QueueInOrder'
  BY <1>lapses, <1>after
     DEF BInv, QueueInOrder, Ops, Steady, NumberTypes, SnapBefore, Shorter, OpFacts,
         SameWork, SameOp
<1>CacheInOrder. CacheInOrder'
  BY <1>one, <1>same, <1>lapses, <1>after
     DEF BInv, CacheInOrder, Ops, Steady, Shorter, OpFacts, SameWork, SameOp
<1>SnapBefore. SnapBefore'
  BY <1>same, <1>closing, <1>lapses, <1>after
     DEF BInv, SnapBefore, Ops, Steady, CacheBefore, ShutdownStages, Shorter, OpFacts,
         SameWork, SameOp
<1>QueueSame. QueueSame'
  BY <1>same, <1>lapses, <1>after
     DEF BInv, QueueSame, Ops, Steady, NumberTypes, Shorter, OpFacts, SameWork, SameOp
<1>CacheSame. CacheSame'
  BY <1>same, <1>lapses DEF BInv, CacheSame, Cached, Steady
<1>QueueHolds. QueueHolds'
  BY <1>same, <1>lapses, <1>after
     DEF BInv, QueueHolds, Ops, Steady, NumberTypes, ShutdownStages, Shorter, OpFacts,
         SameWork, SameOp
<1>CacheMeta. CacheMeta'
  BY <1>same, <1>lapses DEF BInv, CacheMeta, Cached, Steady
<1>CacheHolds. CacheHolds'
  BY <1>same, <1>lapses DEF BInv, CacheHolds, Cached, Steady
<1>CacheStays. CacheStays'
  BY <1>same, <1>lapses, <1>after
     DEF BInv, CacheStays, Ops, Cached, Steady, QueueStays, ShutdownStages, Shorter,
         OpFacts, SameWork, SameOp
<1>QueueStays. QueueStays'
  BY <1>same, <1>lapses, <1>after
     DEF BInv, QueueStays, Ops, Steady, NumberTypes, Shorter, OpFacts, SameWork, SameOp
<1>ModifiedQueued. ModifiedQueued'
  BY <1>some DEF BInv, ModifiedQueued
<1>ModifiedStored. ModifiedStored'
  BY <1>some DEF BInv, ModifiedStored
<1>CleanQueued. CleanQueued'
  BY <1>some DEF BInv, CleanQueued
<1>CleanDiscarded. CleanDiscarded'
  BY <1>some DEF BInv, CleanDiscarded
<1>SnapAsked. SnapAsked'
  BY <1>same, <1>closing, <1>after, <1>weaker
     DEF BInv, SnapAsked, Ops, NumberTypes, ShutdownStages, Shorter, OpFacts, SameWork,
         SameOp
<1>SnapKept. SnapKept'
  BY <1>one, <1>same, <1>closing, <1>after, <1>weaker
     DEF BInv, SnapKept, Ops, Cached, SnapAsked, SnapStays, SnapBefore, Steady,
         CacheInOrder, Shorter, OpFacts, SameWork, SameOp
<1>SnapStays. SnapStays'
  <2> SUFFICES ASSUME AtStake, closing'.stage = "snapshot", NEW i \in Ops', NEW j \in Ops',
                      IsBackup(queue', i), IsDiscard(queue', j), i <= j
               PROVE  Version(queue', i) # closing'.version
    BY <1>weaker DEF SnapStays
  <2>1. closing' = closing
    BY <1>closing
  <2>2. /\ i + 1 \in Ops /\ SameOp(queue', i, queue, i + 1)
        /\ j + 1 \in Ops /\ SameOp(queue', j, queue, j + 1)
    BY <1>after DEF Shorter, Ops
  <2>3. i + 1 <= j + 1
    BY <1>after DEF Ops
  <2> QED
    BY <2>1, <2>2, <2>3 DEF BInv, SnapStays, SameOp, SameWork
<1>StoreAsked. StoreAsked'
  BY <1>one, <1>same, <1>closing, <1>after, <1>weaker
     DEF BInv, StoreAsked, Ops, Shorter, OpFacts, SameWork, SameOp
<1>StoreKept. StoreKept'
  <2> SUFFICES ASSUME AtStake, closing'.stage = "storing", known'.kind = "known",
                      known'.version = Version(queue', Len(queue'))
               PROVE  /\ known'.meta = saved' /\ Readable(file') /\ file'.content >= atStake'
                      /\ \A i \in Ops' : ~IsDiscard(queue', i)
    BY <1>weaker DEF StoreKept, Cached
  <2>1. closing' = closing /\ Owner(queue, 1) # "closing"
    BY <1>closing
  <2>2. Len(queue) > 1
    BY <1>fields, <1>pos, <2>1 DEF BInv, Owned
  <2>3. Version(queue', Len(queue')) = Version(queue, Len(queue))
    BY <1>after, <2>2 DEF Shorter, SameOp, SameWork
  <2>4. /\ known.meta = saved /\ Readable(file) /\ file.content >= atStake
        /\ \A i \in Ops : ~IsDiscard(queue, i)
    BY <1>same, <2>1, <2>3 DEF BInv, StoreKept, Cached
  <2>5. \A i \in Ops' : ~IsDiscard(queue', i)
    BY <1>after, <2>4 DEF Shorter, SameOp, SameWork, Ops
  <2> QED
    BY <1>same, <2>4, <2>5 DEF Readable
<1>StoreStays. StoreStays'
  BY <1>closing, <1>after, <1>weaker
     DEF BInv, StoreStays, Ops, Shorter, OpFacts, SameWork, SameOp
<1>DoneSecured. DoneSecured'
  BY <1>same, <1>closing, <1>after, <1>weaker
     DEF BInv, DoneSecured, Readable, NumberTypes, HeadOnly, Ops, ClosingType, Owners,
         Owned, NeverBoth, Has, Known, SnapBefore, Steady, NothingStarts, NotDiscarding,
         Shorter, OpFacts, SameWork
<1>NotDiscarding. NotDiscarding'
  BY <1>closing, <1>weaker DEF BInv, NotDiscarding
<1>AcceptSecured. AcceptSecured'
  BY <1>same, <1>late DEF BInv, AcceptSecured, Secured, Ops
<1>GoneSecured. GoneSecured'
  BY <1>same, <1>weaker DEF BInv, GoneSecured
<1> QED
  BY <1>frame, <1>NumberTypes, <1>QueueType, <1>HeadOnly, <1>PendingType, <1>LapsesType,
     <1>ClosingType, <1>NeverBoth, <1>NothingStarts, <1>ShutdownStages, <1>Owners, <1>Owned,
     <1>DatedQueue, <1>QueueBefore, <1>CacheBefore, <1>QueueInOrder, <1>CacheInOrder,
     <1>SnapBefore, <1>QueueSame, <1>CacheSame, <1>QueueHolds, <1>CacheMeta, <1>CacheHolds,
     <1>CacheStays, <1>QueueStays, <1>ModifiedQueued, <1>ModifiedStored, <1>CleanQueued,
     <1>CleanDiscarded, <1>SnapAsked, <1>SnapKept, <1>SnapStays, <1>StoreAsked,
     <1>StoreKept, <1>StoreStays, <1>DoneSecured, <1>NotDiscarding, <1>AcceptSecured,
     <1>GoneSecured
  DEF BInv

\* TimerFires keeps the invariant.
LEMMA TimerFiresStep ==
  ASSUME BInv, TimerFires
  PROVE  BInv'
<1>fields.
      /\ copy.content \in Nat /\ copy.version \in Nat
      /\ copy.modified \in BOOLEAN /\ copy.registered \in BOOLEAN
      /\ Len(queue) \in Nat
      /\ OpFacts
  BY Fields DEF BInv
<1>empty. (queue # <<>> <=> Len(queue) > 0) /\ Ops = DOMAIN queue
  BY Fields DEF BInv
<1>guard.
      /\ window # "gone" /\ (Len(queue) > 0 => Started(queue, 1))
      /\ pending = "timer"
  BY <1>empty DEF TimerFires, HeadStarted, Started
<1>pending. pending' = IF copy.modified THEN "snapshot" ELSE "none"
  BY DEF TimerFires
<1>same. UNCHANGED <<copy, saved, suspended, queue, file, known, closing, window, typed,
                     events, lapses, atStake>>
  BY DEF TimerFires
<1>frame. /\ CopyType' /\ NumberTypes' /\ QueueType' /\ HeadOnly' /\ FlagType'
           /\ WindowType' /\ LapsesType' /\ FileType' /\ KnownType' /\ ClosingType'
           /\ FileCached' /\ NeverBoth' /\ NothingStarts' /\ Numbers' /\ DatedFile'
           /\ DatedQueue' /\ QueueBefore' /\ CacheBefore' /\ QueueInOrder'
           /\ CacheInOrder' /\ SnapBefore' /\ QueueSame' /\ CacheSame' /\ QueueHolds'
           /\ CacheMeta' /\ CacheHolds' /\ CacheStays' /\ QueueStays' /\ StakeModified'
           /\ SnapAsked' /\ SnapKept' /\ SnapStays' /\ StoreAsked' /\ StoreKept'
           /\ StoreStays' /\ DoneSecured' /\ NotDiscarding' /\ AcceptSecured'
           /\ GoneSecured'
  BY <1>same, BackupFrames
<1>PendingType. PendingType'
  BY <1>pending DEF BInv, PendingType
<1>ShutdownStages. ShutdownStages'
  BY <1>guard, <1>same DEF BInv, ShutdownStages
<1>Owners. Owners'
  BY <1>guard, <1>same DEF BInv, Owners, Ops
<1>Owned. Owned'
  BY <1>pending, <1>same DEF BInv, Owned
<1>ModifiedQueued. ModifiedQueued'
  BY <1>pending DEF BInv, ModifiedQueued
<1>ModifiedStored. ModifiedStored'
  BY <1>pending, <1>same DEF BInv, ModifiedStored
<1>CleanQueued. CleanQueued'
  BY <1>pending, <1>same DEF BInv, CleanQueued
<1>CleanDiscarded. CleanDiscarded'
  BY <1>guard, <1>same DEF BInv, CleanDiscarded, Owned, CleanQueued, OpFacts
<1> QED
  BY <1>frame, <1>PendingType, <1>ShutdownStages, <1>Owners, <1>Owned, <1>ModifiedQueued,
     <1>ModifiedStored, <1>CleanQueued, <1>CleanDiscarded
  DEF BInv

\* StoreNot keeps the invariant.
LEMMA StoreNotStep ==
  ASSUME BInv, StoreNotCase
  PROVE  BInv'
<1>fields.
      /\ copy.content \in Nat /\ copy.version \in Nat
      /\ copy.modified \in BOOLEAN /\ copy.registered \in BOOLEAN
      /\ Len(queue) \in Nat
      /\ OpFacts
  BY Fields DEF BInv
<1>empty. (queue # <<>> <=> Len(queue) > 0) /\ Ops = DOMAIN queue
  BY Fields DEF BInv
<1>guard.
      /\ window # "gone" /\ (Len(queue) > 0 => Started(queue, 1))
      /\ pending = "snapshot"
      /\ ~copy.modified \/ Has(copy.version, saved)
  BY <1>empty DEF StoreNotCase, StoreBackup, HeadStarted, Started
<1>pending. pending' = "none"
  BY DEF StoreNotCase, StoreBackup
<1>same. UNCHANGED <<copy, saved, suspended, queue, file, known, closing, window, typed,
                     events, lapses, atStake>>
  BY DEF StoreNotCase, StoreBackup
<1>frame. /\ CopyType' /\ NumberTypes' /\ QueueType' /\ HeadOnly' /\ FlagType'
           /\ WindowType' /\ LapsesType' /\ FileType' /\ KnownType' /\ ClosingType'
           /\ FileCached' /\ NeverBoth' /\ NothingStarts' /\ Numbers' /\ DatedFile'
           /\ DatedQueue' /\ QueueBefore' /\ CacheBefore' /\ QueueInOrder'
           /\ CacheInOrder' /\ SnapBefore' /\ QueueSame' /\ CacheSame' /\ QueueHolds'
           /\ CacheMeta' /\ CacheHolds' /\ CacheStays' /\ QueueStays' /\ StakeModified'
           /\ SnapAsked' /\ SnapKept' /\ SnapStays' /\ StoreAsked' /\ StoreKept'
           /\ StoreStays' /\ DoneSecured' /\ NotDiscarding' /\ AcceptSecured'
           /\ GoneSecured'
  BY <1>same, BackupFrames
<1>PendingType. PendingType'
  BY <1>pending DEF BInv, PendingType
<1>ShutdownStages. ShutdownStages'
  BY <1>pending, <1>same DEF BInv, ShutdownStages
<1>Owners. Owners'
  BY <1>guard, <1>same DEF BInv, Owners, Ops
<1>Owned. Owned'
  BY <1>pending, <1>same DEF BInv, Owned
<1>ModifiedQueued. ModifiedQueued'
  BY <1>pending DEF BInv, ModifiedQueued
<1>ModifiedStored. ModifiedStored'
  BY <1>guard, <1>pending, <1>same DEF BInv, ModifiedStored, Has, OpFacts
<1>CleanQueued. CleanQueued'
  BY <1>pending DEF BInv, CleanQueued
<1>CleanDiscarded. CleanDiscarded'
  BY <1>guard, <1>same DEF BInv, CleanDiscarded, NumberTypes, Owned, CleanQueued, Has
<1> QED
  BY <1>frame, <1>PendingType, <1>ShutdownStages, <1>Owners, <1>Owned, <1>ModifiedQueued,
     <1>ModifiedStored, <1>CleanQueued, <1>CleanDiscarded
  DEF BInv

\* Store keeps the invariant.
LEMMA StoreStep ==
  ASSUME BInv, StoreCase
  PROVE  BInv'
<1>fields.
      /\ copy.content \in Nat /\ copy.version \in Nat
      /\ copy.modified \in BOOLEAN /\ copy.registered \in BOOLEAN
      /\ Len(queue) \in Nat
      /\ OpFacts
  BY Fields DEF BInv
<1>empty. (queue # <<>> <=> Len(queue) > 0) /\ Ops = DOMAIN queue
  BY Fields DEF BInv
<1>guard.
      /\ window # "gone" /\ (Len(queue) > 0 => Started(queue, 1))
      /\ pending = "snapshot"
      /\ ~(~copy.modified \/ Has(copy.version, saved))
  BY <1>empty DEF StoreCase, StoreBackup, HeadStarted, Started
<1>pending. pending' = "queued"
  BY DEF StoreCase, StoreBackup
<1>same. UNCHANGED <<copy, saved, suspended, file, known, closing, window, typed, events,
                     lapses, atStake>>
  BY DEF StoreCase, StoreBackup
<1>calls. queue' = Append(queue, BackupOp("tracker", copy.version))
  BY DEF StoreCase, StoreBackup
<1>e1. saved \in Nat
  BY DEF BInv, NumberTypes
<1>e2. queue' \in Seq(Op) /\ AddedBackup("tracker", copy.version) /\ Idem
  BY <1>fields, <1>empty, <1>guard, <1>calls, <1>e1, AddBackupFacts DEF BInv
<1>after. Len(queue') \in Nat /\ AddedBackup("tracker", copy.version) /\ Idem
  BY <1>fields, <1>e2
<1>frame. /\ CopyType' /\ NumberTypes' /\ FlagType' /\ WindowType' /\ LapsesType'
           /\ FileType' /\ KnownType' /\ ClosingType' /\ FileCached' /\ Numbers'
           /\ DatedFile' /\ CacheBefore' /\ CacheSame' /\ CacheMeta' /\ CacheHolds'
           /\ StakeModified' /\ NotDiscarding' /\ GoneSecured'
  BY <1>same, BackupFrames
<1>QueueType. QueueType'
  BY <1>e2 DEF BInv, QueueType
<1>HeadOnly. HeadOnly'
  BY <1>after DEF BInv, HeadOnly, Ops, AddedBackup, Idem, SameWork, SameOp
<1>PendingType. PendingType'
  BY <1>pending DEF BInv, PendingType
<1>NeverBoth. NeverBoth'
  BY <1>same, <1>e1, <1>after
     DEF BInv, NeverBoth, Readable, Has, Known, HeadOnly, Ops, FileType, None, Partial,
         ShutdownStages, AddedBackup, Idem, OpFacts, SameWork, SameOp
<1>NothingStarts. NothingStarts'
  BY <1>after
     DEF BInv, NothingStarts, Ops, AddedBackup, Idem, Has, OpFacts, SameWork, SameOp, Known
<1>ShutdownStages. ShutdownStages'
  BY <1>guard, <1>same DEF BInv, ShutdownStages
<1>Owners. Owners'
  <2>1. \A i \in Ops' : i \in Ops \/ i = Len(queue')
    BY <1>fields, <1>after DEF Ops, AddedBackup
  <2>2. \A i \in Ops : Owner(queue, i) \notin {"tracker", "closing"}
    BY <1>fields, <1>guard DEF BInv, Owners, ShutdownStages, NothingStarts, OpFacts
  <2>3. \A i \in Ops : Owner(queue', i) = Owner(queue, i)
    BY <1>after DEF Idem, SameOp
  <2> QED
    BY <1>pending, <1>after, <2>1, <2>2, <2>3 DEF Owners, AddedBackup
<1>Owned. Owned'
  BY <1>guard, <1>same, <1>after DEF BInv, Owned, ShutdownStages, Owners, AddedBackup
<1>DatedQueue. DatedQueue'
  BY <1>fields, <1>guard, <1>same, <1>after
     DEF BInv, DatedQueue, Ops, NumberTypes, HeadOnly, Numbers, ShutdownStages, AddedBackup,
         Idem, Has, OpFacts, SameWork, SameOp, Known
<1>QueueBefore. QueueBefore'
  BY <1>fields, <1>same, <1>e1, <1>after
     DEF BInv, QueueBefore, Ops, Steady, NumberTypes, HeadOnly, AddedBackup, Idem, Has,
         OpFacts, SameWork, SameOp
<1>QueueInOrder. QueueInOrder'
  BY <1>fields, <1>guard, <1>same, <1>e1, <1>after
     DEF BInv, QueueInOrder, Ops, Steady, NumberTypes, HeadOnly, QueueBefore,
         ShutdownStages, SnapBefore, AddedBackup, Idem, Has, OpFacts, SameWork, SameOp
<1>CacheInOrder. CacheInOrder'
  <2>1. SUFFICES ASSUME Steady', NEW i \in Ops', IsBackup(queue', i), known'.kind = "known"
                 PROVE  known'.version <= Version(queue', i)
    BY DEF CacheInOrder
  <2>2. CASE i \in Ops
    BY <2>1, <2>2, <1>same, <1>after DEF BInv, CacheInOrder, Steady, Idem, SameWork, SameOp
  <2>3. CASE i = Len(queue')
    BY <2>1, <2>3, <1>same, <1>after DEF BInv, CacheBefore, Steady, AddedBackup
  <2> QED
    BY <2>2, <2>3, <1>fields, <1>after DEF Ops, AddedBackup
<1>SnapBefore. SnapBefore'
  BY <1>guard, <1>same, <1>e1 DEF BInv, SnapBefore, CacheBefore, ShutdownStages
<1>QueueSame. QueueSame'
  BY <1>same, <1>after
     DEF BInv, QueueSame, Ops, Steady, AddedBackup, Idem, Has, OpFacts, SameWork, SameOp,
         Known
<1>QueueHolds. QueueHolds'
  BY <1>same, <1>e1, <1>after
     DEF BInv, QueueHolds, Ops, Steady, NumberTypes, HeadOnly, AddedBackup, Idem, Has,
         OpFacts, SameWork, SameOp
<1>CacheStays. CacheStays'
  BY <1>same, <1>e1, <1>after
     DEF BInv, CacheStays, Ops, Cached, Steady, AddedBackup, Idem, SameWork, SameOp, Known
<1>QueueStays. QueueStays'
  BY <1>same, <1>after
     DEF BInv, QueueStays, Ops, Steady, NumberTypes, HeadOnly, QueueBefore, ShutdownStages,
         AddedBackup, Idem, Has, OpFacts, SameWork, SameOp, Known
<1>ModifiedQueued. ModifiedQueued'
  BY <1>pending, <1>same, <1>e1, <1>after DEF BInv, ModifiedQueued, Ops, AddedBackup
<1>ModifiedStored. ModifiedStored'
  BY <1>pending DEF BInv, ModifiedStored
<1>CleanQueued. CleanQueued'
  BY <1>guard, <1>same DEF BInv, CleanQueued
<1>CleanDiscarded. CleanDiscarded'
  BY <1>pending DEF BInv, CleanDiscarded
<1>SnapAsked. SnapAsked'
  BY <1>guard, <1>same, <1>e1 DEF BInv, SnapAsked, FileType, ShutdownStages
<1>SnapKept. SnapKept'
  BY <1>same, <1>e1, <1>after
     DEF BInv, SnapKept, Ops, Cached, AtStake, CacheInOrder, AddedBackup, Idem, Has,
         OpFacts, SameWork, SameOp, Known
<1>SnapStays. SnapStays'
  BY <1>same, <1>e1, <1>after
     DEF BInv, SnapStays, Ops, AtStake, NumberTypes, Owned, AddedBackup, Idem, Has, OpFacts,
         SameWork, SameOp, Known
<1>StoreAsked. StoreAsked'
  BY <1>guard, <1>same DEF BInv, StoreAsked, Partial, FileType, ShutdownStages
<1>StoreKept. StoreKept'
  BY <1>fields, <1>guard, <1>same, <1>e1 DEF BInv, StoreKept, ShutdownStages, StakeModified
<1>StoreStays. StoreStays'
  BY <1>fields, <1>guard, <1>same, <1>e1 DEF BInv, StoreStays, FileType, ShutdownStages
<1>DoneSecured. DoneSecured'
  BY <1>guard, <1>same DEF BInv, DoneSecured, ShutdownStages, StakeModified, SnapAsked
<1>AcceptSecured. AcceptSecured'
  <2> SUFFICES ASSUME AtStake, window \in {"accepted", "closing"}
               PROVE  Secured'
    BY <1>same DEF AcceptSecured, AtStake
  <2>1. Secured
    BY DEF BInv, AcceptSecured
  <2>2. copy.content >= atStake
    BY <1>guard DEF BInv, StakeModified, AtStake
  <2>3. \A i \in 1 .. Len(queue') :
          (i \in Ops /\ SameOp(queue', i, queue, i)) \/ i = Len(queue')
    BY <1>fields, <1>after DEF Ops, Idem, AddedBackup
  <2>4. \A i \in 1 .. Len(queue') : ~IsDiscard(queue', i)
    BY <1>after, <2>1, <2>3 DEF Secured, AddedBackup, SameOp, SameWork
  <2>5. \A i \in 1 .. Len(queue') : IsBackup(queue', i) => Content(queue', i) >= atStake
    BY <1>after, <2>1, <2>2, <2>3 DEF Secured, AddedBackup, SameOp, SameWork
  <2>6. Len(queue) > 0 /\ Started(queue, 1) => Len(queue') > 0 /\ Started(queue', 1)
    BY <1>fields, <1>after DEF Idem, Ops, AddedBackup, SameOp
  <2> QED
    BY <1>same, <2>1, <2>4, <2>5, <2>6 DEF Secured, Ops
<1> QED
  BY <1>frame, <1>QueueType, <1>HeadOnly, <1>PendingType, <1>NeverBoth, <1>NothingStarts,
     <1>ShutdownStages, <1>Owners, <1>Owned, <1>DatedQueue, <1>QueueBefore, <1>QueueInOrder,
     <1>CacheInOrder, <1>SnapBefore, <1>QueueSame, <1>QueueHolds, <1>CacheStays,
     <1>QueueStays, <1>ModifiedQueued, <1>ModifiedStored, <1>CleanQueued, <1>CleanDiscarded,
     <1>SnapAsked, <1>SnapKept, <1>SnapStays, <1>StoreAsked, <1>StoreKept, <1>StoreStays,
     <1>DoneSecured, <1>AcceptSecured
  DEF BInv

\* EditCopy keeps the invariant.
LEMMA EditCopyStep ==
  ASSUME BInv, EditCopy
  PROVE  BInv'
<1>fields.
      /\ copy.content \in Nat /\ copy.version \in Nat
      /\ copy.modified \in BOOLEAN /\ copy.registered \in BOOLEAN
      /\ Len(queue) \in Nat
      /\ OpFacts
  BY Fields DEF BInv
<1>empty. (queue # <<>> <=> Len(queue) > 0) /\ Ops = DOMAIN queue
  BY Fields DEF BInv
<1>guard.
      /\ window # "gone" /\ (Len(queue) > 0 => Started(queue, 1))
      /\ copy.registered
  BY <1>empty DEF EditCopy, HeadStarted, Started
<1>typed. typed' = typed + 1
  BY DEF EditCopy
<1>same. UNCHANGED <<saved, suspended, file, known, closing, window, events, lapses,
                     atStake>>
  BY DEF EditCopy
<1>edit. copy' = [copy EXCEPT !.content = typed', !.modified = TRUE, !.version = @ + 1]
  BY DEF EditCopy
<1>calls. ScheduleBackup
  BY DEF EditCopy
<1>e1. copy' = [registered |-> TRUE, modified |-> TRUE, content |-> typed + 1,
                version |-> copy.version + 1]
  BY <1>guard, <1>typed, <1>same, <1>edit, <1>calls DEF BInv, CopyType, NumberTypes
<1>e2.
      /\ copy' \in [registered : BOOLEAN, modified : BOOLEAN, content : Nat, version : Nat]
      /\ copy'.registered = TRUE /\ copy'.modified = TRUE
      /\ copy'.content = typed + 1 /\ copy'.version = copy.version + 1
  BY <1>fields, <1>empty, <1>e1 DEF BInv, NumberTypes
<1>e3.
      /\ suspended => queue' = queue /\ pending' = pending
      /\ ~suspended => /\ pending' = "timer"
                       /\ queue' \in Seq(Op) /\ Len(queue') = Len(queue)
                       /\ Thinned("tracker")
  BY <1>guard, <1>calls, ScheduleFacts DEF BInv
<1>after.
      /\ suspended => queue' = queue /\ pending' = pending
      /\ ~suspended => /\ pending' = "timer"
                       /\ Len(queue') \in Nat /\ Len(queue') = Len(queue)
                       /\ Thinned("tracker")
  BY <1>fields, <1>e3
<1>e4. \A i \in 1 .. Len(queue') : IsBackup(queue', i) =>
        i \in Ops /\ IsBackup(queue, i) /\ SameWork(queue', i, queue, i)
  BY <1>fields, <1>after DEF BInv, Ops, Thinned, SameWork, SameOp, AddedDiscard
<1>e5. \A i \in 1 .. Len(queue') : IsDiscard(queue', i) =>
        \/ i \in Ops /\ IsDiscard(queue, i)
        \/ i = Len(queue') /\ Len(queue') = Len(queue) + 1
  BY <1>fields, <1>after DEF BInv, Ops, Thinned, SameWork, SameOp, AddedDiscard
<1>frame. /\ FlagType' /\ WindowType' /\ LapsesType' /\ FileType' /\ KnownType'
           /\ ClosingType' /\ FileCached' /\ NotDiscarding' /\ GoneSecured'
  BY <1>same, BackupFrames
<1>CopyType. CopyType'
  BY <1>e2 DEF BInv, CopyType
<1>NumberTypes. NumberTypes'
  BY <1>typed, <1>same DEF BInv, NumberTypes
<1>QueueType. QueueType'
  BY <1>e3 DEF BInv, QueueType
<1>HeadOnly. HeadOnly'
  BY <1>after DEF BInv, HeadOnly, Ops, Thinned, OpFacts
<1>PendingType. PendingType'
  BY <1>after DEF BInv, PendingType
<1>NeverBoth. NeverBoth'
  BY <1>same, <1>after, <1>e4, <1>e5
     DEF BInv, NeverBoth, Readable, Has, Known, SameWork, Thinned, OpFacts
<1>NothingStarts. NothingStarts'
  BY <1>after DEF BInv, NothingStarts, Ops, SameWork, Thinned
<1>ShutdownStages. ShutdownStages'
  BY <1>guard, <1>same, <1>after DEF BInv, ShutdownStages
<1>Owners. Owners'
  BY <1>same, <1>after DEF BInv, Owners, Ops, HeadOnly, Owned, SameWork, Thinned, OpFacts
<1>Owned. Owned'
  BY <1>same, <1>after DEF BInv, Owned, ShutdownStages
<1>Numbers. Numbers'
  BY <1>typed, <1>same, <1>e2 DEF BInv, Numbers, NumberTypes
<1>DatedFile. DatedFile'
  BY <1>typed, <1>same, <1>e2
     DEF BInv, DatedFile, Readable, NumberTypes, FileType, None, Partial
<1>DatedQueue. DatedQueue'
  BY <1>fields, <1>typed, <1>same, <1>e2, <1>after, <1>e4, <1>e5
     DEF BInv, DatedQueue, Ops, NumberTypes, HeadOnly, Numbers, ShutdownStages, SameWork,
         Thinned, OpFacts, SameOp
<1>QueueBefore. QueueBefore'
  BY <1>fields, <1>same, <1>e2, <1>after, <1>e4, <1>e5
     DEF BInv, QueueBefore, Ops, Steady, ShutdownStages, SnapBefore, SameWork, Thinned,
         OpFacts, SameOp
<1>CacheBefore. CacheBefore'
  BY <1>fields, <1>same, <1>e2 DEF BInv, CacheBefore, Steady, NumberTypes, KnownType, None
<1>QueueInOrder. QueueInOrder'
  BY <1>same, <1>e4, <1>e5
     DEF BInv, QueueInOrder, Ops, Steady, NumberTypes, SnapBefore, SameWork, Thinned
<1>CacheInOrder. CacheInOrder'
  BY <1>same, <1>after DEF BInv, CacheInOrder, Ops, Steady, SameWork, Thinned
<1>SnapBefore. SnapBefore'
  BY <1>fields, <1>guard, <1>same, <1>e2, <1>after, <1>e4, <1>e5
     DEF BInv, SnapBefore, Ops, Steady, NumberTypes, HeadOnly, ClosingType, CacheBefore,
         ShutdownStages, SameWork, Thinned
<1>QueueSame. QueueSame'
  BY <1>fields, <1>same, <1>e2, <1>after, <1>e4, <1>e5
     DEF BInv, QueueSame, Ops, Steady, QueueBefore, SnapBefore, Numbers, ShutdownStages,
         SameWork, Thinned
<1>CacheSame. CacheSame'
  BY <1>fields, <1>same, <1>e2
     DEF BInv, CacheSame, Cached, Steady, CacheBefore, QueueBefore, Ops
<1>QueueHolds. QueueHolds'
  BY <1>fields, <1>same, <1>e2, <1>after, <1>e4, <1>e5
     DEF BInv, QueueHolds, Ops, Steady, QueueBefore, ShutdownStages, SameWork
<1>CacheMeta. CacheMeta'
  BY <1>fields, <1>same, <1>e2
     DEF BInv, CacheMeta, Cached, Steady, Partial, CacheBefore, QueueHolds
<1>CacheHolds. CacheHolds'
  BY <1>fields, <1>same, <1>e2
     DEF BInv, CacheHolds, Cached, Steady, CacheBefore, CacheInOrder, Ops
<1>CacheStays. CacheStays'
  BY <1>fields, <1>guard, <1>same, <1>e2
     DEF BInv, CacheStays, Cached, Steady, Partial, CacheBefore
<1>QueueStays. QueueStays'
  BY <1>fields, <1>same, <1>e2, <1>after, <1>e4, <1>e5
     DEF BInv, QueueStays, Ops, Steady, NumberTypes, HeadOnly, QueueBefore, ShutdownStages,
         SameWork, Thinned
<1>ModifiedQueued. ModifiedQueued'
  BY <1>same, <1>after DEF BInv, ModifiedQueued
<1>ModifiedStored. ModifiedStored'
  BY <1>same, <1>after DEF BInv, ModifiedStored
<1>CleanQueued. CleanQueued'
  BY <1>e2 DEF BInv, CleanQueued
<1>CleanDiscarded. CleanDiscarded'
  BY <1>e2 DEF BInv, CleanDiscarded
<1>StakeModified. StakeModified'
  BY <1>same, <1>e2 DEF BInv, StakeModified, NumberTypes, Numbers
<1>SnapAsked. SnapAsked'
  BY <1>same, <1>after DEF BInv, SnapAsked, Ops, AtStake, SameWork, Thinned
<1>SnapKept. SnapKept'
  BY <1>same, <1>after, <1>e5 DEF BInv, SnapKept, Ops, Cached, AtStake, Readable
<1>SnapStays. SnapStays'
  BY <1>same, <1>after, Z3T(10) DEF BInv, SnapStays, Ops, AtStake, SameWork, Thinned
<1>StoreAsked. StoreAsked'
  BY <1>same, <1>after
     DEF BInv, StoreAsked, Ops, AtStake, Owners, Owned, SameWork, Thinned, OpFacts, SameOp
<1>StoreKept. StoreKept'
  BY <1>same, <1>after
     DEF BInv, StoreKept, Ops, Cached, AtStake, Readable, Partial, FileType, ShutdownStages,
         StakeModified, SnapAsked
<1>StoreStays. StoreStays'
  BY <1>same, <1>after
     DEF BInv, StoreStays, Ops, AtStake, Owned, SameWork, Thinned, OpFacts, SameOp
<1>DoneSecured. DoneSecured'
  BY <1>same, <1>after, <1>e4, <1>e5 DEF BInv, DoneSecured, AtStake, Readable, NumberTypes
<1>AcceptSecured. AcceptSecured'
  BY <1>fields, <1>guard, <1>same, <1>after, <1>e4, <1>e5
     DEF BInv, AcceptSecured, AtStake, Secured, Ops, NothingStarts, NotDiscarding, SameWork,
         Thinned, OpFacts, SameOp
<1> QED
  BY <1>frame, <1>CopyType, <1>NumberTypes, <1>QueueType, <1>HeadOnly, <1>PendingType,
     <1>NeverBoth, <1>NothingStarts, <1>ShutdownStages, <1>Owners, <1>Owned, <1>Numbers,
     <1>DatedFile, <1>DatedQueue, <1>QueueBefore, <1>CacheBefore, <1>QueueInOrder,
     <1>CacheInOrder, <1>SnapBefore, <1>QueueSame, <1>CacheSame, <1>QueueHolds,
     <1>CacheMeta, <1>CacheHolds, <1>CacheStays, <1>QueueStays, <1>ModifiedQueued,
     <1>ModifiedStored, <1>CleanQueued, <1>CleanDiscarded, <1>StakeModified, <1>SnapAsked,
     <1>SnapKept, <1>SnapStays, <1>StoreAsked, <1>StoreKept, <1>StoreStays, <1>DoneSecured,
     <1>AcceptSecured
  DEF BInv

\* SaveCopy keeps the invariant.
LEMMA SaveCopyStep ==
  ASSUME BInv, SaveCopy
  PROVE  BInv'
<1>fields.
      /\ copy.content \in Nat /\ copy.version \in Nat
      /\ copy.modified \in BOOLEAN /\ copy.registered \in BOOLEAN
      /\ Len(queue) \in Nat
      /\ OpFacts
  BY Fields DEF BInv
<1>empty. (queue # <<>> <=> Len(queue) > 0) /\ Ops = DOMAIN queue
  BY Fields DEF BInv
<1>guard.
      /\ window # "gone" /\ (Len(queue) > 0 => Started(queue, 1))
      /\ copy.modified
  BY <1>empty DEF SaveCopy, HeadStarted, Started
<1>saved. saved' = copy.content
  BY DEF SaveCopy
<1>same. UNCHANGED <<suspended, file, known, closing, window, typed, events, lapses,
                     atStake>>
  BY DEF SaveCopy
<1>edit. copy' = [copy EXCEPT !.modified = FALSE]
  BY DEF SaveCopy
<1>calls. DiscardBackup
  BY DEF SaveCopy
<1>e1. copy' = [registered |-> copy.registered, modified |-> FALSE,
                content |-> copy.content, version |-> copy.version]
  BY <1>guard, <1>saved, <1>same, <1>edit, <1>calls DEF BInv, CopyType
<1>e2.
      /\ copy' \in [registered : BOOLEAN, modified : BOOLEAN, content : Nat, version : Nat]
      /\ copy'.registered = copy.registered /\ copy'.modified = FALSE
      /\ copy'.content = copy.content /\ copy'.version = copy.version
  BY <1>fields, <1>empty, <1>e1 DEF BInv, NumberTypes
<1>e3.
      /\ suspended => queue' = queue /\ pending' = pending
      /\ ~suspended => /\ pending' = "queued"
                       /\ queue' \in Seq(Op)
                       /\ AddedDiscard("tracker")
                       /\ Thinned("tracker")
  BY <1>guard, <1>calls, DiscardFacts DEF BInv
<1>after.
      /\ suspended => queue' = queue /\ pending' = pending
      /\ ~suspended => /\ pending' = "queued"
                       /\ Len(queue') \in Nat
                       /\ AddedDiscard("tracker")
                       /\ Thinned("tracker")
  BY <1>fields, <1>e3
<1>e4. \A i \in 1 .. Len(queue') : IsBackup(queue', i) =>
        i \in Ops /\ IsBackup(queue, i) /\ SameWork(queue', i, queue, i)
  BY <1>fields, <1>after DEF BInv, Ops, Thinned, SameWork, SameOp, AddedDiscard
<1>e5. \A i \in 1 .. Len(queue') : IsDiscard(queue', i) =>
        \/ i \in Ops /\ IsDiscard(queue, i)
        \/ i = Len(queue') /\ Len(queue') = Len(queue) + 1
  BY <1>fields, <1>after DEF BInv, Ops, Thinned, SameWork, SameOp, AddedDiscard
<1>frame. /\ FlagType' /\ WindowType' /\ LapsesType' /\ FileType' /\ KnownType'
           /\ ClosingType' /\ FileCached'
  BY <1>same, BackupFrames
<1>CopyType. CopyType'
  BY <1>e2 DEF BInv, CopyType
<1>NumberTypes. NumberTypes'
  BY <1>fields, <1>saved, <1>same DEF BInv, NumberTypes
<1>QueueType. QueueType'
  BY <1>e3 DEF BInv, QueueType
<1>HeadOnly. HeadOnly'
  BY <1>after DEF BInv, HeadOnly, Ops, Thinned, AddedDiscard
<1>PendingType. PendingType'
  BY <1>after DEF BInv, PendingType
<1>NeverBoth. NeverBoth'
  BY <1>same, <1>after, <1>e4, <1>e5
     DEF BInv, NeverBoth, Readable, Has, Known, SameWork, Thinned, AddedDiscard
<1>NothingStarts. NothingStarts'
  BY <1>after
     DEF BInv, NothingStarts, Ops, HeadOnly, SameWork, Thinned, AddedDiscard, OpFacts
<1>ShutdownStages. ShutdownStages'
  BY <1>guard, <1>same, <1>after DEF BInv, ShutdownStages
<1>Owners. Owners'
  BY <1>fields, <1>same, <1>after, <1>e4, <1>e5
     DEF BInv, Owners, Ops, HeadOnly, NothingStarts, ShutdownStages, Owned, SameWork,
         Thinned, AddedDiscard, OpFacts
<1>Owned. Owned'
  BY <1>same, <1>after, <1>e4, <1>e5
     DEF BInv, Owned, ShutdownStages, Owners, SameWork, Thinned, AddedDiscard, OpFacts
<1>Numbers. Numbers'
  BY <1>saved, <1>same, <1>e2 DEF BInv, Numbers
<1>DatedFile. DatedFile'
  BY <1>guard, <1>saved, <1>same, <1>e2 DEF BInv, DatedFile
<1>DatedQueue. DatedQueue'
  BY <1>guard, <1>saved, <1>same, <1>e2, <1>after, <1>e4, <1>e5
     DEF BInv, DatedQueue, Ops, ShutdownStages, SameWork, Thinned
<1>QueueBefore. QueueBefore'
  BY <1>same, <1>e2, <1>after, <1>e4, <1>e5
     DEF BInv, QueueBefore, Ops, Steady, ShutdownStages, SnapBefore, SameWork
<1>CacheBefore. CacheBefore'
  BY <1>same, <1>e2 DEF BInv, CacheBefore, Steady
<1>QueueInOrder. QueueInOrder'
  BY <1>same, <1>e4, <1>e5
     DEF BInv, QueueInOrder, Ops, Steady, NumberTypes, SnapBefore, SameWork, Thinned
<1>CacheInOrder. CacheInOrder'
  BY <1>same, <1>after, <1>e4, <1>e5 DEF BInv, CacheInOrder, Ops, Steady, SameWork, Thinned
<1>SnapBefore. SnapBefore'
  BY <1>same, <1>e2, <1>after, <1>e4, <1>e5
     DEF BInv, SnapBefore, Ops, Steady, NumberTypes, HeadOnly, ClosingType, CacheBefore,
         ShutdownStages, SameWork, Thinned
<1>QueueSame. QueueSame'
  BY <1>same, <1>e2, <1>after, <1>e4, <1>e5
     DEF BInv, QueueSame, Ops, Steady, ShutdownStages, SameWork, Thinned
<1>CacheSame. CacheSame'
  BY <1>same, <1>e2 DEF BInv, CacheSame, Cached, Steady
<1>QueueHolds. QueueHolds'
  BY <1>e2 DEF BInv, QueueHolds
<1>CacheMeta. CacheMeta'
  BY <1>e2 DEF BInv, CacheMeta
<1>CacheHolds. CacheHolds'
  BY <1>e2 DEF BInv, CacheHolds
<1>CacheStays. CacheStays'
  BY <1>e2 DEF BInv, CacheStays
<1>QueueStays. QueueStays'
  BY <1>e2 DEF BInv, QueueStays
<1>ModifiedQueued. ModifiedQueued'
  BY <1>e2 DEF BInv, ModifiedQueued
<1>ModifiedStored. ModifiedStored'
  BY <1>e2 DEF BInv, ModifiedStored
<1>CleanQueued. CleanQueued'
  BY <1>after, <1>e4 DEF BInv, CleanQueued, ShutdownStages, Owners, Thinned, AddedDiscard
<1>CleanDiscarded. CleanDiscarded'
  BY <1>same, <1>after, <1>e4 DEF BInv, CleanDiscarded
<1>StakeModified. StakeModified'
  BY <1>guard, <1>saved, <1>same, <1>e2 DEF BInv, StakeModified
<1>SnapAsked. SnapAsked'
  BY <1>fields, <1>guard, <1>saved, <1>same
     DEF BInv, SnapAsked, AtStake, NumberTypes, StakeModified, QueueHolds, Steady
<1>SnapKept. SnapKept'
  BY <1>fields, <1>guard, <1>saved, <1>same
     DEF BInv, SnapKept, Cached, AtStake, Readable, NumberTypes, HeadOnly, ClosingType,
         KnownType, None, Partial, FileType, ShutdownStages, StakeModified
<1>SnapStays. SnapStays'
  BY <1>fields, <1>guard, <1>saved, <1>same
     DEF BInv, SnapStays, AtStake, NumberTypes, ShutdownStages, StakeModified
<1>StoreAsked. StoreAsked'
  BY <1>fields, <1>guard, <1>saved, <1>same, <1>after, <1>e4, <1>e5
     DEF BInv, StoreAsked, Ops, AtStake, NumberTypes, HeadOnly, ClosingType, FileType,
         ShutdownStages, StakeModified
<1>StoreKept. StoreKept'
  BY <1>fields, <1>guard, <1>saved, <1>same
     DEF BInv, StoreKept, Cached, AtStake, Readable, NumberTypes, HeadOnly, ClosingType,
         KnownType, None, Partial, FileType, ShutdownStages, StakeModified
<1>StoreStays. StoreStays'
  BY <1>fields, <1>guard, <1>saved, <1>same
     DEF BInv, StoreStays, AtStake, NumberTypes, FileType, ShutdownStages, StakeModified,
         SnapAsked, SnapKept
<1>DoneSecured. DoneSecured'
  BY <1>fields, <1>guard, <1>saved, <1>same, <1>after, <1>e4, <1>e5
     DEF BInv, DoneSecured, AtStake, Readable, NumberTypes, HeadOnly, Ops, StakeModified,
         SnapAsked, SnapKept
<1>NotDiscarding. NotDiscarding'
  BY <1>fields, <1>guard, <1>saved, <1>same
     DEF BInv, NotDiscarding, AtStake, NumberTypes, StakeModified, OpFacts
<1>AcceptSecured. AcceptSecured'
  BY <1>fields, <1>guard, <1>saved, <1>same, <1>after, <1>e4, <1>e5
     DEF BInv, AcceptSecured, AtStake, Secured, Ops, Readable, NumberTypes, ShutdownStages,
         StakeModified, DoneSecured, CacheMeta, Cached, Steady
<1>GoneSecured. GoneSecured'
  BY <1>guard, <1>same DEF BInv, GoneSecured
<1> QED
  BY <1>frame, <1>CopyType, <1>NumberTypes, <1>QueueType, <1>HeadOnly, <1>PendingType,
     <1>NeverBoth, <1>NothingStarts, <1>ShutdownStages, <1>Owners, <1>Owned, <1>Numbers,
     <1>DatedFile, <1>DatedQueue, <1>QueueBefore, <1>CacheBefore, <1>QueueInOrder,
     <1>CacheInOrder, <1>SnapBefore, <1>QueueSame, <1>CacheSame, <1>QueueHolds,
     <1>CacheMeta, <1>CacheHolds, <1>CacheStays, <1>QueueStays, <1>ModifiedQueued,
     <1>ModifiedStored, <1>CleanQueued, <1>CleanDiscarded, <1>StakeModified, <1>SnapAsked,
     <1>SnapKept, <1>SnapStays, <1>StoreAsked, <1>StoreKept, <1>StoreStays, <1>DoneSecured,
     <1>NotDiscarding, <1>AcceptSecured, <1>GoneSecured
  DEF BInv

\* RevertCopy keeps the invariant.
LEMMA RevertCopyStep ==
  ASSUME BInv, NEW soft \in BOOLEAN, RevertCopy(soft)
  PROVE  BInv'
<1>fields.
      /\ copy.content \in Nat /\ copy.version \in Nat
      /\ copy.modified \in BOOLEAN /\ copy.registered \in BOOLEAN
      /\ Len(queue) \in Nat
      /\ OpFacts
  BY Fields DEF BInv
<1>empty. (queue # <<>> <=> Len(queue) > 0) /\ Ops = DOMAIN queue
  BY Fields DEF BInv
<1>guard.
      /\ window # "gone" /\ (Len(queue) > 0 => Started(queue, 1))
      /\ copy.modified
  BY <1>empty DEF RevertCopy, HeadStarted, Started
<1>atStake. atStake' = 0
  BY DEF RevertCopy
<1>same. UNCHANGED <<saved, suspended, file, known, closing, window, typed, events, lapses>>
  BY DEF RevertCopy
<1>edit. copy' = [copy EXCEPT !.modified = FALSE,
                          !.content = IF soft THEN @ ELSE saved,
                          !.version = IF soft THEN @ ELSE @ + 1]
  BY DEF RevertCopy
<1>calls. DiscardBackup
  BY DEF RevertCopy
<1>e1. copy' = [registered |-> copy.registered, modified |-> FALSE,
                content |-> (IF soft THEN copy.content ELSE saved),
                version |-> (IF soft THEN copy.version ELSE copy.version + 1)]
  BY <1>guard, <1>atStake, <1>same, <1>edit, <1>calls DEF BInv, CopyType, NumberTypes
<1>e2.
      /\ copy' \in [registered : BOOLEAN, modified : BOOLEAN, content : Nat, version : Nat]
      /\ copy'.registered = copy.registered /\ copy'.modified = FALSE
      /\ copy'.content = (IF soft THEN copy.content ELSE saved)
      /\ copy'.version = (IF soft THEN copy.version ELSE copy.version + 1)
  BY <1>fields, <1>empty, <1>e1 DEF BInv, NumberTypes
<1>e3.
      /\ suspended => queue' = queue /\ pending' = pending
      /\ ~suspended => /\ pending' = "queued"
                       /\ queue' \in Seq(Op)
                       /\ AddedDiscard("tracker")
                       /\ Thinned("tracker")
  BY <1>guard, <1>calls, DiscardFacts DEF BInv
<1>after.
      /\ suspended => queue' = queue /\ pending' = pending
      /\ ~suspended => /\ pending' = "queued"
                       /\ Len(queue') \in Nat
                       /\ AddedDiscard("tracker")
                       /\ Thinned("tracker")
  BY <1>fields, <1>e3
<1>e4. \A i \in 1 .. Len(queue') : IsBackup(queue', i) =>
        i \in Ops /\ IsBackup(queue, i) /\ SameWork(queue', i, queue, i)
  BY <1>fields, <1>after DEF BInv, Ops, Thinned, SameWork, SameOp, AddedDiscard
<1>e5. \A i \in 1 .. Len(queue') : IsDiscard(queue', i) =>
        \/ i \in Ops /\ IsDiscard(queue, i)
        \/ i = Len(queue') /\ Len(queue') = Len(queue) + 1
  BY <1>fields, <1>after DEF BInv, Ops, Thinned, SameWork, SameOp, AddedDiscard
<1>frame. /\ FlagType' /\ WindowType' /\ LapsesType' /\ FileType' /\ KnownType'
           /\ ClosingType' /\ FileCached'
  BY <1>same, BackupFrames
<1>CopyType. CopyType'
  BY <1>e2 DEF BInv, CopyType
<1>NumberTypes. NumberTypes'
  BY <1>atStake, <1>same DEF BInv, NumberTypes
<1>QueueType. QueueType'
  BY <1>e3 DEF BInv, QueueType
<1>HeadOnly. HeadOnly'
  BY <1>after DEF BInv, HeadOnly, Ops, Thinned, AddedDiscard
<1>PendingType. PendingType'
  BY <1>after DEF BInv, PendingType
<1>NeverBoth. NeverBoth'
  BY <1>same, <1>after, <1>e4, <1>e5
     DEF BInv, NeverBoth, Readable, Has, Known, SameWork, Thinned, AddedDiscard
<1>NothingStarts. NothingStarts'
  BY <1>after
     DEF BInv, NothingStarts, Ops, HeadOnly, SameWork, Thinned, AddedDiscard, OpFacts
<1>ShutdownStages. ShutdownStages'
  BY <1>guard, <1>same, <1>after DEF BInv, ShutdownStages
<1>Owners. Owners'
  BY <1>fields, <1>same, <1>after, <1>e4, <1>e5
     DEF BInv, Owners, Ops, HeadOnly, NothingStarts, ShutdownStages, Owned, SameWork,
         Thinned, AddedDiscard, OpFacts
<1>Owned. Owned'
  BY <1>same, <1>after, <1>e4, <1>e5
     DEF BInv, Owned, ShutdownStages, Owners, SameWork, Thinned, AddedDiscard, OpFacts
<1>Numbers. Numbers'
  BY <1>atStake, <1>same, <1>e2 DEF BInv, Numbers, NumberTypes
<1>DatedFile. DatedFile'
  BY <1>same, <1>e2 DEF BInv, DatedFile
<1>DatedQueue. DatedQueue'
  BY <1>same, <1>e2, <1>after, <1>e4, <1>e5
     DEF BInv, DatedQueue, Ops, NumberTypes, SameWork, Thinned, AddedDiscard
<1>QueueBefore. QueueBefore'
  BY <1>fields, <1>same, <1>e2, <1>after, <1>e4, <1>e5
     DEF BInv, QueueBefore, Ops, Steady, ShutdownStages, SnapBefore, SameWork, Thinned,
         AddedDiscard, OpFacts
<1>CacheBefore. CacheBefore'
  BY <1>fields, <1>same, <1>e2 DEF BInv, CacheBefore, Steady, NumberTypes, KnownType, None
<1>QueueInOrder. QueueInOrder'
  BY <1>same, <1>e4, <1>e5
     DEF BInv, QueueInOrder, Ops, Steady, NumberTypes, SnapBefore, SameWork, Thinned
<1>CacheInOrder. CacheInOrder'
  BY <1>same, <1>after, <1>e4, <1>e5 DEF BInv, CacheInOrder, Ops, Steady, SameWork, Thinned
<1>SnapBefore. SnapBefore'
  BY <1>fields, <1>guard, <1>same, <1>e2, <1>after, <1>e4, <1>e5
     DEF BInv, SnapBefore, Ops, Steady, NumberTypes, HeadOnly, ClosingType, CacheBefore,
         ShutdownStages, SameWork, Thinned
<1>QueueSame. QueueSame'
  BY <1>fields, <1>same, <1>e2, <1>after, <1>e4, <1>e5
     DEF BInv, QueueSame, Ops, Steady, QueueBefore, SnapBefore, Numbers, ShutdownStages,
         SameWork, Thinned
<1>CacheSame. CacheSame'
  BY <1>fields, <1>same, <1>e2
     DEF BInv, CacheSame, Cached, Steady, CacheBefore, QueueBefore, Ops
<1>QueueHolds. QueueHolds'
  BY <1>e2 DEF BInv, QueueHolds
<1>CacheMeta. CacheMeta'
  BY <1>e2 DEF BInv, CacheMeta
<1>CacheHolds. CacheHolds'
  BY <1>e2 DEF BInv, CacheHolds
<1>CacheStays. CacheStays'
  BY <1>e2 DEF BInv, CacheStays
<1>QueueStays. QueueStays'
  BY <1>e2 DEF BInv, QueueStays
<1>ModifiedQueued. ModifiedQueued'
  BY <1>e2 DEF BInv, ModifiedQueued
<1>ModifiedStored. ModifiedStored'
  BY <1>e2 DEF BInv, ModifiedStored
<1>CleanQueued. CleanQueued'
  BY <1>after, <1>e4 DEF BInv, CleanQueued, ShutdownStages, Owners, Thinned, AddedDiscard
<1>CleanDiscarded. CleanDiscarded'
  BY <1>same, <1>after, <1>e4 DEF BInv, CleanDiscarded
<1>StakeModified. StakeModified'
  BY <1>atStake DEF BInv, StakeModified
<1>SnapAsked. SnapAsked'
  BY <1>atStake DEF BInv, SnapAsked, AtStake, NumberTypes
<1>SnapKept. SnapKept'
  BY <1>atStake DEF BInv, SnapKept, AtStake
<1>SnapStays. SnapStays'
  BY <1>atStake DEF BInv, SnapStays, AtStake
<1>StoreAsked. StoreAsked'
  BY <1>atStake DEF BInv, StoreAsked, Ops, AtStake
<1>StoreKept. StoreKept'
  BY <1>atStake DEF BInv, StoreKept, Cached, AtStake
<1>StoreStays. StoreStays'
  BY <1>atStake DEF BInv, StoreStays, AtStake, NumberTypes
<1>DoneSecured. DoneSecured'
  BY <1>atStake, <1>e5 DEF BInv, DoneSecured, AtStake, Readable
<1>NotDiscarding. NotDiscarding'
  BY <1>atStake DEF BInv, NotDiscarding, AtStake
<1>AcceptSecured. AcceptSecured'
  BY <1>atStake, <1>e5 DEF BInv, AcceptSecured, AtStake, Secured
<1>GoneSecured. GoneSecured'
  BY <1>atStake DEF BInv, GoneSecured, AtStake
<1> QED
  BY <1>frame, <1>CopyType, <1>NumberTypes, <1>QueueType, <1>HeadOnly, <1>PendingType,
     <1>NeverBoth, <1>NothingStarts, <1>ShutdownStages, <1>Owners, <1>Owned, <1>Numbers,
     <1>DatedFile, <1>DatedQueue, <1>QueueBefore, <1>CacheBefore, <1>QueueInOrder,
     <1>CacheInOrder, <1>SnapBefore, <1>QueueSame, <1>CacheSame, <1>QueueHolds,
     <1>CacheMeta, <1>CacheHolds, <1>CacheStays, <1>QueueStays, <1>ModifiedQueued,
     <1>ModifiedStored, <1>CleanQueued, <1>CleanDiscarded, <1>StakeModified, <1>SnapAsked,
     <1>SnapKept, <1>SnapStays, <1>StoreAsked, <1>StoreKept, <1>StoreStays, <1>DoneSecured,
     <1>NotDiscarding, <1>AcceptSecured, <1>GoneSecured
  DEF BInv

\* CloseCopy keeps the invariant.
LEMMA CloseCopyStep ==
  ASSUME BInv, CloseCopy
  PROVE  BInv'
<1>fields.
      /\ copy.content \in Nat /\ copy.version \in Nat
      /\ copy.modified \in BOOLEAN /\ copy.registered \in BOOLEAN
      /\ Len(queue) \in Nat
      /\ OpFacts
  BY Fields DEF BInv
<1>empty. (queue # <<>> <=> Len(queue) > 0) /\ Ops = DOMAIN queue
  BY Fields DEF BInv
<1>guard.
      /\ window # "gone" /\ (Len(queue) > 0 => Started(queue, 1))
      /\ copy.registered
      /\ ~copy.modified
  BY <1>empty DEF CloseCopy, HeadStarted, Started
<1>events. events' = events + 1
  BY DEF CloseCopy, Bounded
<1>copy. copy' = [registered |-> FALSE, modified |-> FALSE, content |-> saved,
                  version |-> 0]
  BY DEF CloseCopy
<1>lapses. lapses' = IF queue # <<>> \/ known # None \/ closing.stage # "none"
                   THEN lapses \cup {"closed"} ELSE lapses
  BY DEF CloseCopy
<1>same. UNCHANGED <<saved, suspended, file, known, closing, window, typed, atStake>>
  BY DEF CloseCopy
<1>calls. DiscardBackup
  BY DEF CloseCopy
<1>e1. copy' = [registered |-> FALSE, modified |-> FALSE, content |-> saved, version |-> 0]
  BY <1>guard, <1>events, <1>copy, <1>lapses, <1>same, <1>calls
  DEF BInv, CopyType, NumberTypes
<1>e2.
      /\ copy' \in [registered : BOOLEAN, modified : BOOLEAN, content : Nat, version : Nat]
      /\ copy'.registered = FALSE /\ copy'.modified = FALSE
      /\ copy'.content = saved /\ copy'.version = 0
  BY <1>fields, <1>empty, <1>e1 DEF BInv, NumberTypes
<1>e3.
      /\ suspended => queue' = queue /\ pending' = pending
      /\ ~suspended => /\ pending' = "queued"
                       /\ queue' \in Seq(Op)
                       /\ AddedDiscard("tracker")
                       /\ Thinned("tracker")
  BY <1>guard, <1>calls, DiscardFacts DEF BInv
<1>after.
      /\ suspended => queue' = queue /\ pending' = pending
      /\ ~suspended => /\ pending' = "queued"
                       /\ Len(queue') \in Nat
                       /\ AddedDiscard("tracker")
                       /\ Thinned("tracker")
  BY <1>fields, <1>e3
<1>e4. \A i \in 1 .. Len(queue') : IsBackup(queue', i) =>
        i \in Ops /\ IsBackup(queue, i) /\ SameWork(queue', i, queue, i)
  BY <1>fields, <1>after DEF BInv, Ops, Thinned, SameWork, SameOp, AddedDiscard
<1>e5. \A i \in 1 .. Len(queue') : IsDiscard(queue', i) =>
        \/ i \in Ops /\ IsDiscard(queue, i)
        \/ i = Len(queue') /\ Len(queue') = Len(queue) + 1
  BY <1>fields, <1>after DEF BInv, Ops, Thinned, SameWork, SameOp, AddedDiscard
<1>frame. /\ FlagType' /\ WindowType' /\ FileType' /\ KnownType' /\ ClosingType'
           /\ FileCached'
  BY <1>same, BackupFrames
<1>CopyType. CopyType'
  BY <1>e2 DEF BInv, CopyType
<1>NumberTypes. NumberTypes'
  BY <1>events, <1>same DEF BInv, NumberTypes
<1>QueueType. QueueType'
  BY <1>e3 DEF BInv, QueueType
<1>HeadOnly. HeadOnly'
  BY <1>after DEF BInv, HeadOnly, Ops, Thinned, AddedDiscard
<1>PendingType. PendingType'
  BY <1>after DEF BInv, PendingType
<1>LapsesType. LapsesType'
  BY <1>lapses DEF BInv, LapsesType
<1>NeverBoth. NeverBoth'
  BY <1>same, <1>after, <1>e4, <1>e5
     DEF BInv, NeverBoth, Readable, Has, Known, SameWork, Thinned, AddedDiscard
<1>NothingStarts. NothingStarts'
  BY <1>after
     DEF BInv, NothingStarts, Ops, HeadOnly, SameWork, Thinned, AddedDiscard, OpFacts
<1>ShutdownStages. ShutdownStages'
  BY <1>guard, <1>same, <1>after DEF BInv, ShutdownStages
<1>Owners. Owners'
  BY <1>fields, <1>same, <1>after, <1>e4, <1>e5
     DEF BInv, Owners, Ops, HeadOnly, NothingStarts, ShutdownStages, Owned, SameWork,
         Thinned, AddedDiscard, OpFacts
<1>Owned. Owned'
  BY <1>same, <1>after, <1>e4, <1>e5
     DEF BInv, Owned, ShutdownStages, Owners, SameWork, Thinned, AddedDiscard, OpFacts
<1>Numbers. Numbers'
  BY <1>copy, <1>same DEF BInv, Numbers
<1>DatedFile. DatedFile'
  BY <1>copy, <1>same DEF BInv, DatedFile
<1>DatedQueue. DatedQueue'
  BY <1>same, <1>e2, <1>e4, <1>e5
     DEF BInv, DatedQueue, Ops, ShutdownStages, SameWork, Thinned
<1>QueueBefore. QueueBefore'
  BY <1>copy, <1>lapses, <1>after, <1>e4, <1>e5
     DEF BInv, QueueBefore, Ops, Steady, NumberTypes
<1>CacheBefore. CacheBefore'
  BY <1>lapses, <1>same DEF BInv, CacheBefore, Steady, NumberTypes, KnownType, None
<1>QueueInOrder. QueueInOrder'
  BY <1>lapses, <1>e4, <1>e5 DEF BInv, QueueInOrder, Ops, Steady
<1>CacheInOrder. CacheInOrder'
  BY <1>lapses, <1>same DEF BInv, CacheInOrder, Steady, NumberTypes, None, Partial
<1>SnapBefore. SnapBefore'
  BY <1>copy, <1>lapses, <1>same, <1>e2 DEF BInv, SnapBefore, Steady, NumberTypes
<1>QueueSame. QueueSame'
  BY <1>copy, <1>lapses, <1>after, <1>e4, <1>e5
     DEF BInv, QueueSame, Ops, Steady, NumberTypes
<1>CacheSame. CacheSame'
  BY <1>lapses, <1>same
     DEF BInv, CacheSame, Cached, Steady, Readable, NumberTypes, KnownType, None
<1>QueueHolds. QueueHolds'
  BY <1>e2 DEF BInv, QueueHolds
<1>CacheMeta. CacheMeta'
  BY <1>e2 DEF BInv, CacheMeta
<1>CacheHolds. CacheHolds'
  BY <1>e2 DEF BInv, CacheHolds
<1>CacheStays. CacheStays'
  BY <1>e2 DEF BInv, CacheStays
<1>QueueStays. QueueStays'
  BY <1>e2 DEF BInv, QueueStays
<1>ModifiedQueued. ModifiedQueued'
  BY <1>e2 DEF BInv, ModifiedQueued
<1>ModifiedStored. ModifiedStored'
  BY <1>e2 DEF BInv, ModifiedStored
<1>CleanQueued. CleanQueued'
  BY <1>same, <1>e2, <1>after, <1>e4 DEF BInv, CleanQueued, AddedDiscard, OpFacts
<1>CleanDiscarded. CleanDiscarded'
  BY <1>same, <1>after, <1>e4 DEF BInv, CleanDiscarded
<1>StakeModified. StakeModified'
  BY <1>guard, <1>copy, <1>same DEF BInv, StakeModified
<1>SnapAsked. SnapAsked'
  BY <1>lapses, <1>same DEF BInv, SnapAsked, AtStake, NumberTypes
<1>SnapKept. SnapKept'
  BY <1>lapses, <1>same DEF BInv, SnapKept, AtStake
<1>SnapStays. SnapStays'
  BY <1>lapses, <1>same DEF BInv, SnapStays, AtStake
<1>StoreAsked. StoreAsked'
  BY <1>lapses, <1>after, <1>e4, <1>e5 DEF BInv, StoreAsked, Ops, AtStake
<1>StoreKept. StoreKept'
  BY <1>lapses, <1>same DEF BInv, StoreKept, Cached, AtStake
<1>StoreStays. StoreStays'
  BY <1>lapses, <1>same DEF BInv, StoreStays, AtStake, NumberTypes
<1>DoneSecured. DoneSecured'
  BY <1>lapses, <1>same, <1>after, <1>e4, <1>e5 DEF BInv, DoneSecured, AtStake, Readable
<1>NotDiscarding. NotDiscarding'
  BY <1>lapses, <1>same DEF BInv, NotDiscarding, AtStake
<1>AcceptSecured. AcceptSecured'
  BY <1>fields, <1>guard, <1>lapses, <1>same, <1>after, <1>e4, <1>e5
     DEF BInv, AcceptSecured, AtStake, Secured, Ops, Readable, NumberTypes, ShutdownStages,
         StakeModified, DoneSecured, CacheMeta, Cached, Steady
<1>GoneSecured. GoneSecured'
  BY <1>lapses, <1>same DEF BInv, GoneSecured, AtStake
<1> QED
  BY <1>frame, <1>CopyType, <1>NumberTypes, <1>QueueType, <1>HeadOnly, <1>PendingType,
     <1>LapsesType, <1>NeverBoth, <1>NothingStarts, <1>ShutdownStages, <1>Owners, <1>Owned,
     <1>Numbers, <1>DatedFile, <1>DatedQueue, <1>QueueBefore, <1>CacheBefore,
     <1>QueueInOrder, <1>CacheInOrder, <1>SnapBefore, <1>QueueSame, <1>CacheSame,
     <1>QueueHolds, <1>CacheMeta, <1>CacheHolds, <1>CacheStays, <1>QueueStays,
     <1>ModifiedQueued, <1>ModifiedStored, <1>CleanQueued, <1>CleanDiscarded,
     <1>StakeModified, <1>SnapAsked, <1>SnapKept, <1>SnapStays, <1>StoreAsked, <1>StoreKept,
     <1>StoreStays, <1>DoneSecured, <1>NotDiscarding, <1>AcceptSecured, <1>GoneSecured
  DEF BInv

\* OpenCopy keeps the invariant.
LEMMA OpenCopyStep ==
  ASSUME BInv, OpenCopy
  PROVE  BInv'
<1>fields.
      /\ copy.content \in Nat /\ copy.version \in Nat
      /\ copy.modified \in BOOLEAN /\ copy.registered \in BOOLEAN
      /\ Len(queue) \in Nat
      /\ OpFacts
  BY Fields DEF BInv
<1>empty. (queue # <<>> <=> Len(queue) > 0) /\ Ops = DOMAIN queue
  BY Fields DEF BInv
<1>guard.
      /\ window # "gone" /\ (Len(queue) > 0 => Started(queue, 1))
      /\ ~copy.registered
  BY <1>empty DEF OpenCopy, HeadStarted, Started
<1>same. UNCHANGED <<saved, pending, suspended, queue, file, known, closing, window,
                     typed, events, lapses, atStake>>
  BY DEF OpenCopy
<1>edit. copy' = [copy EXCEPT !.registered = TRUE, !.content = saved]
  BY DEF OpenCopy
<1>e1. copy' = [registered |-> TRUE, modified |-> copy.modified, content |-> saved,
                version |-> copy.version]
  BY <1>guard, <1>same, <1>edit DEF BInv, CopyType, NumberTypes
<1>e2.
      /\ copy' \in [registered : BOOLEAN, modified : BOOLEAN, content : Nat, version : Nat]
      /\ copy'.registered = TRUE /\ copy'.modified = copy.modified
      /\ copy'.content = saved /\ copy'.version = copy.version
  BY <1>fields, <1>empty, <1>e1 DEF BInv, NumberTypes
<1>frame. /\ NumberTypes' /\ QueueType' /\ HeadOnly' /\ PendingType' /\ FlagType'
           /\ WindowType' /\ LapsesType' /\ FileType' /\ KnownType' /\ ClosingType'
           /\ FileCached' /\ NeverBoth' /\ NothingStarts' /\ ShutdownStages' /\ Owners'
           /\ Owned' /\ QueueInOrder' /\ CacheInOrder' /\ SnapAsked' /\ SnapKept'
           /\ SnapStays' /\ StoreAsked' /\ StoreKept' /\ StoreStays' /\ DoneSecured'
           /\ NotDiscarding' /\ AcceptSecured' /\ GoneSecured'
  BY <1>same, BackupFrames
<1>CopyType. CopyType'
  BY <1>e2 DEF BInv, CopyType
<1>Numbers. Numbers'
  BY <1>same, <1>e2 DEF BInv, Numbers
<1>DatedFile. DatedFile'
  BY <1>guard, <1>same, <1>e2 DEF BInv, DatedFile, Numbers
<1>DatedQueue. DatedQueue'
  BY <1>guard, <1>same, <1>e2 DEF BInv, DatedQueue, Ops, HeadOnly, Numbers
<1>QueueBefore. QueueBefore'
  BY <1>same, <1>e2 DEF BInv, QueueBefore, Ops, Steady
<1>CacheBefore. CacheBefore'
  BY <1>same, <1>e2 DEF BInv, CacheBefore, Steady
<1>SnapBefore. SnapBefore'
  BY <1>same, <1>e2 DEF BInv, SnapBefore, Ops, Steady
<1>QueueSame. QueueSame'
  BY <1>guard, <1>same, <1>e2 DEF BInv, QueueSame, Ops, Steady, SnapBefore, Numbers
<1>CacheSame. CacheSame'
  BY <1>guard, <1>same, <1>e2
     DEF BInv, CacheSame, Cached, Steady, QueueSame, Numbers, OpFacts
<1>QueueHolds. QueueHolds'
  BY <1>same, <1>e2 DEF BInv, QueueHolds, Ops, Steady
<1>CacheMeta. CacheMeta'
  BY <1>same, <1>e2 DEF BInv, CacheMeta
<1>CacheHolds. CacheHolds'
  BY <1>same, <1>e2 DEF BInv, CacheHolds, Cached, Steady
<1>CacheStays. CacheStays'
  BY <1>same, <1>e2 DEF BInv, CacheStays, Ops, Cached, Steady, NumberTypes, HeadOnly
<1>QueueStays. QueueStays'
  BY <1>same, <1>e2 DEF BInv, QueueStays, Ops, Steady
<1>ModifiedQueued. ModifiedQueued'
  BY <1>same, <1>e2 DEF BInv, ModifiedQueued
<1>ModifiedStored. ModifiedStored'
  BY <1>same, <1>e2 DEF BInv, ModifiedStored
<1>CleanQueued. CleanQueued'
  BY <1>same, <1>e2 DEF BInv, CleanQueued
<1>CleanDiscarded. CleanDiscarded'
  BY <1>same, <1>e2 DEF BInv, CleanDiscarded
<1>StakeModified. StakeModified'
  BY <1>guard, <1>same, <1>e2 DEF BInv, StakeModified, Numbers
<1> QED
  BY <1>frame, <1>CopyType, <1>Numbers, <1>DatedFile, <1>DatedQueue, <1>QueueBefore,
     <1>CacheBefore, <1>SnapBefore, <1>QueueSame, <1>CacheSame, <1>QueueHolds, <1>CacheMeta,
     <1>CacheHolds, <1>CacheStays, <1>QueueStays, <1>ModifiedQueued, <1>ModifiedStored,
     <1>CleanQueued, <1>CleanDiscarded, <1>StakeModified
  DEF BInv

\* ShutdownModified keeps the invariant.
LEMMA ShutdownModifiedStep ==
  ASSUME BInv, ShutdownModifiedCase
  PROVE  BInv'
<1>fields.
      /\ copy.content \in Nat /\ copy.version \in Nat
      /\ copy.modified \in BOOLEAN /\ copy.registered \in BOOLEAN
      /\ Len(queue) \in Nat
      /\ OpFacts
  BY Fields DEF BInv
<1>empty. (queue # <<>> <=> Len(queue) > 0) /\ Ops = DOMAIN queue
  BY Fields DEF BInv
<1>guard.
      /\ window # "gone" /\ (Len(queue) > 0 => Started(queue, 1))
      /\ window = "open"
      /\ closing.stage = "none"
      /\ copy.modified
  BY <1>empty
  DEF ShutdownModifiedCase, BeforeShutdown, HandleModified, BeginBackup, BeginConfirm,
      HeadStarted, Started
<1>events. events' = events + 1
  BY DEF ShutdownModifiedCase, BeforeShutdown, HandleModified, BeginBackup, BeginConfirm,
         Bounded
<1>suspended. suspended' = TRUE
  BY DEF ShutdownModifiedCase, BeforeShutdown, HandleModified, BeginBackup, BeginConfirm
<1>pending. pending' = "none"
  BY DEF ShutdownModifiedCase, BeforeShutdown, HandleModified, BeginBackup, BeginConfirm
<1>atStake. atStake' = copy.content
  BY DEF ShutdownModifiedCase, BeforeShutdown, HandleModified, BeginBackup, BeginConfirm
<1>closing. closing' \in {[stage |-> "autoSave"], [stage |-> "backup"], [stage |-> "confirm"]}
  BY DEF ShutdownModifiedCase, BeforeShutdown, HandleModified, BeginBackup, BeginConfirm
<1>same. UNCHANGED <<copy, saved, file, known, window, typed, lapses>>
  BY DEF ShutdownModifiedCase, BeforeShutdown, HandleModified, BeginBackup, BeginConfirm
<1>calls. queue' = Cancelled("tracker")
  BY DEF ShutdownModifiedCase, BeforeShutdown, HandleModified, BeginBackup, BeginConfirm
<1>e1. queue' \in Seq(Op) /\ Len(queue') = Len(queue) /\ Thinned("tracker")
  BY <1>guard, <1>calls, CancelFacts DEF BInv
<1>after. Len(queue') \in Nat /\ Len(queue') = Len(queue) /\ Thinned("tracker")
  BY <1>fields, <1>e1
<1>frame. /\ CopyType' /\ WindowType' /\ LapsesType' /\ FileType' /\ KnownType'
           /\ FileCached' /\ DatedFile' /\ CacheBefore' /\ CacheSame' /\ CacheMeta'
           /\ CacheHolds'
  BY <1>same, BackupFrames
<1>NumberTypes. NumberTypes'
  BY <1>fields, <1>events, <1>atStake, <1>same DEF BInv, NumberTypes
<1>QueueType. QueueType'
  BY <1>e1 DEF BInv, QueueType
<1>HeadOnly. HeadOnly'
  BY <1>after DEF BInv, HeadOnly, Ops, Thinned
<1>PendingType. PendingType'
  BY <1>pending DEF BInv, PendingType
<1>FlagType. FlagType'
  BY <1>guard, <1>suspended, <1>same DEF BInv, FlagType
<1>ClosingType. ClosingType'
  BY <1>closing DEF BInv, ClosingType
<1>NeverBoth. NeverBoth'
  BY <1>same, <1>after
     DEF BInv, NeverBoth, Readable, Has, Known, HeadOnly, Ops, ShutdownStages, Thinned,
         OpFacts, SameWork, SameOp
<1>NothingStarts. NothingStarts'
  BY <1>after DEF BInv, NothingStarts, Ops, Thinned, OpFacts, SameWork, SameOp
<1>ShutdownStages. ShutdownStages'
  BY <1>guard, <1>suspended, <1>pending, <1>closing, <1>same DEF BInv, ShutdownStages
<1>Owners. Owners'
  BY <1>guard, <1>same, <1>after
     DEF BInv, Owners, Ops, HeadOnly, Owned, Thinned, OpFacts, SameWork
<1>Owned. Owned'
  BY <1>pending, <1>closing DEF BInv, Owned
<1>Numbers. Numbers'
  BY <1>atStake, <1>same DEF BInv, Numbers
<1>DatedQueue. DatedQueue'
  BY <1>same, <1>after
     DEF BInv, DatedQueue, Ops, NumberTypes, ShutdownStages, Thinned, OpFacts, SameWork
<1>QueueBefore. QueueBefore'
  BY <1>same, <1>after
     DEF BInv, QueueBefore, Ops, Steady, SnapBefore, Thinned, OpFacts, SameWork
<1>QueueInOrder. QueueInOrder'
  BY <1>same, <1>after
     DEF BInv, QueueInOrder, Ops, Steady, SnapBefore, Thinned, OpFacts, SameWork
<1>CacheInOrder. CacheInOrder'
  BY <1>same, <1>after DEF BInv, CacheInOrder, Ops, Steady, Thinned, OpFacts, SameWork
<1>SnapBefore. SnapBefore'
  BY <1>closing DEF BInv, SnapBefore
<1>QueueSame. QueueSame'
  BY <1>same, <1>after
     DEF BInv, QueueSame, Ops, Steady, ShutdownStages, Thinned, OpFacts, SameWork, SameOp
<1>QueueHolds. QueueHolds'
  BY <1>same, <1>after
     DEF BInv, QueueHolds, Ops, Steady, ShutdownStages, Thinned, OpFacts, SameWork
<1>CacheStays. CacheStays'
  BY <1>same, <1>after
     DEF BInv, CacheStays, Ops, Cached, Steady, ShutdownStages, Thinned, OpFacts, SameWork,
         SameOp
<1>QueueStays. QueueStays'
  BY <1>same, <1>after DEF BInv, QueueStays, Ops, Steady, Thinned, OpFacts, SameWork, SameOp
<1>ModifiedQueued. ModifiedQueued'
  BY <1>pending DEF BInv, ModifiedQueued
<1>ModifiedStored. ModifiedStored'
  BY <1>suspended DEF BInv, ModifiedStored
<1>CleanQueued. CleanQueued'
  BY <1>pending DEF BInv, CleanQueued
<1>CleanDiscarded. CleanDiscarded'
  BY <1>suspended DEF BInv, CleanDiscarded
<1>StakeModified. StakeModified'
  BY <1>fields, <1>guard, <1>atStake, <1>same DEF BInv, StakeModified
<1>SnapAsked. SnapAsked'
  BY <1>closing DEF BInv, SnapAsked
<1>SnapKept. SnapKept'
  BY <1>closing DEF BInv, SnapKept
<1>SnapStays. SnapStays'
  BY <1>closing DEF BInv, SnapStays
<1>StoreAsked. StoreAsked'
  BY <1>closing DEF BInv, StoreAsked
<1>StoreKept. StoreKept'
  BY <1>closing DEF BInv, StoreKept
<1>StoreStays. StoreStays'
  BY <1>closing DEF BInv, StoreStays
<1>DoneSecured. DoneSecured'
  BY <1>closing DEF BInv, DoneSecured
<1>NotDiscarding. NotDiscarding'
  BY <1>closing DEF BInv, NotDiscarding
<1>AcceptSecured. AcceptSecured'
  BY <1>guard, <1>same DEF BInv, AcceptSecured
<1>GoneSecured. GoneSecured'
  BY <1>guard, <1>same DEF BInv, GoneSecured
<1> QED
  BY <1>frame, <1>NumberTypes, <1>QueueType, <1>HeadOnly, <1>PendingType, <1>FlagType,
     <1>ClosingType, <1>NeverBoth, <1>NothingStarts, <1>ShutdownStages, <1>Owners, <1>Owned,
     <1>Numbers, <1>DatedQueue, <1>QueueBefore, <1>QueueInOrder, <1>CacheInOrder,
     <1>SnapBefore, <1>QueueSame, <1>QueueHolds, <1>CacheStays, <1>QueueStays,
     <1>ModifiedQueued, <1>ModifiedStored, <1>CleanQueued, <1>CleanDiscarded,
     <1>StakeModified, <1>SnapAsked, <1>SnapKept, <1>SnapStays, <1>StoreAsked, <1>StoreKept,
     <1>StoreStays, <1>DoneSecured, <1>NotDiscarding, <1>AcceptSecured, <1>GoneSecured
  DEF BInv

\* ShutdownClean keeps the invariant.
LEMMA ShutdownCleanStep ==
  ASSUME BInv, ShutdownCleanCase
  PROVE  BInv'
<1>fields.
      /\ copy.content \in Nat /\ copy.version \in Nat
      /\ copy.modified \in BOOLEAN /\ copy.registered \in BOOLEAN
      /\ Len(queue) \in Nat
      /\ OpFacts
  BY Fields DEF BInv
<1>empty. (queue # <<>> <=> Len(queue) > 0) /\ Ops = DOMAIN queue
  BY Fields DEF BInv
<1>guard.
      /\ window # "gone" /\ (Len(queue) > 0 => Started(queue, 1))
      /\ window = "open"
      /\ closing.stage = "none"
      /\ ~copy.modified
  BY <1>empty DEF ShutdownCleanCase, BeforeShutdown, HeadStarted, Started
<1>events. events' = events + 1
  BY DEF ShutdownCleanCase, BeforeShutdown, Bounded
<1>suspended. suspended' = TRUE
  BY DEF ShutdownCleanCase, BeforeShutdown
<1>pending. pending' = "none"
  BY DEF ShutdownCleanCase, BeforeShutdown
<1>atStake. atStake' = 0
  BY DEF ShutdownCleanCase, BeforeShutdown
<1>calls.
      \/ /\ closing' \in {[stage |-> "folder"], [stage |-> "discard"]}
         /\ queue' = Cancelled("tracker")
      \/ /\ closing' = [stage |-> "discard"]
         /\ queue' = Append(Cancelled("tracker"), DiscardOp("closing"))
  BY DEF ShutdownCleanCase, BeforeShutdown
<1>same. UNCHANGED <<copy, saved, file, known, window, typed, lapses>>
  BY DEF ShutdownCleanCase, BeforeShutdown
<1>e1.
      /\ closing' \in {[stage |-> "folder"], [stage |-> "discard"]}
      /\ queue' \in Seq(Op) /\ Thinned("tracker")
      /\ \/ Len(queue') = Len(queue)
         \/ AddedDiscard("closing") /\ closing' = [stage |-> "discard"]
  BY <1>guard, <1>calls, CancelFacts, CancelDiscardFacts DEF BInv
<1>after.
      /\ closing' \in {[stage |-> "folder"], [stage |-> "discard"]}
      /\ Len(queue') \in Nat /\ Thinned("tracker")
      /\ \/ Len(queue') = Len(queue)
         \/ AddedDiscard("closing") /\ closing' = [stage |-> "discard"]
  BY <1>fields, <1>e1
<1>frame. /\ CopyType' /\ WindowType' /\ LapsesType' /\ FileType' /\ KnownType'
           /\ FileCached' /\ DatedFile' /\ CacheBefore' /\ CacheSame' /\ CacheMeta'
           /\ CacheHolds'
  BY <1>same, BackupFrames
<1>NumberTypes. NumberTypes'
  BY <1>events, <1>atStake, <1>same DEF BInv, NumberTypes
<1>QueueType. QueueType'
  BY <1>e1 DEF BInv, QueueType
<1>HeadOnly. HeadOnly'
  BY <1>after DEF BInv, HeadOnly, Ops, Thinned, AddedDiscard
<1>PendingType. PendingType'
  BY <1>pending DEF BInv, PendingType
<1>FlagType. FlagType'
  BY <1>guard, <1>suspended, <1>same DEF BInv, FlagType
<1>ClosingType. ClosingType'
  BY <1>after DEF BInv, ClosingType
<1>NeverBoth. NeverBoth'
  BY <1>same, <1>after
     DEF BInv, NeverBoth, Readable, Has, Known, HeadOnly, Ops, ShutdownStages, Thinned,
         AddedDiscard, OpFacts, SameWork, SameOp
<1>NothingStarts. NothingStarts'
  BY <1>after DEF BInv, NothingStarts, Ops, Thinned, AddedDiscard, OpFacts, SameWork
<1>ShutdownStages. ShutdownStages'
  BY <1>guard, <1>suspended, <1>pending, <1>same, <1>after DEF BInv, ShutdownStages
<1>Owners. Owners'
  BY <1>fields, <1>guard, <1>after
     DEF BInv, Owners, Ops, HeadOnly, NothingStarts, Thinned, AddedDiscard, OpFacts,
         SameWork
<1>Owned. Owned'
  BY <1>pending, <1>after DEF BInv, Owned
<1>Numbers. Numbers'
  BY <1>atStake, <1>same DEF BInv, Numbers, NumberTypes
<1>DatedQueue. DatedQueue'
  BY <1>same, <1>after
     DEF BInv, DatedQueue, Ops, NumberTypes, ShutdownStages, Thinned, AddedDiscard, OpFacts,
         SameWork, SameOp
<1>QueueBefore. QueueBefore'
  BY <1>same, <1>after
     DEF BInv, QueueBefore, Ops, Steady, ShutdownStages, SnapBefore, Thinned, AddedDiscard,
         OpFacts, SameWork
<1>QueueInOrder. QueueInOrder'
  BY <1>same, <1>after
     DEF BInv, QueueInOrder, Ops, Steady, ShutdownStages, SnapBefore, Thinned, AddedDiscard,
         OpFacts, SameWork
<1>CacheInOrder. CacheInOrder'
  BY <1>same, <1>after
     DEF BInv, CacheInOrder, Ops, Steady, Thinned, AddedDiscard, OpFacts, SameWork, SameOp
<1>SnapBefore. SnapBefore'
  BY <1>after DEF BInv, SnapBefore
<1>QueueSame. QueueSame'
  BY <1>same, <1>after
     DEF BInv, QueueSame, Ops, Steady, ShutdownStages, Thinned, AddedDiscard, OpFacts,
         SameWork, SameOp
<1>QueueHolds. QueueHolds'
  BY <1>guard, <1>same DEF BInv, QueueHolds
<1>CacheStays. CacheStays'
  BY <1>guard, <1>same DEF BInv, CacheStays
<1>QueueStays. QueueStays'
  BY <1>guard, <1>same DEF BInv, QueueStays
<1>ModifiedQueued. ModifiedQueued'
  BY <1>pending DEF BInv, ModifiedQueued
<1>ModifiedStored. ModifiedStored'
  BY <1>suspended DEF BInv, ModifiedStored
<1>CleanQueued. CleanQueued'
  BY <1>pending DEF BInv, CleanQueued
<1>CleanDiscarded. CleanDiscarded'
  BY <1>suspended DEF BInv, CleanDiscarded
<1>StakeModified. StakeModified'
  BY <1>atStake DEF BInv, StakeModified
<1>SnapAsked. SnapAsked'
  BY <1>after DEF BInv, SnapAsked
<1>SnapKept. SnapKept'
  BY <1>after DEF BInv, SnapKept
<1>SnapStays. SnapStays'
  BY <1>after DEF BInv, SnapStays
<1>StoreAsked. StoreAsked'
  BY <1>after DEF BInv, StoreAsked
<1>StoreKept. StoreKept'
  BY <1>after DEF BInv, StoreKept
<1>StoreStays. StoreStays'
  BY <1>after DEF BInv, StoreStays
<1>DoneSecured. DoneSecured'
  BY <1>after DEF BInv, DoneSecured
<1>NotDiscarding. NotDiscarding'
  BY <1>atStake DEF BInv, NotDiscarding, AtStake
<1>AcceptSecured. AcceptSecured'
  BY <1>atStake DEF BInv, AcceptSecured, AtStake
<1>GoneSecured. GoneSecured'
  BY <1>atStake DEF BInv, GoneSecured, AtStake
<1> QED
  BY <1>frame, <1>NumberTypes, <1>QueueType, <1>HeadOnly, <1>PendingType, <1>FlagType,
     <1>ClosingType, <1>NeverBoth, <1>NothingStarts, <1>ShutdownStages, <1>Owners, <1>Owned,
     <1>Numbers, <1>DatedQueue, <1>QueueBefore, <1>QueueInOrder, <1>CacheInOrder,
     <1>SnapBefore, <1>QueueSame, <1>QueueHolds, <1>CacheStays, <1>QueueStays,
     <1>ModifiedQueued, <1>ModifiedStored, <1>CleanQueued, <1>CleanDiscarded,
     <1>StakeModified, <1>SnapAsked, <1>SnapKept, <1>SnapStays, <1>StoreAsked, <1>StoreKept,
     <1>StoreStays, <1>DoneSecured, <1>NotDiscarding, <1>AcceptSecured, <1>GoneSecured
  DEF BInv

\* AutoSavedModified keeps the invariant.
LEMMA AutoSavedModifiedStep ==
  ASSUME BInv, AutoSavedModifiedCase
  PROVE  BInv'
<1>fields.
      /\ copy.content \in Nat /\ copy.version \in Nat
      /\ copy.modified \in BOOLEAN /\ copy.registered \in BOOLEAN
      /\ Len(queue) \in Nat
      /\ OpFacts
  BY Fields DEF BInv
<1>empty. (queue # <<>> <=> Len(queue) > 0) /\ Ops = DOMAIN queue
  BY Fields DEF BInv
<1>guard.
      /\ window # "gone" /\ (Len(queue) > 0 => Started(queue, 1))
      /\ closing.stage = "autoSave"
      /\ copy.modified
  BY <1>empty
  DEF AutoSavedModifiedCase, AutoSaved, HandleModified, BeginBackup, BeginConfirm, Stays,
      HeadStarted, Started
<1>closing. closing' \in {[stage |-> "backup"], [stage |-> "confirm"]}
  BY DEF AutoSavedModifiedCase, AutoSaved, HandleModified, BeginBackup, BeginConfirm, Stays
<1>same. UNCHANGED <<copy, saved, pending, suspended, queue, file, known, window, typed,
                     events, lapses, atStake>>
  BY DEF AutoSavedModifiedCase, AutoSaved, HandleModified, BeginBackup, BeginConfirm, Stays
<1>frame. /\ CopyType' /\ NumberTypes' /\ QueueType' /\ HeadOnly' /\ PendingType'
           /\ FlagType' /\ WindowType' /\ LapsesType' /\ FileType' /\ KnownType'
           /\ FileCached' /\ NeverBoth' /\ NothingStarts' /\ Numbers' /\ DatedFile'
           /\ DatedQueue' /\ QueueBefore' /\ CacheBefore' /\ QueueInOrder'
           /\ CacheInOrder' /\ QueueSame' /\ CacheSame' /\ QueueHolds' /\ CacheMeta'
           /\ CacheHolds' /\ CacheStays' /\ QueueStays' /\ ModifiedQueued'
           /\ ModifiedStored' /\ CleanQueued' /\ CleanDiscarded' /\ StakeModified'
           /\ AcceptSecured' /\ GoneSecured'
  BY <1>same, BackupFrames
<1>ClosingType. ClosingType'
  BY <1>closing DEF BInv, ClosingType
<1>ShutdownStages. ShutdownStages'
  BY <1>guard, <1>closing, <1>same DEF BInv, ShutdownStages
<1>Owners. Owners'
  BY <1>guard, <1>same DEF BInv, Owners, Ops
<1>Owned. Owned'
  BY <1>closing, <1>same DEF BInv, Owned
<1>SnapBefore. SnapBefore'
  BY <1>closing DEF BInv, SnapBefore
<1>SnapAsked. SnapAsked'
  BY <1>closing DEF BInv, SnapAsked
<1>SnapKept. SnapKept'
  BY <1>closing DEF BInv, SnapKept
<1>SnapStays. SnapStays'
  BY <1>closing DEF BInv, SnapStays
<1>StoreAsked. StoreAsked'
  BY <1>closing DEF BInv, StoreAsked
<1>StoreKept. StoreKept'
  BY <1>closing DEF BInv, StoreKept
<1>StoreStays. StoreStays'
  BY <1>closing DEF BInv, StoreStays
<1>DoneSecured. DoneSecured'
  BY <1>closing DEF BInv, DoneSecured
<1>NotDiscarding. NotDiscarding'
  BY <1>closing DEF BInv, NotDiscarding
<1> QED
  BY <1>frame, <1>ClosingType, <1>ShutdownStages, <1>Owners, <1>Owned, <1>SnapBefore,
     <1>SnapAsked, <1>SnapKept, <1>SnapStays, <1>StoreAsked, <1>StoreKept, <1>StoreStays,
     <1>DoneSecured, <1>NotDiscarding
  DEF BInv

\* AutoSavedAll keeps the invariant.
LEMMA AutoSavedAllStep ==
  ASSUME BInv, AutoSavedAllCase
  PROVE  BInv'
<1>fields.
      /\ copy.content \in Nat /\ copy.version \in Nat
      /\ copy.modified \in BOOLEAN /\ copy.registered \in BOOLEAN
      /\ Len(queue) \in Nat
      /\ OpFacts
  BY Fields DEF BInv
<1>empty. (queue # <<>> <=> Len(queue) > 0) /\ Ops = DOMAIN queue
  BY Fields DEF BInv
<1>guard.
      /\ window # "gone" /\ (Len(queue) > 0 => Started(queue, 1))
      /\ closing.stage = "autoSave"
      /\ ~copy.modified
  BY <1>empty DEF AutoSavedAllCase, AutoSaved, DiscardHandled, Stays, HeadStarted, Started
<1>closing. closing' = [stage |-> "discard"]
  BY DEF AutoSavedAllCase, AutoSaved, DiscardHandled, Stays
<1>same. UNCHANGED <<copy, saved, pending, suspended, file, known, window, typed, events,
                     lapses, atStake>>
  BY DEF AutoSavedAllCase, AutoSaved, DiscardHandled, Stays
<1>calls. queue' = Append(queue, DiscardOp("closing"))
  BY DEF AutoSavedAllCase, AutoSaved, DiscardHandled, Stays
<1>e1. queue' \in Seq(Op) /\ AddedDiscard("closing") /\ Idem
  BY <1>guard, <1>calls, AddDiscardFacts DEF BInv
<1>after. Len(queue') \in Nat /\ AddedDiscard("closing") /\ Idem
  BY <1>fields, <1>e1
<1>frame. /\ CopyType' /\ NumberTypes' /\ PendingType' /\ FlagType' /\ WindowType'
           /\ LapsesType' /\ FileType' /\ KnownType' /\ FileCached' /\ Numbers'
           /\ DatedFile' /\ CacheBefore' /\ CacheSame' /\ CacheMeta' /\ CacheHolds'
           /\ ModifiedStored' /\ StakeModified' /\ GoneSecured'
  BY <1>same, BackupFrames
<1>QueueType. QueueType'
  BY <1>e1 DEF BInv, QueueType
<1>HeadOnly. HeadOnly'
  BY <1>after DEF BInv, HeadOnly, Ops, AddedDiscard, Idem, OpFacts, SameWork, SameOp
<1>ClosingType. ClosingType'
  BY <1>closing DEF BInv, ClosingType
<1>NeverBoth. NeverBoth'
  BY <1>same, <1>after
     DEF BInv, NeverBoth, Readable, Has, Known, HeadOnly, Ops, ShutdownStages, AddedDiscard,
         Idem, OpFacts, SameWork, SameOp
<1>NothingStarts. NothingStarts'
  BY <1>after DEF BInv, NothingStarts, Ops, AddedDiscard, Idem, OpFacts, SameWork, SameOp
<1>ShutdownStages. ShutdownStages'
  BY <1>guard, <1>closing, <1>same DEF BInv, ShutdownStages
<1>Owners. Owners'
  BY <1>fields, <1>guard, <1>closing, <1>same, <1>after
     DEF BInv, Owners, Ops, HeadOnly, NothingStarts, ShutdownStages, Owned, AddedDiscard,
         Idem, OpFacts, SameWork, SameOp
<1>Owned. Owned'
  BY <1>guard, <1>closing, <1>same DEF BInv, Owned, ShutdownStages, Owners
<1>DatedQueue. DatedQueue'
  BY <1>same, <1>after
     DEF BInv, DatedQueue, Ops, NumberTypes, ShutdownStages, AddedDiscard, Idem, OpFacts,
         SameWork, SameOp
<1>QueueBefore. QueueBefore'
  BY <1>same, <1>after
     DEF BInv, QueueBefore, Ops, Steady, NumberTypes, HeadOnly, ClosingType, ShutdownStages,
         SnapBefore, AddedDiscard, Idem, OpFacts, SameWork, SameOp
<1>QueueInOrder. QueueInOrder'
  BY <1>same, <1>after
     DEF BInv, QueueInOrder, Ops, Steady, ShutdownStages, SnapBefore, AddedDiscard, Idem,
         OpFacts, SameWork, SameOp
<1>CacheInOrder. CacheInOrder'
  BY <1>same, <1>after
     DEF BInv, CacheInOrder, Ops, Steady, AddedDiscard, Idem, OpFacts, SameWork, SameOp
<1>SnapBefore. SnapBefore'
  BY <1>closing DEF BInv, SnapBefore
<1>QueueSame. QueueSame'
  BY <1>same, <1>after
     DEF BInv, QueueSame, Ops, Steady, ShutdownStages, AddedDiscard, Idem, OpFacts,
         SameWork, SameOp
<1>QueueHolds. QueueHolds'
  BY <1>guard, <1>same DEF BInv, QueueHolds
<1>CacheStays. CacheStays'
  BY <1>guard, <1>same DEF BInv, CacheStays
<1>QueueStays. QueueStays'
  BY <1>guard, <1>same DEF BInv, QueueStays
<1>ModifiedQueued. ModifiedQueued'
  BY <1>guard, <1>same DEF BInv, ModifiedQueued
<1>CleanQueued. CleanQueued'
  BY <1>same, <1>after DEF BInv, CleanQueued, HeadOnly, AddedDiscard, Idem, OpFacts
<1>CleanDiscarded. CleanDiscarded'
  BY <1>guard, <1>same, <1>after DEF BInv, CleanDiscarded, ShutdownStages, Owners
<1>SnapAsked. SnapAsked'
  BY <1>closing DEF BInv, SnapAsked
<1>SnapKept. SnapKept'
  BY <1>closing DEF BInv, SnapKept
<1>SnapStays. SnapStays'
  BY <1>closing DEF BInv, SnapStays
<1>StoreAsked. StoreAsked'
  BY <1>closing DEF BInv, StoreAsked
<1>StoreKept. StoreKept'
  BY <1>closing DEF BInv, StoreKept
<1>StoreStays. StoreStays'
  BY <1>closing DEF BInv, StoreStays
<1>DoneSecured. DoneSecured'
  BY <1>closing DEF BInv, DoneSecured
<1>NotDiscarding. NotDiscarding'
  BY <1>guard, <1>closing, <1>same
     DEF BInv, NotDiscarding, AtStake, NumberTypes, StakeModified, OpFacts
<1>AcceptSecured. AcceptSecured'
  BY <1>guard, <1>same DEF BInv, AcceptSecured, ShutdownStages, StakeModified, DoneSecured
<1> QED
  BY <1>frame, <1>QueueType, <1>HeadOnly, <1>ClosingType, <1>NeverBoth, <1>NothingStarts,
     <1>ShutdownStages, <1>Owners, <1>Owned, <1>DatedQueue, <1>QueueBefore, <1>QueueInOrder,
     <1>CacheInOrder, <1>SnapBefore, <1>QueueSame, <1>QueueHolds, <1>CacheStays,
     <1>QueueStays, <1>ModifiedQueued, <1>CleanQueued, <1>CleanDiscarded, <1>SnapAsked,
     <1>SnapKept, <1>SnapStays, <1>StoreAsked, <1>StoreKept, <1>StoreStays, <1>DoneSecured,
     <1>NotDiscarding, <1>AcceptSecured
  DEF BInv

\* BackupThere keeps the invariant.
LEMMA BackupThereStep ==
  ASSUME BInv, BackupThereCase
  PROVE  BInv'
<1>fields.
      /\ copy.content \in Nat /\ copy.version \in Nat
      /\ copy.modified \in BOOLEAN /\ copy.registered \in BOOLEAN
      /\ Len(queue) \in Nat
      /\ OpFacts
  BY Fields DEF BInv
<1>empty. (queue # <<>> <=> Len(queue) > 0) /\ Ops = DOMAIN queue
  BY Fields DEF BInv
<1>guard.
      /\ window # "gone" /\ (Len(queue) > 0 => Started(queue, 1))
      /\ closing.stage = "backup"
      /\ Cached(copy.version)
  BY <1>empty DEF BackupThereCase, BackupExists, Decide, Cached, Stays, HeadStarted, Started
<1>suspended. suspended' = FALSE
  BY DEF BackupThereCase, BackupExists, Decide, Cached, Stays
<1>closing. closing' = [stage |-> "none"]
  BY DEF BackupThereCase, BackupExists, Decide, Cached, Stays
<1>window. window' = "accepted"
  BY DEF BackupThereCase, BackupExists, Decide, Cached, Stays
<1>same. UNCHANGED <<copy, saved, pending, queue, file, known, typed, events, lapses,
                     atStake>>
  BY DEF BackupThereCase, BackupExists, Decide, Cached, Stays
<1>frame. /\ CopyType' /\ NumberTypes' /\ QueueType' /\ HeadOnly' /\ PendingType'
           /\ LapsesType' /\ FileType' /\ KnownType' /\ FileCached' /\ NeverBoth'
           /\ NothingStarts' /\ Numbers' /\ DatedQueue' /\ QueueBefore' /\ CacheBefore'
           /\ QueueInOrder' /\ CacheInOrder' /\ QueueSame' /\ CacheSame' /\ QueueHolds'
           /\ CacheMeta' /\ CacheHolds' /\ CacheStays' /\ QueueStays'
  BY <1>same, BackupFrames
<1>FlagType. FlagType'
  BY <1>guard, <1>suspended, <1>same DEF BInv, FlagType, Cached
<1>WindowType. WindowType'
  BY <1>window DEF BInv, WindowType
<1>ClosingType. ClosingType'
  BY <1>closing DEF BInv, ClosingType
<1>ShutdownStages. ShutdownStages'
  BY <1>suspended, <1>closing, <1>window DEF BInv, ShutdownStages
<1>Owners. Owners'
  BY <1>guard, <1>same DEF BInv, Owners, Ops
<1>Owned. Owned'
  BY <1>closing, <1>same DEF BInv, Owned
<1>DatedFile. DatedFile'
  BY <1>guard, <1>same DEF BInv, DatedFile
<1>SnapBefore. SnapBefore'
  BY <1>closing DEF BInv, SnapBefore
<1>ModifiedQueued. ModifiedQueued'
  BY <1>window DEF BInv, ModifiedQueued
<1>ModifiedStored. ModifiedStored'
  BY <1>window DEF BInv, ModifiedStored
<1>CleanQueued. CleanQueued'
  BY <1>window DEF BInv, CleanQueued
<1>CleanDiscarded. CleanDiscarded'
  BY <1>window DEF BInv, CleanDiscarded
<1>StakeModified. StakeModified'
  BY <1>guard, <1>same DEF BInv, StakeModified
<1>SnapAsked. SnapAsked'
  BY <1>closing DEF BInv, SnapAsked
<1>SnapKept. SnapKept'
  BY <1>closing DEF BInv, SnapKept
<1>SnapStays. SnapStays'
  BY <1>closing DEF BInv, SnapStays
<1>StoreAsked. StoreAsked'
  BY <1>closing DEF BInv, StoreAsked
<1>StoreKept. StoreKept'
  BY <1>closing DEF BInv, StoreKept
<1>StoreStays. StoreStays'
  BY <1>closing DEF BInv, StoreStays
<1>DoneSecured. DoneSecured'
  BY <1>closing DEF BInv, DoneSecured
<1>NotDiscarding. NotDiscarding'
  BY <1>closing DEF BInv, NotDiscarding
<1>AcceptSecured. AcceptSecured'
  BY <1>fields, <1>guard, <1>window, <1>same
     DEF BInv, AcceptSecured, AtStake, Secured, Ops, Readable, NumberTypes, HeadOnly,
         ShutdownStages, StakeModified, DoneSecured, CacheMeta, Cached, Steady, CacheHolds,
         CacheStays, CacheSame, CacheInOrder, QueueBefore, NeverBoth, Has, Known,
         NothingStarts, NotDiscarding, OpFacts
<1>GoneSecured. GoneSecured'
  BY <1>window DEF BInv, GoneSecured
<1> QED
  BY <1>frame, <1>FlagType, <1>WindowType, <1>ClosingType, <1>ShutdownStages, <1>Owners,
     <1>Owned, <1>DatedFile, <1>SnapBefore, <1>ModifiedQueued, <1>ModifiedStored,
     <1>CleanQueued, <1>CleanDiscarded, <1>StakeModified, <1>SnapAsked, <1>SnapKept,
     <1>SnapStays, <1>StoreAsked, <1>StoreKept, <1>StoreStays, <1>DoneSecured,
     <1>NotDiscarding, <1>AcceptSecured, <1>GoneSecured
  DEF BInv

\* BackupNotThere keeps the invariant.
LEMMA BackupNotThereStep ==
  ASSUME BInv, BackupNotThereCase
  PROVE  BInv'
<1>fields.
      /\ copy.content \in Nat /\ copy.version \in Nat
      /\ copy.modified \in BOOLEAN /\ copy.registered \in BOOLEAN
      /\ Len(queue) \in Nat
      /\ OpFacts
  BY Fields DEF BInv
<1>empty. (queue # <<>> <=> Len(queue) > 0) /\ Ops = DOMAIN queue
  BY Fields DEF BInv
<1>guard.
      /\ window # "gone" /\ (Len(queue) > 0 => Started(queue, 1))
      /\ closing.stage = "backup"
      /\ ~Cached(copy.version)
  BY <1>empty DEF BackupNotThereCase, BackupExists, Cached, Stays, HeadStarted, Started
<1>closing. closing' = [stage |-> "snapshot", version |-> copy.version]
  BY DEF BackupNotThereCase, BackupExists, Cached, Stays
<1>same. UNCHANGED <<copy, saved, pending, suspended, window, queue, file, known, typed,
                     events, lapses, atStake>>
  BY DEF BackupNotThereCase, BackupExists, Cached, Stays
<1>frame. /\ CopyType' /\ NumberTypes' /\ QueueType' /\ HeadOnly' /\ PendingType'
           /\ FlagType' /\ WindowType' /\ LapsesType' /\ FileType' /\ KnownType'
           /\ FileCached' /\ NeverBoth' /\ NothingStarts' /\ Numbers' /\ DatedFile'
           /\ DatedQueue' /\ QueueBefore' /\ CacheBefore' /\ QueueInOrder'
           /\ CacheInOrder' /\ QueueSame' /\ CacheSame' /\ QueueHolds' /\ CacheMeta'
           /\ CacheHolds' /\ CacheStays' /\ QueueStays' /\ ModifiedQueued'
           /\ ModifiedStored' /\ CleanQueued' /\ CleanDiscarded' /\ StakeModified'
           /\ AcceptSecured' /\ GoneSecured'
  BY <1>same, BackupFrames
<1>ClosingType. ClosingType'
  BY <1>fields, <1>closing DEF BInv, ClosingType
<1>ShutdownStages. ShutdownStages'
  BY <1>guard, <1>closing, <1>same DEF BInv, ShutdownStages
<1>Owners. Owners'
  BY <1>guard, <1>same DEF BInv, Owners, Ops
<1>Owned. Owned'
  BY <1>closing, <1>same DEF BInv, Owned
<1>SnapBefore. SnapBefore'
  BY <1>fields, <1>closing, <1>same
     DEF BInv, SnapBefore, Ops, Steady, QueueBefore, CacheBefore, ShutdownStages
<1>SnapAsked. SnapAsked'
  BY <1>closing, <1>same
     DEF BInv, SnapAsked, Ops, AtStake, NumberTypes, HeadOnly, FileType, ShutdownStages,
         StakeModified, QueueHolds, Steady, QueueSame, QueueBefore, Owners
<1>SnapKept. SnapKept'
  BY <1>guard, <1>closing, <1>same DEF BInv, SnapKept, Ops, Cached
<1>SnapStays. SnapStays'
  BY <1>guard, <1>closing, <1>same
     DEF BInv, SnapStays, Ops, AtStake, NumberTypes, StakeModified, QueueStays, Steady,
         Owners, Owned
<1>StoreAsked. StoreAsked'
  BY <1>closing DEF BInv, StoreAsked
<1>StoreKept. StoreKept'
  BY <1>closing DEF BInv, StoreKept
<1>StoreStays. StoreStays'
  BY <1>closing DEF BInv, StoreStays
<1>DoneSecured. DoneSecured'
  BY <1>closing DEF BInv, DoneSecured
<1>NotDiscarding. NotDiscarding'
  BY <1>closing DEF BInv, NotDiscarding
<1> QED
  BY <1>frame, <1>ClosingType, <1>ShutdownStages, <1>Owners, <1>Owned, <1>SnapBefore,
     <1>SnapAsked, <1>SnapKept, <1>SnapStays, <1>StoreAsked, <1>StoreKept, <1>StoreStays,
     <1>DoneSecured, <1>NotDiscarding
  DEF BInv

\* SnapshotKnown keeps the invariant.
LEMMA SnapshotKnownStep ==
  ASSUME BInv, SnapshotKnownCase
  PROVE  BInv'
<1>fields.
      /\ copy.content \in Nat /\ copy.version \in Nat
      /\ copy.modified \in BOOLEAN /\ copy.registered \in BOOLEAN
      /\ Len(queue) \in Nat
      /\ OpFacts
  BY Fields DEF BInv
<1>empty. (queue # <<>> <=> Len(queue) > 0) /\ Ops = DOMAIN queue
  BY Fields DEF BInv
<1>guard.
      /\ window # "gone" /\ (Len(queue) > 0 => Started(queue, 1))
      /\ closing.stage = "snapshot"
      /\ Has(closing.version, saved)
  BY <1>empty DEF SnapshotKnownCase, BackupAtShutdown, Stays, HeadStarted, Started
<1>closing. closing' = [stage |-> "done"]
  BY DEF SnapshotKnownCase, BackupAtShutdown, Stays
<1>same. UNCHANGED <<copy, saved, pending, suspended, window, queue, file, known, typed,
                     events, lapses, atStake>>
  BY DEF SnapshotKnownCase, BackupAtShutdown, Stays
<1>frame. /\ CopyType' /\ NumberTypes' /\ QueueType' /\ HeadOnly' /\ PendingType'
           /\ FlagType' /\ WindowType' /\ LapsesType' /\ FileType' /\ KnownType'
           /\ FileCached' /\ NeverBoth' /\ NothingStarts' /\ Numbers' /\ DatedFile'
           /\ DatedQueue' /\ QueueBefore' /\ CacheBefore' /\ QueueInOrder'
           /\ CacheInOrder' /\ QueueSame' /\ CacheSame' /\ QueueHolds' /\ CacheMeta'
           /\ CacheHolds' /\ CacheStays' /\ QueueStays' /\ ModifiedQueued'
           /\ ModifiedStored' /\ CleanQueued' /\ CleanDiscarded' /\ StakeModified'
           /\ AcceptSecured' /\ GoneSecured'
  BY <1>same, BackupFrames
<1>ClosingType. ClosingType'
  BY <1>closing DEF BInv, ClosingType
<1>ShutdownStages. ShutdownStages'
  BY <1>guard, <1>closing, <1>same DEF BInv, ShutdownStages
<1>Owners. Owners'
  BY <1>guard, <1>same DEF BInv, Owners, Ops
<1>Owned. Owned'
  BY <1>closing, <1>same DEF BInv, Owned
<1>SnapBefore. SnapBefore'
  BY <1>closing DEF BInv, SnapBefore
<1>SnapAsked. SnapAsked'
  BY <1>closing DEF BInv, SnapAsked
<1>SnapKept. SnapKept'
  BY <1>closing DEF BInv, SnapKept
<1>SnapStays. SnapStays'
  BY <1>closing DEF BInv, SnapStays
<1>StoreAsked. StoreAsked'
  BY <1>closing DEF BInv, StoreAsked
<1>StoreKept. StoreKept'
  BY <1>closing DEF BInv, StoreKept
<1>StoreStays. StoreStays'
  BY <1>closing DEF BInv, StoreStays
<1>DoneSecured. DoneSecured'
  BY <1>fields, <1>guard, <1>closing, <1>same
     DEF BInv, DoneSecured, AtStake, Readable, NumberTypes, HeadOnly, Ops, ClosingType,
         StakeModified, SnapAsked, SnapKept, Cached, SnapStays, NeverBoth, Has, Known,
         SnapBefore, Steady, NothingStarts, NotDiscarding, OpFacts
<1>NotDiscarding. NotDiscarding'
  BY <1>closing DEF BInv, NotDiscarding
<1> QED
  BY <1>frame, <1>ClosingType, <1>ShutdownStages, <1>Owners, <1>Owned, <1>SnapBefore,
     <1>SnapAsked, <1>SnapKept, <1>SnapStays, <1>StoreAsked, <1>StoreKept, <1>StoreStays,
     <1>DoneSecured, <1>NotDiscarding
  DEF BInv

\* SnapshotStored keeps the invariant.
LEMMA SnapshotStoredStep ==
  ASSUME BInv, SnapshotStoredCase
  PROVE  BInv'
<1>fields.
      /\ copy.content \in Nat /\ copy.version \in Nat
      /\ copy.modified \in BOOLEAN /\ copy.registered \in BOOLEAN
      /\ Len(queue) \in Nat
      /\ OpFacts
  BY Fields DEF BInv
<1>empty. (queue # <<>> <=> Len(queue) > 0) /\ Ops = DOMAIN queue
  BY Fields DEF BInv
<1>guard.
      /\ window # "gone" /\ (Len(queue) > 0 => Started(queue, 1))
      /\ closing.stage = "snapshot"
      /\ ~Has(closing.version, saved)
  BY <1>empty DEF SnapshotStoredCase, BackupAtShutdown, Stays, HeadStarted, Started
<1>closing. closing' = [stage |-> "storing"]
  BY DEF SnapshotStoredCase, BackupAtShutdown, Stays
<1>same. UNCHANGED <<copy, saved, pending, suspended, window, file, known, typed, events,
                     lapses, atStake>>
  BY DEF SnapshotStoredCase, BackupAtShutdown, Stays
<1>calls. queue' = Append(queue, BackupOp("closing", closing.version))
  BY DEF SnapshotStoredCase, BackupAtShutdown, Stays
<1>e1. saved \in Nat /\ closing.version \in Nat
  BY <1>guard, <1>closing, <1>same, <1>calls DEF BInv, NumberTypes, ClosingType
<1>e2. queue' \in Seq(Op) /\ AddedBackup("closing", closing.version) /\ Idem
  <2> DEFINE v == closing.version
  <2>1. v \in Nat /\ queue' = Append(queue, BackupOp("closing", v))
    BY <1>calls, <1>e1
  <2> HIDE DEF v
  <2>2. queue' \in Seq(Op) /\ AddedBackup("closing", v) /\ Idem
    BY <1>fields, <1>e1, <2>1, AddBackupFacts DEF BInv
  <2> QED
    BY <2>2 DEF v
<1>after. Len(queue') \in Nat /\ AddedBackup("closing", closing.version) /\ Idem
  BY <1>fields, <1>e2
<1>frame. /\ CopyType' /\ NumberTypes' /\ PendingType' /\ FlagType' /\ WindowType'
           /\ LapsesType' /\ FileType' /\ KnownType' /\ FileCached' /\ Numbers'
           /\ DatedFile' /\ CacheBefore' /\ CacheSame' /\ CacheMeta' /\ CacheHolds'
           /\ ModifiedStored' /\ StakeModified' /\ GoneSecured'
  BY <1>same, BackupFrames
<1>QueueType. QueueType'
  BY <1>e2 DEF BInv, QueueType
<1>HeadOnly. HeadOnly'
  BY <1>after DEF BInv, HeadOnly, Ops, AddedBackup, Idem, SameWork, SameOp
<1>ClosingType. ClosingType'
  BY <1>closing DEF BInv, ClosingType
<1>NeverBoth. NeverBoth'
  BY <1>same, <1>e1, <1>after
     DEF BInv, NeverBoth, Readable, Has, Known, HeadOnly, Ops, FileType, None, Partial,
         ShutdownStages, AddedBackup, Idem, OpFacts, SameWork, SameOp
<1>NothingStarts. NothingStarts'
  BY <1>after
     DEF BInv, NothingStarts, Ops, AddedBackup, Idem, Has, OpFacts, SameWork, SameOp, Known
<1>ShutdownStages. ShutdownStages'
  BY <1>guard, <1>closing, <1>same DEF BInv, ShutdownStages
<1>Owners. Owners'
  BY <1>fields, <1>guard, <1>closing, <1>same, <1>e1, <1>after, Z3T(10)
     DEF BInv, Owners, Ops, HeadOnly, NothingStarts, ShutdownStages, Owned, AddedBackup,
         Idem, Has, OpFacts, SameWork, SameOp, Known
<1>Owned. Owned'
  BY <1>guard, <1>same, <1>after DEF BInv, Owned, ShutdownStages, Owners, AddedBackup
<1>DatedQueue. DatedQueue'
  BY <1>fields, <1>same, <1>after
     DEF BInv, DatedQueue, Ops, NumberTypes, HeadOnly, Numbers, ShutdownStages, AddedBackup,
         Idem, Has, OpFacts, SameWork, SameOp, Known
<1>QueueBefore. QueueBefore'
  BY <1>guard, <1>same, <1>e1, <1>after
     DEF BInv, QueueBefore, Ops, Steady, NumberTypes, HeadOnly, ClosingType, ShutdownStages,
         SnapBefore, AddedBackup, Idem, Has, OpFacts, SameWork, SameOp
<1>QueueInOrder. QueueInOrder'
  BY <1>guard, <1>same, <1>after
     DEF BInv, QueueInOrder, Ops, Steady, SnapBefore, ClosingType, NumberTypes, AddedBackup,
         Idem, Has, OpFacts, SameWork, SameOp, Known
<1>CacheInOrder. CacheInOrder'
  BY <1>fields, <1>guard, <1>same, <1>e1, <1>after
     DEF BInv, CacheInOrder, Ops, Steady, NumberTypes, QueueBefore, CacheBefore,
         QueueInOrder, ShutdownStages, SnapBefore, AddedBackup, Idem, Has, OpFacts,
         SameWork, SameOp, Known
<1>SnapBefore. SnapBefore'
  BY <1>closing DEF BInv, SnapBefore
<1>QueueSame. QueueSame'
  BY <1>same, <1>e1, <1>after
     DEF BInv, QueueSame, Ops, Steady, NumberTypes, HeadOnly, Numbers, ShutdownStages,
         AddedBackup, Idem, Has, OpFacts, SameWork, SameOp, Known
<1>QueueHolds. QueueHolds'
  BY <1>same, <1>e1, <1>after
     DEF BInv, QueueHolds, Ops, Steady, NumberTypes, HeadOnly, ClosingType, QueueBefore,
         ShutdownStages, AddedBackup, Idem, Has, OpFacts, SameWork, SameOp
<1>CacheStays. CacheStays'
  BY <1>same, <1>e1, <1>after
     DEF BInv, CacheStays, Ops, Cached, Steady, Partial, CacheBefore, QueueStays,
         ShutdownStages, AddedBackup, Idem, Has, OpFacts, SameWork, SameOp, Known
<1>QueueStays. QueueStays'
  BY <1>same, <1>after
     DEF BInv, QueueStays, Ops, Steady, NumberTypes, HeadOnly, QueueBefore, ShutdownStages,
         AddedBackup, Idem, Has, OpFacts, SameWork, SameOp, Known
<1>ModifiedQueued. ModifiedQueued'
  BY <1>guard, <1>same, <1>e1 DEF BInv, ModifiedQueued, ShutdownStages, Owners
<1>CleanQueued. CleanQueued'
  BY <1>guard, <1>same, <1>e1 DEF BInv, CleanQueued, ShutdownStages, Owners
<1>CleanDiscarded. CleanDiscarded'
  BY <1>guard, <1>same, <1>e1 DEF BInv, CleanDiscarded, FileType, ShutdownStages
<1>SnapAsked. SnapAsked'
  BY <1>closing DEF BInv, SnapAsked
<1>SnapKept. SnapKept'
  BY <1>closing DEF BInv, SnapKept
<1>SnapStays. SnapStays'
  BY <1>closing DEF BInv, SnapStays
<1>StoreAsked. StoreAsked'
  <2>1. SUFFICES ASSUME AtStake', NEW i \in Ops', IsBackup(queue', i)
                 PROVE  /\ Version(queue', i) <= closing.version
                        /\ Version(queue', i) = closing.version =>
                             Meta(queue', i) = saved' /\ Content(queue', i) >= atStake'
    BY <1>after DEF StoreAsked, AddedBackup
  <2>2. AtStake
    BY <2>1, <1>same DEF AtStake
  <2>3. CASE i \in Ops
    BY <2>1, <2>2, <2>3, <1>guard, <1>same, <1>after
       DEF BInv, SnapAsked, Idem, SameWork, SameOp
  <2>4. CASE i = Len(queue')
    BY <2>2, <2>4, <1>fields, <1>guard, <1>same, <1>e1, <1>after
       DEF BInv, AtStake, StakeModified, NumberTypes, AddedBackup
  <2> QED
    BY <2>3, <2>4, <1>fields, <1>after DEF Ops, AddedBackup
<1>StoreKept. StoreKept'
  BY <1>fields, <1>guard, <1>closing, <1>same, <1>e1, <1>after
     DEF BInv, StoreKept, Ops, Cached, AtStake, ClosingType, KnownType, None, Partial,
         FileType, ShutdownStages, StakeModified, SnapAsked, SnapKept, SnapStays,
         StoreAsked, StoreStays, SnapBefore, Steady, CacheInOrder, AddedBackup, Idem, Has,
         OpFacts, SameWork, SameOp, Known
<1>StoreStays. StoreStays'
  <2>1. SUFFICES ASSUME AtStake', NEW i \in Ops', NEW j \in Ops',
                        IsBackup(queue', i), IsDiscard(queue', j), i <= j
                 PROVE  Version(queue', i) # closing.version
    BY <1>after DEF StoreStays, AddedBackup
  <2>2. AtStake
    BY <2>1, <1>same DEF AtStake
  <2>3. i \in Ops /\ j \in Ops
    BY <2>1, <1>fields, <1>after DEF Ops, AddedBackup
  <2> QED
    BY <2>1, <2>2, <2>3, <1>guard, <1>after DEF BInv, SnapStays, Idem, SameWork, SameOp
<1>DoneSecured. DoneSecured'
  BY <1>closing DEF BInv, DoneSecured
<1>NotDiscarding. NotDiscarding'
  BY <1>closing DEF BInv, NotDiscarding
<1>AcceptSecured. AcceptSecured'
  BY <1>guard, <1>same DEF BInv, AcceptSecured, FileType, ShutdownStages, StakeModified
<1> QED
  BY <1>frame, <1>QueueType, <1>HeadOnly, <1>ClosingType, <1>NeverBoth, <1>NothingStarts,
     <1>ShutdownStages, <1>Owners, <1>Owned, <1>DatedQueue, <1>QueueBefore, <1>QueueInOrder,
     <1>CacheInOrder, <1>SnapBefore, <1>QueueSame, <1>QueueHolds, <1>CacheStays,
     <1>QueueStays, <1>ModifiedQueued, <1>CleanQueued, <1>CleanDiscarded, <1>SnapAsked,
     <1>SnapKept, <1>SnapStays, <1>StoreAsked, <1>StoreKept, <1>StoreStays, <1>DoneSecured,
     <1>NotDiscarding, <1>AcceptSecured
  DEF BInv

\* CancelBackup keeps the invariant.
LEMMA CancelBackupStep ==
  ASSUME BInv, CancelBackupCase
  PROVE  BInv'
<1>fields.
      /\ copy.content \in Nat /\ copy.version \in Nat
      /\ copy.modified \in BOOLEAN /\ copy.registered \in BOOLEAN
      /\ Len(queue) \in Nat
      /\ OpFacts
  BY Fields DEF BInv
<1>empty. (queue # <<>> <=> Len(queue) > 0) /\ Ops = DOMAIN queue
  BY Fields DEF BInv
<1>guard.
      /\ window # "gone" /\ (Len(queue) > 0 => Started(queue, 1))
      /\ closing.stage \in {"snapshot", "storing"}
      /\ closing.stage # "discard"
  BY <1>empty
  DEF CancelBackupCase, CancelProgress, BeginConfirm, Stays, HeadStarted, Started
<1>closing. closing' = [stage |-> "confirm"]
  BY DEF CancelBackupCase, CancelProgress, BeginConfirm, Stays
<1>same. UNCHANGED <<copy, saved, pending, suspended, window, file, known, typed, events,
                     lapses, atStake>>
  BY DEF CancelBackupCase, CancelProgress, BeginConfirm, Stays
<1>calls. queue' = Cancelled("closing")
  BY DEF CancelBackupCase, CancelProgress, BeginConfirm, Stays
<1>e1. queue' \in Seq(Op) /\ Len(queue') = Len(queue) /\ Thinned("closing")
  BY <1>guard, <1>calls, CancelFacts DEF BInv
<1>after. Len(queue') \in Nat /\ Len(queue') = Len(queue) /\ Thinned("closing")
  BY <1>fields, <1>e1
<1>frame. /\ CopyType' /\ NumberTypes' /\ PendingType' /\ FlagType' /\ WindowType'
           /\ LapsesType' /\ FileType' /\ KnownType' /\ FileCached' /\ Numbers'
           /\ DatedFile' /\ CacheBefore' /\ CacheSame' /\ CacheMeta' /\ CacheHolds'
           /\ ModifiedStored' /\ StakeModified' /\ GoneSecured'
  BY <1>same, BackupFrames
<1>QueueType. QueueType'
  BY <1>e1 DEF BInv, QueueType
<1>HeadOnly. HeadOnly'
  BY <1>after DEF BInv, HeadOnly, Ops, Thinned
<1>ClosingType. ClosingType'
  BY <1>closing DEF BInv, ClosingType
<1>NeverBoth. NeverBoth'
  BY <1>same, <1>after
     DEF BInv, NeverBoth, Readable, Has, Known, HeadOnly, Ops, ShutdownStages, Thinned,
         OpFacts, SameWork, SameOp
<1>NothingStarts. NothingStarts'
  BY <1>after DEF BInv, NothingStarts, Ops, Thinned, OpFacts, SameWork, SameOp
<1>ShutdownStages. ShutdownStages'
  BY <1>guard, <1>closing, <1>same DEF BInv, ShutdownStages
<1>Owners. Owners'
  BY <1>same, <1>after DEF BInv, Owners, Ops, Thinned, OpFacts
<1>Owned. Owned'
  BY <1>guard, <1>closing, <1>same DEF BInv, Owned, ShutdownStages, Owners
<1>DatedQueue. DatedQueue'
  BY <1>same, <1>after
     DEF BInv, DatedQueue, Ops, NumberTypes, ShutdownStages, Thinned, OpFacts, SameWork
<1>QueueBefore. QueueBefore'
  BY <1>same, <1>after
     DEF BInv, QueueBefore, Ops, Steady, SnapBefore, Thinned, OpFacts, SameWork
<1>QueueInOrder. QueueInOrder'
  BY <1>same, <1>after
     DEF BInv, QueueInOrder, Ops, Steady, SnapBefore, Thinned, OpFacts, SameWork
<1>CacheInOrder. CacheInOrder'
  BY <1>same, <1>after DEF BInv, CacheInOrder, Ops, Steady, Thinned, OpFacts, SameWork
<1>SnapBefore. SnapBefore'
  BY <1>closing DEF BInv, SnapBefore
<1>QueueSame. QueueSame'
  BY <1>same, <1>after
     DEF BInv, QueueSame, Ops, Steady, ShutdownStages, Thinned, OpFacts, SameWork, SameOp
<1>QueueHolds. QueueHolds'
  BY <1>same, <1>after
     DEF BInv, QueueHolds, Ops, Steady, ShutdownStages, Thinned, OpFacts, SameWork
<1>CacheStays. CacheStays'
  BY <1>same, <1>after
     DEF BInv, CacheStays, Ops, Cached, Steady, ShutdownStages, Thinned, OpFacts, SameWork,
         SameOp
<1>QueueStays. QueueStays'
  BY <1>same, <1>after DEF BInv, QueueStays, Ops, Steady, Thinned, OpFacts, SameWork, SameOp
<1>ModifiedQueued. ModifiedQueued'
  BY <1>same, <1>after
     DEF BInv, ModifiedQueued, HeadOnly, Ops, Owners, Owned, Thinned, OpFacts, SameWork,
         SameOp
<1>CleanQueued. CleanQueued'
  BY <1>same, <1>after
     DEF BInv, CleanQueued, HeadOnly, Ops, Owners, Owned, Thinned, OpFacts, SameWork, SameOp
<1>CleanDiscarded. CleanDiscarded'
  BY <1>same, <1>after DEF BInv, CleanDiscarded
<1>SnapAsked. SnapAsked'
  BY <1>closing DEF BInv, SnapAsked
<1>SnapKept. SnapKept'
  BY <1>closing DEF BInv, SnapKept
<1>SnapStays. SnapStays'
  BY <1>closing DEF BInv, SnapStays
<1>StoreAsked. StoreAsked'
  BY <1>closing DEF BInv, StoreAsked
<1>StoreKept. StoreKept'
  BY <1>closing DEF BInv, StoreKept
<1>StoreStays. StoreStays'
  BY <1>closing DEF BInv, StoreStays
<1>DoneSecured. DoneSecured'
  BY <1>closing DEF BInv, DoneSecured
<1>NotDiscarding. NotDiscarding'
  BY <1>closing DEF BInv, NotDiscarding
<1>AcceptSecured. AcceptSecured'
  BY <1>fields, <1>guard, <1>same, <1>after
     DEF BInv, AcceptSecured, AtStake, Secured, Ops, Readable, NumberTypes, NotDiscarding,
         Thinned, OpFacts, SameWork, SameOp
<1> QED
  BY <1>frame, <1>QueueType, <1>HeadOnly, <1>ClosingType, <1>NeverBoth, <1>NothingStarts,
     <1>ShutdownStages, <1>Owners, <1>Owned, <1>DatedQueue, <1>QueueBefore, <1>QueueInOrder,
     <1>CacheInOrder, <1>SnapBefore, <1>QueueSame, <1>QueueHolds, <1>CacheStays,
     <1>QueueStays, <1>ModifiedQueued, <1>CleanQueued, <1>CleanDiscarded, <1>SnapAsked,
     <1>SnapKept, <1>SnapStays, <1>StoreAsked, <1>StoreKept, <1>StoreStays, <1>DoneSecured,
     <1>NotDiscarding, <1>AcceptSecured
  DEF BInv

\* CancelDiscard keeps the invariant.
LEMMA CancelDiscardStep ==
  ASSUME BInv, CancelDiscardCase
  PROVE  BInv'
<1>fields.
      /\ copy.content \in Nat /\ copy.version \in Nat
      /\ copy.modified \in BOOLEAN /\ copy.registered \in BOOLEAN
      /\ Len(queue) \in Nat
      /\ OpFacts
  BY Fields DEF BInv
<1>empty. (queue # <<>> <=> Len(queue) > 0) /\ Ops = DOMAIN queue
  BY Fields DEF BInv
<1>guard.
      /\ window # "gone" /\ (Len(queue) > 0 => Started(queue, 1))
      /\ closing.stage = "discard"
  BY <1>empty DEF CancelDiscardCase, CancelProgress, Decide, Stays, HeadStarted, Started
<1>suspended. suspended' = FALSE
  BY DEF CancelDiscardCase, CancelProgress, Decide, Stays
<1>closing. closing' = [stage |-> "none"]
  BY DEF CancelDiscardCase, CancelProgress, Decide, Stays
<1>window. window' = "accepted"
  BY DEF CancelDiscardCase, CancelProgress, Decide, Stays
<1>same. UNCHANGED <<copy, saved, pending, file, known, typed, events, lapses, atStake>>
  BY DEF CancelDiscardCase, CancelProgress, Decide, Stays
<1>calls. queue' = [i \in DOMAIN queue |-> [queue[i] EXCEPT !.owner = "nobody"]]
  BY DEF CancelDiscardCase, CancelProgress, Decide, Stays
<1>e1.
      /\ queue' \in Seq(Op) /\ Len(queue') = Len(queue)
      /\ \A i \in Ops : SameWork(queue', i, queue, i) /\ Owner(queue', i) = "nobody"
                        /\ (Started(queue', i) <=> Started(queue, i))
  BY <1>guard, <1>calls, OrphanFacts DEF BInv
<1>after.
      /\ Len(queue') \in Nat /\ Len(queue') = Len(queue)
      /\ \A i \in Ops : SameWork(queue', i, queue, i) /\ Owner(queue', i) = "nobody"
                        /\ (Started(queue', i) <=> Started(queue, i))
  BY <1>fields, <1>e1
<1>frame. /\ CopyType' /\ NumberTypes' /\ PendingType' /\ LapsesType' /\ FileType'
           /\ KnownType' /\ FileCached' /\ Numbers' /\ CacheBefore' /\ CacheSame'
           /\ CacheMeta' /\ CacheHolds'
  BY <1>same, BackupFrames
<1>QueueType. QueueType'
  BY <1>e1 DEF BInv, QueueType
<1>HeadOnly. HeadOnly'
  BY <1>after DEF BInv, HeadOnly, Ops
<1>FlagType. FlagType'
  BY <1>guard, <1>suspended, <1>same DEF BInv, FlagType
<1>WindowType. WindowType'
  BY <1>window DEF BInv, WindowType
<1>ClosingType. ClosingType'
  BY <1>closing DEF BInv, ClosingType
<1>NeverBoth. NeverBoth'
  BY <1>same, <1>after
     DEF BInv, NeverBoth, Readable, Has, Ops, FileType, ShutdownStages, SameWork
<1>NothingStarts. NothingStarts'
  BY <1>after DEF BInv, NothingStarts, Ops, SameWork
<1>ShutdownStages. ShutdownStages'
  BY <1>suspended, <1>closing, <1>window DEF BInv, ShutdownStages
<1>Owners. Owners'
  BY <1>after DEF BInv, Owners, Ops
<1>Owned. Owned'
  BY <1>guard, <1>closing, <1>same DEF BInv, Owned, ShutdownStages
<1>DatedFile. DatedFile'
  BY <1>guard, <1>same DEF BInv, DatedFile
<1>DatedQueue. DatedQueue'
  BY <1>same, <1>after DEF BInv, DatedQueue, Ops, ShutdownStages, SameWork
<1>QueueBefore. QueueBefore'
  BY <1>same, <1>after DEF BInv, QueueBefore, Ops, Steady, SnapBefore, SameWork
<1>QueueInOrder. QueueInOrder'
  BY <1>same, <1>after DEF BInv, QueueInOrder, Ops, Steady, SnapBefore, SameWork
<1>CacheInOrder. CacheInOrder'
  BY <1>same, <1>after DEF BInv, CacheInOrder, Ops, Steady, SnapBefore, SameWork, OpFacts
<1>SnapBefore. SnapBefore'
  BY <1>closing DEF BInv, SnapBefore
<1>QueueSame. QueueSame'
  BY <1>same, <1>after DEF BInv, QueueSame, Ops, Steady, ShutdownStages, SameWork
<1>QueueHolds. QueueHolds'
  BY <1>same, <1>after DEF BInv, QueueHolds, Ops, Steady, ShutdownStages, SameWork
<1>CacheStays. CacheStays'
  BY <1>same, <1>after
     DEF BInv, CacheStays, Ops, Cached, Steady, NumberTypes, HeadOnly, SameWork, OpFacts
<1>QueueStays. QueueStays'
  BY <1>same, <1>after DEF BInv, QueueStays, Ops, Steady, SameWork, OpFacts
<1>ModifiedQueued. ModifiedQueued'
  BY <1>window DEF BInv, ModifiedQueued
<1>ModifiedStored. ModifiedStored'
  BY <1>window DEF BInv, ModifiedStored
<1>CleanQueued. CleanQueued'
  BY <1>window DEF BInv, CleanQueued
<1>CleanDiscarded. CleanDiscarded'
  BY <1>window DEF BInv, CleanDiscarded
<1>StakeModified. StakeModified'
  BY <1>guard, <1>same DEF BInv, StakeModified
<1>SnapAsked. SnapAsked'
  BY <1>closing DEF BInv, SnapAsked
<1>SnapKept. SnapKept'
  BY <1>closing DEF BInv, SnapKept
<1>SnapStays. SnapStays'
  BY <1>closing DEF BInv, SnapStays
<1>StoreAsked. StoreAsked'
  BY <1>closing DEF BInv, StoreAsked
<1>StoreKept. StoreKept'
  BY <1>closing DEF BInv, StoreKept
<1>StoreStays. StoreStays'
  BY <1>closing DEF BInv, StoreStays
<1>DoneSecured. DoneSecured'
  BY <1>closing DEF BInv, DoneSecured
<1>NotDiscarding. NotDiscarding'
  BY <1>closing DEF BInv, NotDiscarding
<1>AcceptSecured. AcceptSecured'
  BY <1>guard, <1>window, <1>same, <1>after
     DEF BInv, AcceptSecured, AtStake, NothingStarts, NotDiscarding, SameWork
<1>GoneSecured. GoneSecured'
  BY <1>window DEF BInv, GoneSecured
<1> QED
  BY <1>frame, <1>QueueType, <1>HeadOnly, <1>FlagType, <1>WindowType, <1>ClosingType,
     <1>NeverBoth, <1>NothingStarts, <1>ShutdownStages, <1>Owners, <1>Owned, <1>DatedFile,
     <1>DatedQueue, <1>QueueBefore, <1>QueueInOrder, <1>CacheInOrder, <1>SnapBefore,
     <1>QueueSame, <1>QueueHolds, <1>CacheStays, <1>QueueStays, <1>ModifiedQueued,
     <1>ModifiedStored, <1>CleanQueued, <1>CleanDiscarded, <1>StakeModified, <1>SnapAsked,
     <1>SnapKept, <1>SnapStays, <1>StoreAsked, <1>StoreKept, <1>StoreStays, <1>DoneSecured,
     <1>NotDiscarding, <1>AcceptSecured, <1>GoneSecured
  DEF BInv

\* FolderDeleted keeps the invariant.
LEMMA FolderDeletedStep ==
  ASSUME BInv, FolderDeleted
  PROVE  BInv'
<1>fields.
      /\ copy.content \in Nat /\ copy.version \in Nat
      /\ copy.modified \in BOOLEAN /\ copy.registered \in BOOLEAN
      /\ Len(queue) \in Nat
      /\ OpFacts
  BY Fields DEF BInv
<1>empty. (queue # <<>> <=> Len(queue) > 0) /\ Ops = DOMAIN queue
  BY Fields DEF BInv
<1>guard.
      /\ window # "gone" /\ (Len(queue) > 0 => Started(queue, 1))
      /\ closing.stage = "folder"
  BY <1>empty DEF FolderDeleted, Decide, HeadStarted, Started
<1>file. file' = None
  BY DEF FolderDeleted, Decide
<1>known. known' = None
  BY DEF FolderDeleted, Decide
<1>suspended. suspended' = FALSE
  BY DEF FolderDeleted, Decide
<1>closing. closing' = [stage |-> "none"]
  BY DEF FolderDeleted, Decide
<1>window. window' = "accepted"
  BY DEF FolderDeleted, Decide
<1>same. UNCHANGED <<copy, saved, pending, queue, typed, events, lapses, atStake>>
  BY DEF FolderDeleted, Decide
<1>frame. /\ CopyType' /\ NumberTypes' /\ QueueType' /\ HeadOnly' /\ PendingType'
           /\ LapsesType' /\ NothingStarts' /\ Numbers' /\ DatedQueue' /\ QueueBefore'
           /\ QueueInOrder' /\ QueueSame' /\ QueueHolds' /\ QueueStays'
  BY <1>same, BackupFrames
<1>FlagType. FlagType'
  BY <1>guard, <1>suspended, <1>same DEF BInv, FlagType
<1>WindowType. WindowType'
  BY <1>window DEF BInv, WindowType
<1>FileType. FileType'
  BY <1>file DEF BInv, FileType
<1>KnownType. KnownType'
  BY <1>known DEF BInv, KnownType
<1>ClosingType. ClosingType'
  BY <1>closing DEF BInv, ClosingType
<1>FileCached. FileCached'
  BY <1>known DEF BInv, FileCached
<1>NeverBoth. NeverBoth'
  BY <1>file, <1>known, <1>same DEF BInv, NeverBoth, Readable, Has, Known, FileType, None
<1>ShutdownStages. ShutdownStages'
  BY <1>suspended, <1>closing, <1>window DEF BInv, ShutdownStages
<1>Owners. Owners'
  BY <1>guard, <1>same DEF BInv, Owners, Ops
<1>Owned. Owned'
  BY <1>closing, <1>same DEF BInv, Owned
<1>DatedFile. DatedFile'
  BY <1>file DEF BInv, DatedFile, Readable, None, Partial, KnownType
<1>CacheBefore. CacheBefore'
  BY <1>known DEF BInv, CacheBefore, None
<1>CacheInOrder. CacheInOrder'
  BY <1>known DEF BInv, CacheInOrder, None
<1>SnapBefore. SnapBefore'
  BY <1>closing DEF BInv, SnapBefore
<1>CacheSame. CacheSame'
  BY <1>known DEF BInv, CacheSame, Cached, None, Partial
<1>CacheMeta. CacheMeta'
  BY <1>known DEF BInv, CacheMeta, Cached, NumberTypes, KnownType, None
<1>CacheHolds. CacheHolds'
  BY <1>known DEF BInv, CacheHolds, Cached, None, Partial
<1>CacheStays. CacheStays'
  BY <1>known DEF BInv, CacheStays, Cached, KnownType, None, Partial
<1>ModifiedQueued. ModifiedQueued'
  BY <1>window DEF BInv, ModifiedQueued
<1>ModifiedStored. ModifiedStored'
  BY <1>window DEF BInv, ModifiedStored
<1>CleanQueued. CleanQueued'
  BY <1>window DEF BInv, CleanQueued
<1>CleanDiscarded. CleanDiscarded'
  BY <1>window DEF BInv, CleanDiscarded
<1>StakeModified. StakeModified'
  BY <1>guard, <1>same DEF BInv, StakeModified
<1>SnapAsked. SnapAsked'
  BY <1>closing DEF BInv, SnapAsked
<1>SnapKept. SnapKept'
  BY <1>closing DEF BInv, SnapKept
<1>SnapStays. SnapStays'
  BY <1>closing DEF BInv, SnapStays
<1>StoreAsked. StoreAsked'
  BY <1>closing DEF BInv, StoreAsked
<1>StoreKept. StoreKept'
  BY <1>closing DEF BInv, StoreKept
<1>StoreStays. StoreStays'
  BY <1>closing DEF BInv, StoreStays
<1>DoneSecured. DoneSecured'
  BY <1>closing DEF BInv, DoneSecured
<1>NotDiscarding. NotDiscarding'
  BY <1>closing DEF BInv, NotDiscarding
<1>AcceptSecured. AcceptSecured'
  BY <1>fields, <1>guard, <1>same DEF BInv, AcceptSecured, AtStake, NotDiscarding, OpFacts
<1>GoneSecured. GoneSecured'
  BY <1>window DEF BInv, GoneSecured
<1> QED
  BY <1>frame, <1>FlagType, <1>WindowType, <1>FileType, <1>KnownType, <1>ClosingType,
     <1>FileCached, <1>NeverBoth, <1>ShutdownStages, <1>Owners, <1>Owned, <1>DatedFile,
     <1>CacheBefore, <1>CacheInOrder, <1>SnapBefore, <1>CacheSame, <1>CacheMeta,
     <1>CacheHolds, <1>CacheStays, <1>ModifiedQueued, <1>ModifiedStored, <1>CleanQueued,
     <1>CleanDiscarded, <1>StakeModified, <1>SnapAsked, <1>SnapKept, <1>SnapStays,
     <1>StoreAsked, <1>StoreKept, <1>StoreStays, <1>DoneSecured, <1>NotDiscarding,
     <1>AcceptSecured, <1>GoneSecured
  DEF BInv

\* ShutdownDecided keeps the invariant.
LEMMA ShutdownDecidedStep ==
  ASSUME BInv, ShutdownDecided
  PROVE  BInv'
<1>fields.
      /\ copy.content \in Nat /\ copy.version \in Nat
      /\ copy.modified \in BOOLEAN /\ copy.registered \in BOOLEAN
      /\ Len(queue) \in Nat
      /\ OpFacts
  BY Fields DEF BInv
<1>empty. (queue # <<>> <=> Len(queue) > 0) /\ Ops = DOMAIN queue
  BY Fields DEF BInv
<1>guard.
      /\ window # "gone" /\ (Len(queue) > 0 => Started(queue, 1))
      /\ \/ closing.stage = "done"
         \/ closing.stage = "discard" /\ \A i \in Ops : Owner(queue, i) # "closing"
  BY <1>empty DEF ShutdownDecided, Decide, Stays, HeadStarted, Owner, Started
<1>suspended. suspended' = FALSE
  BY <1>empty DEF ShutdownDecided, Decide, Stays
<1>closing. closing' = [stage |-> "none"]
  BY <1>empty DEF ShutdownDecided, Decide, Stays
<1>window. window' = "accepted"
  BY <1>empty DEF ShutdownDecided, Decide, Stays
<1>same. UNCHANGED <<copy, saved, pending, queue, file, known, typed, events, lapses,
                     atStake>>
  BY <1>empty DEF ShutdownDecided, Decide, Stays
<1>frame. /\ CopyType' /\ NumberTypes' /\ QueueType' /\ HeadOnly' /\ PendingType'
           /\ LapsesType' /\ FileType' /\ KnownType' /\ FileCached' /\ NeverBoth'
           /\ NothingStarts' /\ Numbers' /\ DatedQueue' /\ QueueBefore' /\ CacheBefore'
           /\ QueueInOrder' /\ CacheInOrder' /\ QueueSame' /\ CacheSame' /\ QueueHolds'
           /\ CacheMeta' /\ CacheHolds' /\ CacheStays' /\ QueueStays'
  BY <1>same, BackupFrames
<1>FlagType. FlagType'
  BY <1>guard, <1>suspended, <1>same DEF BInv, FlagType, Ops
<1>WindowType. WindowType'
  BY <1>window DEF BInv, WindowType
<1>ClosingType. ClosingType'
  BY <1>closing DEF BInv, ClosingType
<1>ShutdownStages. ShutdownStages'
  BY <1>suspended, <1>closing, <1>window DEF BInv, ShutdownStages
<1>Owners. Owners'
  BY <1>guard, <1>same DEF BInv, Owners, Ops
<1>Owned. Owned'
  BY <1>closing, <1>same DEF BInv, Owned
<1>DatedFile. DatedFile'
  BY <1>guard, <1>same DEF BInv, DatedFile
<1>SnapBefore. SnapBefore'
  BY <1>closing DEF BInv, SnapBefore
<1>ModifiedQueued. ModifiedQueued'
  BY <1>window DEF BInv, ModifiedQueued
<1>ModifiedStored. ModifiedStored'
  BY <1>window DEF BInv, ModifiedStored
<1>CleanQueued. CleanQueued'
  BY <1>window DEF BInv, CleanQueued
<1>CleanDiscarded. CleanDiscarded'
  BY <1>window DEF BInv, CleanDiscarded
<1>StakeModified. StakeModified'
  BY <1>guard, <1>same DEF BInv, StakeModified
<1>SnapAsked. SnapAsked'
  BY <1>closing DEF BInv, SnapAsked
<1>SnapKept. SnapKept'
  BY <1>closing DEF BInv, SnapKept
<1>SnapStays. SnapStays'
  BY <1>closing DEF BInv, SnapStays
<1>StoreAsked. StoreAsked'
  BY <1>closing DEF BInv, StoreAsked
<1>StoreKept. StoreKept'
  BY <1>closing DEF BInv, StoreKept
<1>StoreStays. StoreStays'
  BY <1>closing DEF BInv, StoreStays
<1>DoneSecured. DoneSecured'
  BY <1>closing DEF BInv, DoneSecured
<1>NotDiscarding. NotDiscarding'
  BY <1>closing DEF BInv, NotDiscarding
<1>AcceptSecured. AcceptSecured'
  BY <1>fields, <1>guard, <1>window, <1>same
     DEF BInv, AcceptSecured, AtStake, Secured, Ops, Readable, NumberTypes, HeadOnly,
         ShutdownStages, StakeModified, DoneSecured, CacheMeta, Cached, NotDiscarding,
         OpFacts
<1>GoneSecured. GoneSecured'
  BY <1>window DEF BInv, GoneSecured
<1> QED
  BY <1>frame, <1>FlagType, <1>WindowType, <1>ClosingType, <1>ShutdownStages, <1>Owners,
     <1>Owned, <1>DatedFile, <1>SnapBefore, <1>ModifiedQueued, <1>ModifiedStored,
     <1>CleanQueued, <1>CleanDiscarded, <1>StakeModified, <1>SnapAsked, <1>SnapKept,
     <1>SnapStays, <1>StoreAsked, <1>StoreKept, <1>StoreStays, <1>DoneSecured,
     <1>NotDiscarding, <1>AcceptSecured, <1>GoneSecured
  DEF BInv

\* Veto keeps the invariant.
LEMMA VetoStep ==
  ASSUME BInv, Veto
  PROVE  BInv'
<1>fields.
      /\ copy.content \in Nat /\ copy.version \in Nat
      /\ copy.modified \in BOOLEAN /\ copy.registered \in BOOLEAN
      /\ Len(queue) \in Nat
      /\ OpFacts
  BY Fields DEF BInv
<1>empty. (queue # <<>> <=> Len(queue) > 0) /\ Ops = DOMAIN queue
  BY Fields DEF BInv
<1>guard.
      /\ window # "gone" /\ (Len(queue) > 0 => Started(queue, 1))
      /\ closing.stage \in {"error", "confirm", "saving"}
  BY <1>empty DEF Veto, Decide, HeadStarted, Started
<1>suspended. suspended' = FALSE
  BY DEF Veto, Decide
<1>closing. closing' = [stage |-> "none"]
  BY DEF Veto, Decide
<1>window. window' = "open"
  BY DEF Veto, Decide
<1>lapses. lapses' = lapses \cup {"vetoed"}
  BY DEF Veto, Decide
<1>atStake. atStake' = 0
  BY DEF Veto, Decide
<1>same. UNCHANGED <<copy, saved, pending, queue, file, known, typed, events>>
  BY DEF Veto, Decide
<1>some. lapses' # {}
  BY <1>lapses
<1>frame. /\ CopyType' /\ QueueType' /\ HeadOnly' /\ PendingType' /\ FileType'
           /\ KnownType' /\ FileCached' /\ NeverBoth' /\ NothingStarts' /\ DatedQueue'
  BY <1>same, BackupFrames
<1>NumberTypes. NumberTypes'
  BY <1>atStake, <1>same DEF BInv, NumberTypes
<1>FlagType. FlagType'
  BY <1>guard, <1>suspended, <1>same DEF BInv, FlagType
<1>WindowType. WindowType'
  BY <1>window DEF BInv, WindowType
<1>LapsesType. LapsesType'
  BY <1>lapses DEF BInv, LapsesType
<1>ClosingType. ClosingType'
  BY <1>closing DEF BInv, ClosingType
<1>ShutdownStages. ShutdownStages'
  BY <1>suspended, <1>closing, <1>window DEF BInv, ShutdownStages
<1>Owners. Owners'
  BY <1>guard, <1>same DEF BInv, Owners, Ops
<1>Owned. Owned'
  BY <1>closing, <1>same DEF BInv, Owned
<1>Numbers. Numbers'
  BY <1>atStake, <1>same DEF BInv, Numbers, NumberTypes
<1>DatedFile. DatedFile'
  BY <1>guard, <1>same DEF BInv, DatedFile
<1>QueueBefore. QueueBefore'
  BY <1>lapses, <1>same DEF BInv, QueueBefore, Ops, Steady
<1>CacheBefore. CacheBefore'
  BY <1>lapses, <1>same DEF BInv, CacheBefore, Steady
<1>QueueInOrder. QueueInOrder'
  BY <1>lapses, <1>same DEF BInv, QueueInOrder, Ops, Steady
<1>CacheInOrder. CacheInOrder'
  BY <1>lapses, <1>same DEF BInv, CacheInOrder, Ops, Steady
<1>SnapBefore. SnapBefore'
  BY <1>closing DEF BInv, SnapBefore
<1>QueueSame. QueueSame'
  BY <1>lapses, <1>same DEF BInv, QueueSame, Ops, Steady
<1>CacheSame. CacheSame'
  BY <1>lapses, <1>same DEF BInv, CacheSame, Cached, Steady
<1>QueueHolds. QueueHolds'
  BY <1>lapses, <1>same DEF BInv, QueueHolds, Ops, Steady
<1>CacheMeta. CacheMeta'
  BY <1>lapses, <1>same DEF BInv, CacheMeta, Cached, Steady
<1>CacheHolds. CacheHolds'
  BY <1>lapses, <1>same DEF BInv, CacheHolds, Cached, Steady
<1>CacheStays. CacheStays'
  BY <1>lapses, <1>same DEF BInv, CacheStays, Ops, Cached, Steady, NumberTypes, HeadOnly
<1>QueueStays. QueueStays'
  BY <1>lapses, <1>same DEF BInv, QueueStays, Ops, Steady
<1>ModifiedQueued. ModifiedQueued'
  BY <1>some DEF BInv, ModifiedQueued
<1>ModifiedStored. ModifiedStored'
  BY <1>some DEF BInv, ModifiedStored
<1>CleanQueued. CleanQueued'
  BY <1>some DEF BInv, CleanQueued
<1>CleanDiscarded. CleanDiscarded'
  BY <1>some DEF BInv, CleanDiscarded
<1>StakeModified. StakeModified'
  BY <1>atStake DEF BInv, StakeModified
<1>SnapAsked. SnapAsked'
  BY <1>atStake DEF BInv, SnapAsked, AtStake
<1>SnapKept. SnapKept'
  BY <1>atStake DEF BInv, SnapKept, AtStake
<1>SnapStays. SnapStays'
  BY <1>atStake DEF BInv, SnapStays, AtStake
<1>StoreAsked. StoreAsked'
  BY <1>closing DEF BInv, StoreAsked
<1>StoreKept. StoreKept'
  BY <1>closing DEF BInv, StoreKept
<1>StoreStays. StoreStays'
  BY <1>atStake DEF BInv, StoreStays, AtStake
<1>DoneSecured. DoneSecured'
  BY <1>closing DEF BInv, DoneSecured
<1>NotDiscarding. NotDiscarding'
  BY <1>closing DEF BInv, NotDiscarding
<1>AcceptSecured. AcceptSecured'
  BY <1>window DEF BInv, AcceptSecured
<1>GoneSecured. GoneSecured'
  BY <1>atStake DEF BInv, GoneSecured, AtStake
<1> QED
  BY <1>frame, <1>NumberTypes, <1>FlagType, <1>WindowType, <1>LapsesType, <1>ClosingType,
     <1>ShutdownStages, <1>Owners, <1>Owned, <1>Numbers, <1>DatedFile, <1>QueueBefore,
     <1>CacheBefore, <1>QueueInOrder, <1>CacheInOrder, <1>SnapBefore, <1>QueueSame,
     <1>CacheSame, <1>QueueHolds, <1>CacheMeta, <1>CacheHolds, <1>CacheStays, <1>QueueStays,
     <1>ModifiedQueued, <1>ModifiedStored, <1>CleanQueued, <1>CleanDiscarded,
     <1>StakeModified, <1>SnapAsked, <1>SnapKept, <1>SnapStays, <1>StoreAsked, <1>StoreKept,
     <1>StoreStays, <1>DoneSecured, <1>NotDiscarding, <1>AcceptSecured, <1>GoneSecured
  DEF BInv

\* ShutdownAnyway keeps the invariant.
LEMMA ShutdownAnywayStep ==
  ASSUME BInv, ShutdownAnyway
  PROVE  BInv'
<1>fields.
      /\ copy.content \in Nat /\ copy.version \in Nat
      /\ copy.modified \in BOOLEAN /\ copy.registered \in BOOLEAN
      /\ Len(queue) \in Nat
      /\ OpFacts
  BY Fields DEF BInv
<1>empty. (queue # <<>> <=> Len(queue) > 0) /\ Ops = DOMAIN queue
  BY Fields DEF BInv
<1>guard.
      /\ window # "gone" /\ (Len(queue) > 0 => Started(queue, 1))
      /\ closing.stage = "error"
  BY <1>empty DEF ShutdownAnyway, Decide, Stays, HeadStarted, Started
<1>suspended. suspended' = FALSE
  BY DEF ShutdownAnyway, Decide, Stays
<1>closing. closing' = [stage |-> "none"]
  BY DEF ShutdownAnyway, Decide, Stays
<1>window. window' = "accepted"
  BY DEF ShutdownAnyway, Decide, Stays
<1>atStake. atStake' = 0
  BY DEF ShutdownAnyway, Decide, Stays
<1>same. UNCHANGED <<copy, saved, pending, queue, file, known, typed, events, lapses>>
  BY DEF ShutdownAnyway, Decide, Stays
<1>frame. /\ CopyType' /\ QueueType' /\ HeadOnly' /\ PendingType' /\ LapsesType'
           /\ FileType' /\ KnownType' /\ FileCached' /\ NeverBoth' /\ NothingStarts'
           /\ DatedQueue' /\ QueueBefore' /\ CacheBefore' /\ QueueInOrder'
           /\ CacheInOrder' /\ QueueSame' /\ CacheSame' /\ QueueHolds' /\ CacheMeta'
           /\ CacheHolds' /\ CacheStays' /\ QueueStays'
  BY <1>same, BackupFrames
<1>NumberTypes. NumberTypes'
  BY <1>atStake, <1>same DEF BInv, NumberTypes
<1>FlagType. FlagType'
  BY <1>guard, <1>suspended, <1>same DEF BInv, FlagType
<1>WindowType. WindowType'
  BY <1>window DEF BInv, WindowType
<1>ClosingType. ClosingType'
  BY <1>closing DEF BInv, ClosingType
<1>ShutdownStages. ShutdownStages'
  BY <1>suspended, <1>closing, <1>window DEF BInv, ShutdownStages
<1>Owners. Owners'
  BY <1>guard, <1>same DEF BInv, Owners, Ops
<1>Owned. Owned'
  BY <1>closing, <1>same DEF BInv, Owned
<1>Numbers. Numbers'
  BY <1>atStake, <1>same DEF BInv, Numbers, NumberTypes
<1>DatedFile. DatedFile'
  BY <1>guard, <1>same DEF BInv, DatedFile
<1>SnapBefore. SnapBefore'
  BY <1>closing DEF BInv, SnapBefore
<1>ModifiedQueued. ModifiedQueued'
  BY <1>window DEF BInv, ModifiedQueued
<1>ModifiedStored. ModifiedStored'
  BY <1>window DEF BInv, ModifiedStored
<1>CleanQueued. CleanQueued'
  BY <1>window DEF BInv, CleanQueued
<1>CleanDiscarded. CleanDiscarded'
  BY <1>window DEF BInv, CleanDiscarded
<1>StakeModified. StakeModified'
  BY <1>atStake DEF BInv, StakeModified
<1>SnapAsked. SnapAsked'
  BY <1>closing DEF BInv, SnapAsked
<1>SnapKept. SnapKept'
  BY <1>closing DEF BInv, SnapKept
<1>SnapStays. SnapStays'
  BY <1>atStake DEF BInv, SnapStays, AtStake
<1>StoreAsked. StoreAsked'
  BY <1>closing DEF BInv, StoreAsked
<1>StoreKept. StoreKept'
  BY <1>closing DEF BInv, StoreKept
<1>StoreStays. StoreStays'
  BY <1>closing DEF BInv, StoreStays
<1>DoneSecured. DoneSecured'
  BY <1>atStake DEF BInv, DoneSecured, AtStake
<1>NotDiscarding. NotDiscarding'
  BY <1>atStake DEF BInv, NotDiscarding, AtStake
<1>AcceptSecured. AcceptSecured'
  BY <1>atStake, <1>same DEF BInv, AcceptSecured, AtStake
<1>GoneSecured. GoneSecured'
  BY <1>atStake DEF BInv, GoneSecured, AtStake
<1> QED
  BY <1>frame, <1>NumberTypes, <1>FlagType, <1>WindowType, <1>ClosingType,
     <1>ShutdownStages, <1>Owners, <1>Owned, <1>Numbers, <1>DatedFile, <1>SnapBefore,
     <1>ModifiedQueued, <1>ModifiedStored, <1>CleanQueued, <1>CleanDiscarded,
     <1>StakeModified, <1>SnapAsked, <1>SnapKept, <1>SnapStays, <1>StoreAsked, <1>StoreKept,
     <1>StoreStays, <1>DoneSecured, <1>NotDiscarding, <1>AcceptSecured, <1>GoneSecured
  DEF BInv

\* ConfirmSave keeps the invariant.
LEMMA ConfirmSaveStep ==
  ASSUME BInv, ConfirmSave
  PROVE  BInv'
<1>fields.
      /\ copy.content \in Nat /\ copy.version \in Nat
      /\ copy.modified \in BOOLEAN /\ copy.registered \in BOOLEAN
      /\ Len(queue) \in Nat
      /\ OpFacts
  BY Fields DEF BInv
<1>empty. (queue # <<>> <=> Len(queue) > 0) /\ Ops = DOMAIN queue
  BY Fields DEF BInv
<1>guard.
      /\ window # "gone" /\ (Len(queue) > 0 => Started(queue, 1))
      /\ closing.stage = "confirm"
  BY <1>empty DEF ConfirmSave, Stays, HeadStarted, Started
<1>closing. closing' = [stage |-> "saving"]
  BY DEF ConfirmSave, Stays
<1>same. UNCHANGED <<copy, saved, pending, suspended, window, queue, file, known, typed,
                     events, lapses, atStake>>
  BY DEF ConfirmSave, Stays
<1>frame. /\ CopyType' /\ NumberTypes' /\ QueueType' /\ HeadOnly' /\ PendingType'
           /\ FlagType' /\ WindowType' /\ LapsesType' /\ FileType' /\ KnownType'
           /\ FileCached' /\ NeverBoth' /\ NothingStarts' /\ Numbers' /\ DatedFile'
           /\ DatedQueue' /\ QueueBefore' /\ CacheBefore' /\ QueueInOrder'
           /\ CacheInOrder' /\ QueueSame' /\ CacheSame' /\ QueueHolds' /\ CacheMeta'
           /\ CacheHolds' /\ CacheStays' /\ QueueStays' /\ ModifiedQueued'
           /\ ModifiedStored' /\ CleanQueued' /\ CleanDiscarded' /\ StakeModified'
           /\ AcceptSecured' /\ GoneSecured'
  BY <1>same, BackupFrames
<1>ClosingType. ClosingType'
  BY <1>closing DEF BInv, ClosingType
<1>ShutdownStages. ShutdownStages'
  BY <1>guard, <1>closing, <1>same DEF BInv, ShutdownStages
<1>Owners. Owners'
  BY <1>guard, <1>same DEF BInv, Owners, Ops
<1>Owned. Owned'
  BY <1>closing, <1>same DEF BInv, Owned
<1>SnapBefore. SnapBefore'
  BY <1>closing DEF BInv, SnapBefore
<1>SnapAsked. SnapAsked'
  BY <1>closing DEF BInv, SnapAsked
<1>SnapKept. SnapKept'
  BY <1>closing DEF BInv, SnapKept
<1>SnapStays. SnapStays'
  BY <1>closing DEF BInv, SnapStays
<1>StoreAsked. StoreAsked'
  BY <1>closing DEF BInv, StoreAsked
<1>StoreKept. StoreKept'
  BY <1>closing DEF BInv, StoreKept
<1>StoreStays. StoreStays'
  BY <1>closing DEF BInv, StoreStays
<1>DoneSecured. DoneSecured'
  BY <1>closing DEF BInv, DoneSecured
<1>NotDiscarding. NotDiscarding'
  BY <1>closing DEF BInv, NotDiscarding
<1> QED
  BY <1>frame, <1>ClosingType, <1>ShutdownStages, <1>Owners, <1>Owned, <1>SnapBefore,
     <1>SnapAsked, <1>SnapKept, <1>SnapStays, <1>StoreAsked, <1>StoreKept, <1>StoreStays,
     <1>DoneSecured, <1>NotDiscarding
  DEF BInv

\* Saved keeps the invariant.
LEMMA SavedStep ==
  ASSUME BInv, Saved
  PROVE  BInv'
<1>fields.
      /\ copy.content \in Nat /\ copy.version \in Nat
      /\ copy.modified \in BOOLEAN /\ copy.registered \in BOOLEAN
      /\ Len(queue) \in Nat
      /\ OpFacts
  BY Fields DEF BInv
<1>empty. (queue # <<>> <=> Len(queue) > 0) /\ Ops = DOMAIN queue
  BY Fields DEF BInv
<1>guard.
      /\ window # "gone" /\ (Len(queue) > 0 => Started(queue, 1))
      /\ closing.stage = "saving"
      /\ ~copy.modified
  BY <1>empty DEF Saved, DiscardHandled, Stays, HeadStarted, Started
<1>closing. closing' = [stage |-> "discard"]
  BY DEF Saved, DiscardHandled, Stays
<1>same. UNCHANGED <<copy, saved, pending, suspended, file, known, window, typed, events,
                     lapses, atStake>>
  BY DEF Saved, DiscardHandled, Stays
<1>calls. queue' = Append(queue, DiscardOp("closing"))
  BY DEF Saved, DiscardHandled, Stays
<1>e1. queue' \in Seq(Op) /\ AddedDiscard("closing") /\ Idem
  BY <1>guard, <1>calls, AddDiscardFacts DEF BInv
<1>after. Len(queue') \in Nat /\ AddedDiscard("closing") /\ Idem
  BY <1>fields, <1>e1
<1>frame. /\ CopyType' /\ NumberTypes' /\ PendingType' /\ FlagType' /\ WindowType'
           /\ LapsesType' /\ FileType' /\ KnownType' /\ FileCached' /\ Numbers'
           /\ DatedFile' /\ CacheBefore' /\ CacheSame' /\ CacheMeta' /\ CacheHolds'
           /\ ModifiedStored' /\ StakeModified' /\ GoneSecured'
  BY <1>same, BackupFrames
<1>QueueType. QueueType'
  BY <1>e1 DEF BInv, QueueType
<1>HeadOnly. HeadOnly'
  BY <1>after DEF BInv, HeadOnly, Ops, AddedDiscard, Idem, OpFacts, SameWork, SameOp
<1>ClosingType. ClosingType'
  BY <1>closing DEF BInv, ClosingType
<1>NeverBoth. NeverBoth'
  BY <1>same, <1>after
     DEF BInv, NeverBoth, Readable, Has, Known, HeadOnly, Ops, ShutdownStages, AddedDiscard,
         Idem, OpFacts, SameWork, SameOp
<1>NothingStarts. NothingStarts'
  BY <1>after DEF BInv, NothingStarts, Ops, AddedDiscard, Idem, OpFacts, SameWork, SameOp
<1>ShutdownStages. ShutdownStages'
  BY <1>guard, <1>closing, <1>same DEF BInv, ShutdownStages
<1>Owners. Owners'
  BY <1>fields, <1>guard, <1>closing, <1>same, <1>after
     DEF BInv, Owners, Ops, HeadOnly, NothingStarts, ShutdownStages, Owned, AddedDiscard,
         Idem, OpFacts, SameWork, SameOp
<1>Owned. Owned'
  BY <1>guard, <1>closing, <1>same DEF BInv, Owned, ShutdownStages, Owners
<1>DatedQueue. DatedQueue'
  BY <1>same, <1>after
     DEF BInv, DatedQueue, Ops, NumberTypes, ShutdownStages, AddedDiscard, Idem, OpFacts,
         SameWork, SameOp
<1>QueueBefore. QueueBefore'
  BY <1>same, <1>after
     DEF BInv, QueueBefore, Ops, Steady, NumberTypes, HeadOnly, ClosingType, ShutdownStages,
         SnapBefore, AddedDiscard, Idem, OpFacts, SameWork, SameOp
<1>QueueInOrder. QueueInOrder'
  BY <1>same, <1>after
     DEF BInv, QueueInOrder, Ops, Steady, ShutdownStages, SnapBefore, AddedDiscard, Idem,
         OpFacts, SameWork, SameOp
<1>CacheInOrder. CacheInOrder'
  BY <1>same, <1>after
     DEF BInv, CacheInOrder, Ops, Steady, AddedDiscard, Idem, OpFacts, SameWork, SameOp
<1>SnapBefore. SnapBefore'
  BY <1>closing DEF BInv, SnapBefore
<1>QueueSame. QueueSame'
  BY <1>same, <1>after
     DEF BInv, QueueSame, Ops, Steady, ShutdownStages, AddedDiscard, Idem, OpFacts,
         SameWork, SameOp
<1>QueueHolds. QueueHolds'
  BY <1>guard, <1>same DEF BInv, QueueHolds
<1>CacheStays. CacheStays'
  BY <1>guard, <1>same DEF BInv, CacheStays
<1>QueueStays. QueueStays'
  BY <1>guard, <1>same DEF BInv, QueueStays
<1>ModifiedQueued. ModifiedQueued'
  BY <1>guard, <1>same DEF BInv, ModifiedQueued
<1>CleanQueued. CleanQueued'
  BY <1>same, <1>after DEF BInv, CleanQueued, HeadOnly, AddedDiscard, Idem, OpFacts
<1>CleanDiscarded. CleanDiscarded'
  BY <1>guard, <1>same, <1>after DEF BInv, CleanDiscarded, ShutdownStages, Owners
<1>SnapAsked. SnapAsked'
  BY <1>closing DEF BInv, SnapAsked
<1>SnapKept. SnapKept'
  BY <1>closing DEF BInv, SnapKept
<1>SnapStays. SnapStays'
  BY <1>closing DEF BInv, SnapStays
<1>StoreAsked. StoreAsked'
  BY <1>closing DEF BInv, StoreAsked
<1>StoreKept. StoreKept'
  BY <1>closing DEF BInv, StoreKept
<1>StoreStays. StoreStays'
  BY <1>closing DEF BInv, StoreStays
<1>DoneSecured. DoneSecured'
  BY <1>closing DEF BInv, DoneSecured
<1>NotDiscarding. NotDiscarding'
  BY <1>guard, <1>closing, <1>same
     DEF BInv, NotDiscarding, AtStake, NumberTypes, StakeModified, OpFacts
<1>AcceptSecured. AcceptSecured'
  BY <1>guard, <1>same DEF BInv, AcceptSecured, ShutdownStages, StakeModified, DoneSecured
<1> QED
  BY <1>frame, <1>QueueType, <1>HeadOnly, <1>ClosingType, <1>NeverBoth, <1>NothingStarts,
     <1>ShutdownStages, <1>Owners, <1>Owned, <1>DatedQueue, <1>QueueBefore, <1>QueueInOrder,
     <1>CacheInOrder, <1>SnapBefore, <1>QueueSame, <1>QueueHolds, <1>CacheStays,
     <1>QueueStays, <1>ModifiedQueued, <1>CleanQueued, <1>CleanDiscarded, <1>SnapAsked,
     <1>SnapKept, <1>SnapStays, <1>StoreAsked, <1>StoreKept, <1>StoreStays, <1>DoneSecured,
     <1>NotDiscarding, <1>AcceptSecured
  DEF BInv

\* DontSave keeps the invariant.
LEMMA DontSaveStep ==
  ASSUME BInv, DontSave
  PROVE  BInv'
<1>fields.
      /\ copy.content \in Nat /\ copy.version \in Nat
      /\ copy.modified \in BOOLEAN /\ copy.registered \in BOOLEAN
      /\ Len(queue) \in Nat
      /\ OpFacts
  BY Fields DEF BInv
<1>empty. (queue # <<>> <=> Len(queue) > 0) /\ Ops = DOMAIN queue
  BY Fields DEF BInv
<1>guard.
      /\ window # "gone" /\ (Len(queue) > 0 => Started(queue, 1))
      /\ closing.stage = "confirm"
  BY <1>empty DEF DontSave, DiscardHandled, HeadStarted, Started
<1>closing. closing' = [stage |-> "discard"]
  BY DEF DontSave, DiscardHandled
<1>atStake. atStake' = 0
  BY DEF DontSave, DiscardHandled
<1>same. UNCHANGED <<saved, pending, suspended, file, known, window, typed, events, lapses>>
  BY DEF DontSave, DiscardHandled
<1>calls. queue' = Append(queue, DiscardOp("closing"))
  BY DEF DontSave, DiscardHandled
<1>edit. copy' = [copy EXCEPT !.modified = FALSE]
  BY DEF DontSave, DiscardHandled
<1>e1. queue' \in Seq(Op) /\ AddedDiscard("closing") /\ Idem
  BY <1>guard, <1>calls, AddDiscardFacts DEF BInv
<1>after. Len(queue') \in Nat /\ AddedDiscard("closing") /\ Idem
  BY <1>fields, <1>e1
<1>e2. copy' = [registered |-> copy.registered, modified |-> FALSE,
                content |-> copy.content, version |-> copy.version]
  BY <1>guard, <1>closing, <1>atStake, <1>same, <1>calls, <1>edit DEF BInv, CopyType
<1>e3.
      /\ copy' \in [registered : BOOLEAN, modified : BOOLEAN, content : Nat, version : Nat]
      /\ copy'.registered = copy.registered /\ copy'.modified = FALSE
      /\ copy'.content = copy.content /\ copy'.version = copy.version
  BY <1>fields, <1>empty, <1>e2 DEF BInv, NumberTypes
<1>frame. /\ PendingType' /\ FlagType' /\ WindowType' /\ LapsesType' /\ FileType'
           /\ KnownType' /\ FileCached'
  BY <1>same, BackupFrames
<1>CopyType. CopyType'
  BY <1>e3 DEF BInv, CopyType
<1>NumberTypes. NumberTypes'
  BY <1>atStake, <1>same DEF BInv, NumberTypes
<1>QueueType. QueueType'
  BY <1>e1 DEF BInv, QueueType
<1>HeadOnly. HeadOnly'
  BY <1>after DEF BInv, HeadOnly, Ops, AddedDiscard, Idem, OpFacts, SameWork, SameOp
<1>ClosingType. ClosingType'
  BY <1>closing DEF BInv, ClosingType
<1>NeverBoth. NeverBoth'
  BY <1>same, <1>after
     DEF BInv, NeverBoth, Readable, Has, Known, HeadOnly, Ops, ShutdownStages, AddedDiscard,
         Idem, OpFacts, SameWork, SameOp
<1>NothingStarts. NothingStarts'
  BY <1>after DEF BInv, NothingStarts, Ops, AddedDiscard, Idem, OpFacts, SameWork, SameOp
<1>ShutdownStages. ShutdownStages'
  BY <1>guard, <1>closing, <1>same DEF BInv, ShutdownStages
<1>Owners. Owners'
  BY <1>fields, <1>guard, <1>closing, <1>same, <1>after
     DEF BInv, Owners, Ops, HeadOnly, NothingStarts, ShutdownStages, Owned, AddedDiscard,
         Idem, OpFacts, SameWork, SameOp
<1>Owned. Owned'
  BY <1>guard, <1>closing, <1>same DEF BInv, Owned, ShutdownStages, Owners
<1>Numbers. Numbers'
  BY <1>atStake, <1>same, <1>e3 DEF BInv, Numbers, NumberTypes
<1>DatedFile. DatedFile'
  BY <1>same, <1>e3 DEF BInv, DatedFile
<1>DatedQueue. DatedQueue'
  BY <1>same, <1>after, <1>e3
     DEF BInv, DatedQueue, Ops, AddedDiscard, Idem, OpFacts, SameWork, SameOp
<1>QueueBefore. QueueBefore'
  BY <1>same, <1>after, <1>e3
     DEF BInv, QueueBefore, Ops, Steady, NumberTypes, HeadOnly, AddedDiscard, Idem, OpFacts,
         SameWork, SameOp
<1>CacheBefore. CacheBefore'
  BY <1>same, <1>e3 DEF BInv, CacheBefore, Steady
<1>QueueInOrder. QueueInOrder'
  BY <1>same, <1>after
     DEF BInv, QueueInOrder, Ops, Steady, ShutdownStages, SnapBefore, AddedDiscard, Idem,
         OpFacts, SameWork, SameOp
<1>CacheInOrder. CacheInOrder'
  BY <1>same, <1>after
     DEF BInv, CacheInOrder, Ops, Steady, AddedDiscard, Idem, OpFacts, SameWork, SameOp
<1>SnapBefore. SnapBefore'
  BY <1>closing DEF BInv, SnapBefore
<1>QueueSame. QueueSame'
  BY <1>same, <1>after, <1>e3
     DEF BInv, QueueSame, Ops, Steady, AddedDiscard, Idem, OpFacts, SameWork, SameOp
<1>CacheSame. CacheSame'
  BY <1>same, <1>e3 DEF BInv, CacheSame, Cached, Steady
<1>QueueHolds. QueueHolds'
  BY <1>e3 DEF BInv, QueueHolds
<1>CacheMeta. CacheMeta'
  BY <1>e3 DEF BInv, CacheMeta
<1>CacheHolds. CacheHolds'
  BY <1>e3 DEF BInv, CacheHolds
<1>CacheStays. CacheStays'
  BY <1>e3 DEF BInv, CacheStays
<1>QueueStays. QueueStays'
  BY <1>e3 DEF BInv, QueueStays
<1>ModifiedQueued. ModifiedQueued'
  BY <1>e3 DEF BInv, ModifiedQueued
<1>ModifiedStored. ModifiedStored'
  BY <1>e3 DEF BInv, ModifiedStored
<1>CleanQueued. CleanQueued'
  BY <1>guard, <1>same, <1>after DEF BInv, CleanQueued, ShutdownStages, Owners
<1>CleanDiscarded. CleanDiscarded'
  BY <1>guard, <1>same, <1>after DEF BInv, CleanDiscarded, FileType, ShutdownStages
<1>StakeModified. StakeModified'
  BY <1>atStake DEF BInv, StakeModified
<1>SnapAsked. SnapAsked'
  BY <1>closing DEF BInv, SnapAsked
<1>SnapKept. SnapKept'
  BY <1>closing DEF BInv, SnapKept
<1>SnapStays. SnapStays'
  BY <1>closing DEF BInv, SnapStays
<1>StoreAsked. StoreAsked'
  BY <1>closing DEF BInv, StoreAsked
<1>StoreKept. StoreKept'
  BY <1>closing DEF BInv, StoreKept
<1>StoreStays. StoreStays'
  BY <1>closing DEF BInv, StoreStays
<1>DoneSecured. DoneSecured'
  BY <1>closing DEF BInv, DoneSecured
<1>NotDiscarding. NotDiscarding'
  BY <1>atStake DEF BInv, NotDiscarding, AtStake
<1>AcceptSecured. AcceptSecured'
  BY <1>atStake DEF BInv, AcceptSecured, AtStake
<1>GoneSecured. GoneSecured'
  BY <1>atStake DEF BInv, GoneSecured, AtStake
<1> QED
  BY <1>frame, <1>CopyType, <1>NumberTypes, <1>QueueType, <1>HeadOnly, <1>ClosingType,
     <1>NeverBoth, <1>NothingStarts, <1>ShutdownStages, <1>Owners, <1>Owned, <1>Numbers,
     <1>DatedFile, <1>DatedQueue, <1>QueueBefore, <1>CacheBefore, <1>QueueInOrder,
     <1>CacheInOrder, <1>SnapBefore, <1>QueueSame, <1>CacheSame, <1>QueueHolds,
     <1>CacheMeta, <1>CacheHolds, <1>CacheStays, <1>QueueStays, <1>ModifiedQueued,
     <1>ModifiedStored, <1>CleanQueued, <1>CleanDiscarded, <1>StakeModified, <1>SnapAsked,
     <1>SnapKept, <1>SnapStays, <1>StoreAsked, <1>StoreKept, <1>StoreStays, <1>DoneSecured,
     <1>NotDiscarding, <1>AcceptSecured, <1>GoneSecured
  DEF BInv

\* WillShutdown keeps the invariant.
LEMMA WillShutdownStep ==
  ASSUME BInv, WillShutdown
  PROVE  BInv'
<1>fields.
      /\ copy.content \in Nat /\ copy.version \in Nat
      /\ copy.modified \in BOOLEAN /\ copy.registered \in BOOLEAN
      /\ Len(queue) \in Nat
      /\ OpFacts
  BY Fields DEF BInv
<1>empty. (queue # <<>> <=> Len(queue) > 0) /\ Ops = DOMAIN queue
  BY Fields DEF BInv
<1>guard.
      /\ window # "gone" /\ (Len(queue) > 0 => Started(queue, 1))
      /\ window = "accepted"
  BY <1>empty DEF WillShutdown, Stays, HeadStarted, Started
<1>window. window' = "closing"
  BY DEF WillShutdown, Stays
<1>suspended. suspended' = TRUE
  BY DEF WillShutdown, Stays
<1>pending. pending' = "none"
  BY DEF WillShutdown, Stays
<1>same. UNCHANGED <<copy, saved, closing, file, known, typed, events, lapses, atStake>>
  BY DEF WillShutdown, Stays
<1>calls. queue' = Cancelled("tracker")
  BY DEF WillShutdown, Stays
<1>e1. queue' \in Seq(Op) /\ Len(queue') = Len(queue) /\ Thinned("tracker")
  BY <1>guard, <1>calls, CancelFacts DEF BInv
<1>after. Len(queue') \in Nat /\ Len(queue') = Len(queue) /\ Thinned("tracker")
  BY <1>fields, <1>e1
<1>frame. /\ CopyType' /\ NumberTypes' /\ LapsesType' /\ FileType' /\ KnownType'
           /\ ClosingType' /\ FileCached' /\ Numbers' /\ CacheBefore' /\ CacheSame'
           /\ CacheMeta' /\ CacheHolds' /\ NotDiscarding'
  BY <1>same, BackupFrames
<1>QueueType. QueueType'
  BY <1>e1 DEF BInv, QueueType
<1>HeadOnly. HeadOnly'
  BY <1>after DEF BInv, HeadOnly, Ops, Thinned
<1>PendingType. PendingType'
  BY <1>pending DEF BInv, PendingType
<1>FlagType. FlagType'
  BY <1>guard, <1>suspended, <1>same DEF BInv, FlagType
<1>WindowType. WindowType'
  BY <1>window DEF BInv, WindowType
<1>NeverBoth. NeverBoth'
  BY <1>same, <1>after
     DEF BInv, NeverBoth, Readable, Has, Known, HeadOnly, Ops, ShutdownStages, Thinned,
         OpFacts, SameWork, SameOp
<1>NothingStarts. NothingStarts'
  BY <1>after DEF BInv, NothingStarts, Ops, Thinned, OpFacts, SameWork, SameOp
<1>ShutdownStages. ShutdownStages'
  BY <1>guard, <1>window, <1>suspended, <1>pending, <1>same DEF BInv, ShutdownStages
<1>Owners. Owners'
  BY <1>same, <1>after DEF BInv, Owners, Ops, Thinned, OpFacts, SameWork, SameOp
<1>Owned. Owned'
  BY <1>guard, <1>pending, <1>same DEF BInv, Owned, ShutdownStages, Owners
<1>DatedFile. DatedFile'
  BY <1>guard, <1>same DEF BInv, DatedFile
<1>DatedQueue. DatedQueue'
  BY <1>same, <1>after
     DEF BInv, DatedQueue, Ops, NumberTypes, ShutdownStages, Thinned, OpFacts, SameWork
<1>QueueBefore. QueueBefore'
  BY <1>same, <1>after
     DEF BInv, QueueBefore, Ops, Steady, SnapBefore, Thinned, OpFacts, SameWork
<1>QueueInOrder. QueueInOrder'
  BY <1>same, <1>after
     DEF BInv, QueueInOrder, Ops, Steady, SnapBefore, Thinned, OpFacts, SameWork
<1>CacheInOrder. CacheInOrder'
  BY <1>same, <1>after DEF BInv, CacheInOrder, Ops, Steady, Thinned, OpFacts, SameWork
<1>SnapBefore. SnapBefore'
  BY <1>guard, <1>same DEF BInv, SnapBefore, ShutdownStages
<1>QueueSame. QueueSame'
  BY <1>same, <1>after
     DEF BInv, QueueSame, Ops, Steady, ShutdownStages, Thinned, OpFacts, SameWork, SameOp
<1>QueueHolds. QueueHolds'
  BY <1>same, <1>after
     DEF BInv, QueueHolds, Ops, Steady, ShutdownStages, Thinned, OpFacts, SameWork
<1>CacheStays. CacheStays'
  BY <1>same, <1>after
     DEF BInv, CacheStays, Ops, Cached, Steady, ShutdownStages, Thinned, OpFacts, SameWork,
         SameOp
<1>QueueStays. QueueStays'
  BY <1>same, <1>after DEF BInv, QueueStays, Ops, Steady, Thinned, OpFacts, SameWork, SameOp
<1>ModifiedQueued. ModifiedQueued'
  BY <1>pending DEF BInv, ModifiedQueued
<1>ModifiedStored. ModifiedStored'
  BY <1>suspended DEF BInv, ModifiedStored
<1>CleanQueued. CleanQueued'
  BY <1>pending DEF BInv, CleanQueued
<1>CleanDiscarded. CleanDiscarded'
  BY <1>suspended DEF BInv, CleanDiscarded
<1>StakeModified. StakeModified'
  BY <1>guard, <1>same DEF BInv, StakeModified
<1>SnapAsked. SnapAsked'
  BY <1>same, <1>after DEF BInv, SnapAsked, Ops, AtStake, Thinned, OpFacts, SameWork, SameOp
<1>SnapKept. SnapKept'
  BY <1>same, <1>after
     DEF BInv, SnapKept, Ops, Cached, AtStake, Readable, CacheInOrder, Thinned, OpFacts,
         SameWork
<1>SnapStays. SnapStays'
  BY <1>same, <1>after
     DEF BInv, SnapStays, Ops, AtStake, Owned, Thinned, OpFacts, SameWork, SameOp
<1>StoreAsked. StoreAsked'
  BY <1>same, <1>after
     DEF BInv, StoreAsked, Ops, AtStake, Owned, Thinned, OpFacts, SameWork, SameOp
<1>StoreKept. StoreKept'
  BY <1>guard, <1>same, <1>after DEF BInv, StoreKept, Ops, ShutdownStages
<1>StoreStays. StoreStays'
  BY <1>same, <1>after
     DEF BInv, StoreStays, Ops, AtStake, Owners, Owned, Thinned, OpFacts, SameWork, SameOp
<1>DoneSecured. DoneSecured'
  BY <1>same, <1>after DEF BInv, DoneSecured, AtStake
<1>AcceptSecured. AcceptSecured'
  BY <1>fields, <1>guard, <1>window, <1>same, <1>after, Z3T(10)
     DEF BInv, AcceptSecured, AtStake, Secured, Ops, Readable, NothingStarts, NotDiscarding,
         Thinned, OpFacts, SameWork, SameOp
<1>GoneSecured. GoneSecured'
  BY <1>window DEF BInv, GoneSecured
<1> QED
  BY <1>frame, <1>QueueType, <1>HeadOnly, <1>PendingType, <1>FlagType, <1>WindowType,
     <1>NeverBoth, <1>NothingStarts, <1>ShutdownStages, <1>Owners, <1>Owned, <1>DatedFile,
     <1>DatedQueue, <1>QueueBefore, <1>QueueInOrder, <1>CacheInOrder, <1>SnapBefore,
     <1>QueueSame, <1>QueueHolds, <1>CacheStays, <1>QueueStays, <1>ModifiedQueued,
     <1>ModifiedStored, <1>CleanQueued, <1>CleanDiscarded, <1>StakeModified, <1>SnapAsked,
     <1>SnapKept, <1>SnapStays, <1>StoreAsked, <1>StoreKept, <1>StoreStays, <1>DoneSecured,
     <1>AcceptSecured, <1>GoneSecured
  DEF BInv

\* WindowGoes keeps the invariant.
LEMMA WindowGoesStep ==
  ASSUME BInv, WindowGoes
  PROVE  BInv'
<1>fields.
      /\ copy.content \in Nat /\ copy.version \in Nat
      /\ copy.modified \in BOOLEAN /\ copy.registered \in BOOLEAN
      /\ Len(queue) \in Nat
      /\ OpFacts
  BY Fields DEF BInv
<1>empty. (queue # <<>> <=> Len(queue) > 0) /\ Ops = DOMAIN queue
  BY Fields DEF BInv
<1>guard.
      /\ window = "closing"
      /\ Len(queue) = 0
  BY <1>empty DEF WindowGoes, Stays
<1>window. window' = "gone"
  BY <1>empty DEF WindowGoes, Stays
<1>same. UNCHANGED <<copy, saved, pending, suspended, queue, closing, file, known, typed,
                     events, lapses, atStake>>
  BY <1>empty DEF WindowGoes, Stays
<1>frame. /\ CopyType' /\ NumberTypes' /\ QueueType' /\ HeadOnly' /\ PendingType'
           /\ FlagType' /\ LapsesType' /\ FileType' /\ KnownType' /\ ClosingType'
           /\ FileCached' /\ NeverBoth' /\ NothingStarts' /\ Owners' /\ Owned'
           /\ Numbers' /\ DatedQueue' /\ QueueBefore' /\ CacheBefore' /\ QueueInOrder'
           /\ CacheInOrder' /\ SnapBefore' /\ QueueSame' /\ CacheSame' /\ QueueHolds'
           /\ CacheMeta' /\ CacheHolds' /\ CacheStays' /\ QueueStays' /\ SnapAsked'
           /\ SnapKept' /\ SnapStays' /\ StoreAsked' /\ StoreKept' /\ StoreStays'
           /\ DoneSecured' /\ NotDiscarding'
  BY <1>same, BackupFrames
<1>WindowType. WindowType'
  BY <1>window DEF BInv, WindowType
<1>ShutdownStages. ShutdownStages'
  BY <1>guard, <1>window, <1>same DEF BInv, ShutdownStages
<1>DatedFile. DatedFile'
  BY <1>window, <1>same DEF BInv, DatedFile
<1>ModifiedQueued. ModifiedQueued'
  BY <1>window DEF BInv, ModifiedQueued
<1>ModifiedStored. ModifiedStored'
  BY <1>window DEF BInv, ModifiedStored
<1>CleanQueued. CleanQueued'
  BY <1>window DEF BInv, CleanQueued
<1>CleanDiscarded. CleanDiscarded'
  BY <1>window DEF BInv, CleanDiscarded
<1>StakeModified. StakeModified'
  BY <1>window DEF BInv, StakeModified
<1>AcceptSecured. AcceptSecured'
  BY <1>window DEF BInv, AcceptSecured
<1>GoneSecured. GoneSecured'
  BY <1>guard, <1>same
     DEF BInv, GoneSecured, AtStake, ShutdownStages, StakeModified, AcceptSecured, Secured,
         Ops, OpFacts
<1> QED
  BY <1>frame, <1>WindowType, <1>ShutdownStages, <1>DatedFile, <1>ModifiedQueued,
     <1>ModifiedStored, <1>CleanQueued, <1>CleanDiscarded, <1>StakeModified,
     <1>AcceptSecured, <1>GoneSecured
  DEF BInv

\* Crash keeps the invariant.
LEMMA CrashStep ==
  ASSUME BInv, Crash
  PROVE  BInv'
<1>fields.
      /\ copy.content \in Nat /\ copy.version \in Nat
      /\ copy.modified \in BOOLEAN /\ copy.registered \in BOOLEAN
      /\ Len(queue) \in Nat
      /\ OpFacts
  BY Fields DEF BInv
<1>empty. (queue # <<>> <=> Len(queue) > 0) /\ Ops = DOMAIN queue
  BY Fields DEF BInv
<1>guard. window # "gone"
  BY <1>empty DEF Crash
<1>events. events' = events + 1
  BY DEF Crash, Bounded
<1>window. window' = "gone"
  BY DEF Crash
<1>queue. queue' = <<>>
  BY DEF Crash
<1>pending. pending' = "none"
  BY DEF Crash
<1>closing. closing' = [stage |-> "none"]
  BY DEF Crash
<1>atStake. atStake' = 0
  BY DEF Crash
<1>same. UNCHANGED <<copy, saved, suspended, file, known, typed, lapses>>
  BY DEF Crash
<1>e1. queue' \in Seq(Op) /\ Len(queue') = 0
  BY <1>guard, <1>events, <1>window, <1>queue, <1>pending, <1>closing, <1>atStake, <1>same
<1>after. Len(queue') \in Nat /\ Len(queue') = 0
  BY <1>fields, <1>e1
<1>frame. /\ CopyType' /\ FlagType' /\ LapsesType' /\ FileType' /\ KnownType'
           /\ FileCached' /\ CacheBefore' /\ CacheSame' /\ CacheMeta' /\ CacheHolds'
  BY <1>same, BackupFrames
<1>NumberTypes. NumberTypes'
  BY <1>events, <1>atStake, <1>same DEF BInv, NumberTypes
<1>QueueType. QueueType'
  BY <1>e1 DEF BInv, QueueType
<1>HeadOnly. HeadOnly'
  BY <1>after DEF BInv, HeadOnly, Ops
<1>PendingType. PendingType'
  BY <1>pending DEF BInv, PendingType
<1>WindowType. WindowType'
  BY <1>window DEF BInv, WindowType
<1>ClosingType. ClosingType'
  BY <1>closing DEF BInv, ClosingType
<1>NeverBoth. NeverBoth'
  BY <1>after DEF BInv, NeverBoth
<1>NothingStarts. NothingStarts'
  BY <1>after DEF BInv, NothingStarts, Ops
<1>ShutdownStages. ShutdownStages'
  BY <1>window, <1>queue, <1>pending, <1>closing DEF BInv, ShutdownStages
<1>Owners. Owners'
  BY <1>after DEF BInv, Owners, Ops
<1>Owned. Owned'
  BY <1>pending, <1>closing DEF BInv, Owned
<1>Numbers. Numbers'
  BY <1>atStake, <1>same DEF BInv, Numbers, NumberTypes
<1>DatedFile. DatedFile'
  BY <1>window, <1>same DEF BInv, DatedFile
<1>DatedQueue. DatedQueue'
  BY <1>after DEF BInv, DatedQueue, Ops
<1>QueueBefore. QueueBefore'
  BY <1>after DEF BInv, QueueBefore, Ops
<1>QueueInOrder. QueueInOrder'
  BY <1>after DEF BInv, QueueInOrder, Ops
<1>CacheInOrder. CacheInOrder'
  BY <1>after DEF BInv, CacheInOrder, Ops
<1>SnapBefore. SnapBefore'
  BY <1>closing DEF BInv, SnapBefore
<1>QueueSame. QueueSame'
  BY <1>after DEF BInv, QueueSame, Ops
<1>QueueHolds. QueueHolds'
  BY <1>after DEF BInv, QueueHolds, Ops
<1>CacheStays. CacheStays'
  BY <1>after DEF BInv, CacheStays, Ops
<1>QueueStays. QueueStays'
  BY <1>after DEF BInv, QueueStays, Ops
<1>ModifiedQueued. ModifiedQueued'
  BY <1>pending DEF BInv, ModifiedQueued
<1>ModifiedStored. ModifiedStored'
  BY <1>window DEF BInv, ModifiedStored
<1>CleanQueued. CleanQueued'
  BY <1>pending DEF BInv, CleanQueued
<1>CleanDiscarded. CleanDiscarded'
  BY <1>window DEF BInv, CleanDiscarded
<1>StakeModified. StakeModified'
  BY <1>atStake DEF BInv, StakeModified
<1>SnapAsked. SnapAsked'
  BY <1>after DEF BInv, SnapAsked, Ops
<1>SnapKept. SnapKept'
  BY <1>closing DEF BInv, SnapKept
<1>SnapStays. SnapStays'
  BY <1>after DEF BInv, SnapStays, Ops
<1>StoreAsked. StoreAsked'
  BY <1>after DEF BInv, StoreAsked, Ops
<1>StoreKept. StoreKept'
  BY <1>closing DEF BInv, StoreKept
<1>StoreStays. StoreStays'
  BY <1>after DEF BInv, StoreStays, Ops
<1>DoneSecured. DoneSecured'
  BY <1>closing DEF BInv, DoneSecured
<1>NotDiscarding. NotDiscarding'
  BY <1>atStake DEF BInv, NotDiscarding, AtStake
<1>AcceptSecured. AcceptSecured'
  BY <1>window DEF BInv, AcceptSecured
<1>GoneSecured. GoneSecured'
  BY <1>atStake DEF BInv, GoneSecured, AtStake
<1> QED
  BY <1>frame, <1>NumberTypes, <1>QueueType, <1>HeadOnly, <1>PendingType, <1>WindowType,
     <1>ClosingType, <1>NeverBoth, <1>NothingStarts, <1>ShutdownStages, <1>Owners, <1>Owned,
     <1>Numbers, <1>DatedFile, <1>DatedQueue, <1>QueueBefore, <1>QueueInOrder,
     <1>CacheInOrder, <1>SnapBefore, <1>QueueSame, <1>QueueHolds, <1>CacheStays,
     <1>QueueStays, <1>ModifiedQueued, <1>ModifiedStored, <1>CleanQueued, <1>CleanDiscarded,
     <1>StakeModified, <1>SnapAsked, <1>SnapKept, <1>SnapStays, <1>StoreAsked, <1>StoreKept,
     <1>StoreStays, <1>DoneSecured, <1>NotDiscarding, <1>AcceptSecured, <1>GoneSecured
  DEF BInv

\* RestartBacked keeps the invariant.
LEMMA RestartBackedStep ==
  ASSUME BInv, RestartBackedCase
  PROVE  BInv'
<1>fields.
      /\ copy.content \in Nat /\ copy.version \in Nat
      /\ copy.modified \in BOOLEAN /\ copy.registered \in BOOLEAN
      /\ Len(queue) \in Nat
      /\ OpFacts
  BY Fields DEF BInv
<1>empty. (queue # <<>> <=> Len(queue) > 0) /\ Ops = DOMAIN queue
  BY Fields DEF BInv
<1>guard.
      /\ window = "gone"
      /\ Readable(file)
  BY <1>empty DEF RestartBackedCase, Restart
<1>window. window' = "open"
  BY DEF RestartBackedCase, Restart
<1>suspended. suspended' = FALSE
  BY DEF RestartBackedCase, Restart
<1>lapses. lapses' = {}
  BY DEF RestartBackedCase, Restart
<1>atStake. atStake' = 0
  BY DEF RestartBackedCase, Restart
<1>same. UNCHANGED <<saved, queue, file, closing, typed, events>>
  BY DEF RestartBackedCase, Restart
<1>e1. file.content \in Nat /\ file.meta \in Nat
  BY DEF BInv, FileType, Readable, None, Partial, RestartBackedCase
<1>e2. known' = Known(0, file.meta) /\ pending' = "timer"
  BY DEF Restart, RestartBackedCase, Readable, None
<1>e3. Readable(file) = TRUE
  BY DEF RestartBackedCase, Readable
<1>e4. copy' = [registered |-> TRUE, modified |-> TRUE, version |-> 0,
                content |-> file.content]
  BY <1>e3 DEF Restart, RestartBackedCase
<1>e5.
      /\ copy' \in [registered : BOOLEAN, modified : BOOLEAN, content : Nat, version : Nat]
      /\ copy'.registered = TRUE /\ copy'.modified = TRUE
      /\ copy'.content = file.content /\ copy'.version = 0
  BY <1>e1, <1>e4
<1>frame. QueueType' /\ HeadOnly' /\ FileType' /\ ClosingType' /\ NothingStarts'
  BY <1>same, BackupFrames
<1>CopyType. CopyType'
  BY <1>e5 DEF BInv, CopyType
<1>NumberTypes. NumberTypes'
  BY <1>atStake, <1>same DEF BInv, NumberTypes
<1>PendingType. PendingType'
  BY <1>e2 DEF BInv, PendingType
<1>FlagType. FlagType'
  BY <1>guard, <1>suspended, <1>same, <1>e1 DEF BInv, FlagType, Readable
<1>WindowType. WindowType'
  BY <1>window DEF BInv, WindowType
<1>LapsesType. LapsesType'
  BY <1>lapses DEF BInv, LapsesType
<1>KnownType. KnownType'
  BY <1>e1, <1>e2 DEF BInv, KnownType, Known, Readable
<1>FileCached. FileCached'
  BY <1>guard, <1>same, <1>e1, <1>e2 DEF BInv, FileCached, None, Readable, OpFacts
<1>NeverBoth. NeverBoth'
  BY <1>guard, <1>same DEF BInv, NeverBoth
<1>ShutdownStages. ShutdownStages'
  BY <1>guard, <1>window, <1>suspended, <1>same DEF BInv, ShutdownStages
<1>Owners. Owners'
  BY <1>guard, <1>same DEF BInv, Owners, Ops, ShutdownStages, Owned
<1>Owned. Owned'
  BY <1>same, <1>e2 DEF BInv, Owned
<1>Numbers. Numbers'
  BY <1>guard, <1>atStake, <1>same, <1>e5 DEF BInv, Numbers, NumberTypes, DatedFile
<1>DatedFile. DatedFile'
  BY <1>same, <1>e2, <1>e5 DEF BInv, DatedFile, Readable, NumberTypes, Ops, Known, OpFacts
<1>DatedQueue. DatedQueue'
  BY <1>guard, <1>same, <1>e5 DEF BInv, DatedQueue, Ops, Numbers, ShutdownStages
<1>QueueBefore. QueueBefore'
  BY <1>guard, <1>lapses, <1>same
     DEF BInv, QueueBefore, Ops, Steady, ClosingType, ShutdownStages
<1>CacheBefore. CacheBefore'
  BY <1>e2, <1>e5 DEF BInv, CacheBefore, Steady, NumberTypes, Known, Readable, OpFacts
<1>QueueInOrder. QueueInOrder'
  BY <1>guard, <1>same, <1>e1 DEF BInv, QueueInOrder, Ops, ShutdownStages, SnapBefore
<1>CacheInOrder. CacheInOrder'
  BY <1>guard, <1>same, <1>e2
     DEF BInv, CacheInOrder, Ops, CacheBefore, QueueInOrder, ShutdownStages, SnapBefore,
         Known
<1>SnapBefore. SnapBefore'
  BY <1>guard, <1>same, <1>e2 DEF BInv, SnapBefore, CacheBefore, ShutdownStages, Known
<1>QueueSame. QueueSame'
  BY <1>guard, <1>same, <1>e1, <1>e5
     DEF BInv, QueueSame, Ops, Steady, NumberTypes, SnapBefore, Numbers, ShutdownStages
<1>CacheSame. CacheSame'
  BY <1>same, <1>e5 DEF BInv, CacheSame
<1>QueueHolds. QueueHolds'
  BY <1>guard, <1>lapses, <1>same
     DEF BInv, QueueHolds, Ops, Steady, ShutdownStages, Readable
<1>CacheMeta. CacheMeta'
  BY <1>guard, <1>same, <1>e2, <1>e5
     DEF BInv, CacheMeta, QueueHolds, Ops, DatedFile, Readable, FileType, Known, OpFacts
<1>CacheHolds. CacheHolds'
  BY <1>guard, <1>same DEF BInv, CacheHolds
<1>CacheStays. CacheStays'
  BY <1>guard, <1>same, <1>e1, <1>e2, <1>e5
     DEF BInv, CacheStays, Ops, Cached, CacheBefore, QueueStays, ShutdownStages
<1>QueueStays. QueueStays'
  BY <1>guard, <1>same DEF BInv, QueueStays, Ops, Steady, QueueBefore, ShutdownStages
<1>ModifiedQueued. ModifiedQueued'
  BY <1>e2 DEF BInv, ModifiedQueued
<1>ModifiedStored. ModifiedStored'
  BY <1>e2 DEF BInv, ModifiedStored
<1>CleanQueued. CleanQueued'
  BY <1>e5 DEF BInv, CleanQueued
<1>CleanDiscarded. CleanDiscarded'
  BY <1>e5 DEF BInv, CleanDiscarded
<1>StakeModified. StakeModified'
  BY <1>atStake DEF BInv, StakeModified
<1>SnapAsked. SnapAsked'
  BY <1>atStake DEF BInv, SnapAsked, AtStake
<1>SnapKept. SnapKept'
  BY <1>fields, <1>guard, <1>same, <1>e1
     DEF BInv, SnapKept, Cached, ShutdownStages, StakeModified, SnapAsked
<1>SnapStays. SnapStays'
  BY <1>atStake DEF BInv, SnapStays, AtStake
<1>StoreAsked. StoreAsked'
  BY <1>atStake DEF BInv, StoreAsked, AtStake
<1>StoreKept. StoreKept'
  BY <1>atStake DEF BInv, StoreKept, AtStake
<1>StoreStays. StoreStays'
  BY <1>atStake DEF BInv, StoreStays, AtStake
<1>DoneSecured. DoneSecured'
  BY <1>atStake DEF BInv, DoneSecured, AtStake, Readable, NumberTypes
<1>NotDiscarding. NotDiscarding'
  BY <1>guard, <1>same DEF BInv, NotDiscarding, FileType, ShutdownStages, StakeModified
<1>AcceptSecured. AcceptSecured'
  BY <1>window DEF BInv, AcceptSecured
<1>GoneSecured. GoneSecured'
  BY <1>window DEF BInv, GoneSecured
<1> QED
  BY <1>frame, <1>CopyType, <1>NumberTypes, <1>PendingType, <1>FlagType, <1>WindowType,
     <1>LapsesType, <1>KnownType, <1>FileCached, <1>NeverBoth, <1>ShutdownStages, <1>Owners,
     <1>Owned, <1>Numbers, <1>DatedFile, <1>DatedQueue, <1>QueueBefore, <1>CacheBefore,
     <1>QueueInOrder, <1>CacheInOrder, <1>SnapBefore, <1>QueueSame, <1>CacheSame,
     <1>QueueHolds, <1>CacheMeta, <1>CacheHolds, <1>CacheStays, <1>QueueStays,
     <1>ModifiedQueued, <1>ModifiedStored, <1>CleanQueued, <1>CleanDiscarded,
     <1>StakeModified, <1>SnapAsked, <1>SnapKept, <1>SnapStays, <1>StoreAsked, <1>StoreKept,
     <1>StoreStays, <1>DoneSecured, <1>NotDiscarding, <1>AcceptSecured, <1>GoneSecured
  DEF BInv

\* RestartBare keeps the invariant.
LEMMA RestartBareStep ==
  ASSUME BInv, RestartBareCase
  PROVE  BInv'
<1>fields.
      /\ copy.content \in Nat /\ copy.version \in Nat
      /\ copy.modified \in BOOLEAN /\ copy.registered \in BOOLEAN
      /\ Len(queue) \in Nat
      /\ OpFacts
  BY Fields DEF BInv
<1>empty. (queue # <<>> <=> Len(queue) > 0) /\ Ops = DOMAIN queue
  BY Fields DEF BInv
<1>guard.
      /\ window = "gone"
      /\ ~Readable(file)
  BY <1>empty DEF RestartBareCase, Restart
<1>window. window' = "open"
  BY DEF RestartBareCase, Restart
<1>suspended. suspended' = FALSE
  BY DEF RestartBareCase, Restart
<1>lapses. lapses' = {}
  BY DEF RestartBareCase, Restart
<1>atStake. atStake' = 0
  BY DEF RestartBareCase, Restart
<1>same. UNCHANGED <<saved, queue, file, closing, typed, events>>
  BY DEF RestartBareCase, Restart
<1>e1. known' = (IF file = None THEN None ELSE Known(0, 0)) /\ pending' = "none"
  BY DEF Restart, RestartBareCase
<1>e2. Readable(file) = FALSE
  BY DEF RestartBareCase, Readable
<1>e3. copy' = [registered |-> TRUE, modified |-> FALSE, version |-> 0, content |-> saved]
  BY <1>e2 DEF Restart, RestartBareCase
<1>e4.
      /\ copy' \in [registered : BOOLEAN, modified : BOOLEAN, content : Nat, version : Nat]
      /\ copy'.registered = TRUE /\ copy'.modified = FALSE
      /\ copy'.content = saved /\ copy'.version = 0
  BY <1>e3 DEF BInv, NumberTypes
<1>frame. QueueType' /\ HeadOnly' /\ FileType' /\ ClosingType' /\ NothingStarts'
  BY <1>same, BackupFrames
<1>CopyType. CopyType'
  BY <1>e4 DEF BInv, CopyType
<1>NumberTypes. NumberTypes'
  BY <1>atStake, <1>same DEF BInv, NumberTypes
<1>PendingType. PendingType'
  BY <1>e1 DEF BInv, PendingType
<1>FlagType. FlagType'
  BY <1>guard, <1>suspended, <1>same DEF BInv, FlagType, Readable
<1>WindowType. WindowType'
  BY <1>window DEF BInv, WindowType
<1>LapsesType. LapsesType'
  BY <1>lapses DEF BInv, LapsesType
<1>KnownType. KnownType'
  BY <1>e1 DEF BInv, KnownType, Known
<1>FileCached. FileCached'
  BY <1>same, <1>e1 DEF BInv, FileCached
<1>NeverBoth. NeverBoth'
  BY <1>guard, <1>same DEF BInv, NeverBoth, ShutdownStages
<1>ShutdownStages. ShutdownStages'
  BY <1>guard, <1>window, <1>suspended, <1>same DEF BInv, ShutdownStages
<1>Owners. Owners'
  BY <1>guard, <1>same DEF BInv, Owners, Ops, HeadOnly, NothingStarts, ShutdownStages
<1>Owned. Owned'
  BY <1>same, <1>e1 DEF BInv, Owned
<1>Numbers. Numbers'
  BY <1>atStake, <1>same, <1>e4 DEF BInv, Numbers, NumberTypes
<1>DatedFile. DatedFile'
  BY <1>guard, <1>same DEF BInv, DatedFile
<1>DatedQueue. DatedQueue'
  BY <1>same, <1>e4 DEF BInv, DatedQueue, Ops
<1>QueueBefore. QueueBefore'
  BY <1>guard, <1>same, <1>e4 DEF BInv, QueueBefore, Ops, ShutdownStages, SnapBefore
<1>CacheBefore. CacheBefore'
  BY <1>e1, <1>e4 DEF BInv, CacheBefore, None, Partial, QueueBefore, Ops, FileType, Known
<1>QueueInOrder. QueueInOrder'
  BY <1>guard, <1>same DEF BInv, QueueInOrder, Ops, Steady, QueueBefore, ShutdownStages
<1>CacheInOrder. CacheInOrder'
  BY <1>guard, <1>same DEF BInv, CacheInOrder, Ops, Steady, QueueInOrder, ShutdownStages
<1>SnapBefore. SnapBefore'
  BY <1>guard, <1>same, <1>e4 DEF BInv, SnapBefore, ShutdownStages, Known, Readable
<1>QueueSame. QueueSame'
  BY <1>guard, <1>same DEF BInv, QueueSame, Ops, Numbers, ShutdownStages, Readable
<1>CacheSame. CacheSame'
  BY <1>guard, <1>same DEF BInv, CacheSame
<1>QueueHolds. QueueHolds'
  BY <1>e4 DEF BInv, QueueHolds
<1>CacheMeta. CacheMeta'
  BY <1>e4 DEF BInv, CacheMeta
<1>CacheHolds. CacheHolds'
  BY <1>e4 DEF BInv, CacheHolds
<1>CacheStays. CacheStays'
  BY <1>e4 DEF BInv, CacheStays
<1>QueueStays. QueueStays'
  BY <1>e4 DEF BInv, QueueStays
<1>ModifiedQueued. ModifiedQueued'
  BY <1>e4 DEF BInv, ModifiedQueued
<1>ModifiedStored. ModifiedStored'
  BY <1>e4 DEF BInv, ModifiedStored
<1>CleanQueued. CleanQueued'
  BY <1>e1 DEF BInv, CleanQueued
<1>CleanDiscarded. CleanDiscarded'
  BY <1>fields, <1>guard, <1>lapses, <1>same
     DEF BInv, CleanDiscarded, ShutdownStages, Owners
<1>StakeModified. StakeModified'
  BY <1>atStake DEF BInv, StakeModified
<1>SnapAsked. SnapAsked'
  BY <1>atStake DEF BInv, SnapAsked, AtStake
<1>SnapKept. SnapKept'
  BY <1>atStake DEF BInv, SnapKept, AtStake
<1>SnapStays. SnapStays'
  BY <1>atStake DEF BInv, SnapStays, AtStake
<1>StoreAsked. StoreAsked'
  BY <1>atStake DEF BInv, StoreAsked, AtStake, NumberTypes
<1>StoreKept. StoreKept'
  BY <1>atStake DEF BInv, StoreKept, AtStake, Readable
<1>StoreStays. StoreStays'
  BY <1>atStake DEF BInv, StoreStays, AtStake, NumberTypes
<1>DoneSecured. DoneSecured'
  BY <1>atStake DEF BInv, DoneSecured, AtStake
<1>NotDiscarding. NotDiscarding'
  BY <1>atStake DEF BInv, NotDiscarding, AtStake
<1>AcceptSecured. AcceptSecured'
  BY <1>window DEF BInv, AcceptSecured
<1>GoneSecured. GoneSecured'
  BY <1>atStake DEF BInv, GoneSecured, AtStake
<1> QED
  BY <1>frame, <1>CopyType, <1>NumberTypes, <1>PendingType, <1>FlagType, <1>WindowType,
     <1>LapsesType, <1>KnownType, <1>FileCached, <1>NeverBoth, <1>ShutdownStages, <1>Owners,
     <1>Owned, <1>Numbers, <1>DatedFile, <1>DatedQueue, <1>QueueBefore, <1>CacheBefore,
     <1>QueueInOrder, <1>CacheInOrder, <1>SnapBefore, <1>QueueSame, <1>CacheSame,
     <1>QueueHolds, <1>CacheMeta, <1>CacheHolds, <1>CacheStays, <1>QueueStays,
     <1>ModifiedQueued, <1>ModifiedStored, <1>CleanQueued, <1>CleanDiscarded,
     <1>StakeModified, <1>SnapAsked, <1>SnapKept, <1>SnapStays, <1>StoreAsked, <1>StoreKept,
     <1>StoreStays, <1>DoneSecured, <1>NotDiscarding, <1>AcceptSecured, <1>GoneSecured
  DEF BInv

\* The invariant holds initially.
LEMMA BackupInitially ==
  ASSUME BackupInit
  PROVE  BInv
<1>1. /\ copy = [registered |-> TRUE, modified |-> FALSE, content |-> 0, version |-> 0]
      /\ saved = 0 /\ typed = 0 /\ events = 0 /\ atStake = 0
      /\ pending = "none" /\ suspended = FALSE /\ queue = <<>>
      /\ file = None /\ known = None /\ closing = [stage |-> "none"]
      /\ window = "open" /\ lapses = {}
  BY DEF BackupInit
<1>2. /\ copy.content = 0 /\ copy.version = 0 /\ ~copy.modified /\ copy.registered
      /\ closing.stage = "none"
      /\ known.kind = "none" /\ ~Readable(file)
  BY <1>1 DEF None, Readable
<1>3. Len(queue) = 0 /\ Ops = {} /\ queue \in Seq(Op)
  BY <1>1 DEF Ops
<1>4. CopyType /\ NumberTypes /\ QueueType /\ HeadOnly /\ PendingType /\ WindowType
  BY <1>1, <1>3 DEF CopyType, NumberTypes, QueueType, HeadOnly, PendingType, WindowType
<1>5. FlagType
  BY <1>1 DEF FlagType
<1>6. LapsesType /\ FileType /\ KnownType /\ ClosingType /\ FileCached
  BY <1>1, <1>2 DEF LapsesType, FileType, KnownType, ClosingType, FileCached
<1>7. NeverBoth /\ NothingStarts /\ Owners /\ Owned
  BY <1>1, <1>2, <1>3 DEF NeverBoth, NothingStarts, Owners, Owned
<1>8. ShutdownStages
  BY <1>1, <1>2, <1>3 DEF ShutdownStages
<1>9. Numbers /\ DatedFile /\ DatedQueue
  BY <1>1, <1>2, <1>3 DEF Numbers, DatedFile, DatedQueue
<1>10. QueueBefore /\ CacheBefore /\ QueueInOrder /\ CacheInOrder /\ SnapBefore
  BY <1>2, <1>3 DEF QueueBefore, CacheBefore, QueueInOrder, CacheInOrder, SnapBefore
<1>11. /\ QueueSame /\ CacheSame /\ QueueHolds /\ CacheMeta /\ CacheHolds
       /\ CacheStays /\ QueueStays
  BY <1>2, <1>3
  DEF QueueSame, CacheSame, QueueHolds, CacheMeta, CacheHolds, CacheStays, QueueStays,
      Cached
<1>12. ModifiedQueued /\ ModifiedStored /\ CleanQueued /\ CleanDiscarded
  BY <1>1, <1>2, <1>3 DEF ModifiedQueued, ModifiedStored, CleanQueued, CleanDiscarded
<1>13. /\ StakeModified /\ SnapAsked /\ SnapKept /\ SnapStays
       /\ StoreAsked /\ StoreKept /\ StoreStays
       /\ DoneSecured /\ NotDiscarding /\ AcceptSecured /\ GoneSecured
  BY <1>1
  DEF StakeModified, SnapAsked, SnapKept, SnapStays, StoreAsked, StoreKept, StoreStays,
    DoneSecured, NotDiscarding, AcceptSecured, GoneSecured, AtStake
<1> QED
  BY <1>4, <1>5, <1>6, <1>7, <1>8, <1>9, <1>10, <1>11, <1>12, <1>13 DEF BInv

\* The cases are all there are.
LEMMA StartOpSplits ==
  ASSUME StartOp
  PROVE  SkipCase \/ StartCase
  BY Zenon DEF SkipCase, StartCase

LEMMA FinishOpSplits ==
  ASSUME FinishOp
  PROVE  FinishWellCase \/ FinishBadlyCase
<1>1. \/ /\ file' = IF queue[1].kind = "backup"
                    THEN Stored(queue[1].content, queue[1].meta) ELSE None
         /\ known' = IF queue[1].kind = "backup"
                     THEN Known(queue[1].version, queue[1].meta) ELSE None
         /\ closing' = IF queue[1].owner = "closing" THEN [stage |-> "done"] ELSE closing
         /\ UNCHANGED <<events, lapses>>
      \/ /\ Bounded
         /\ lapses' = lapses \cup {IF window = "open" THEN "failed" ELSE "failedLate"}
         /\ closing' = IF queue[1].owner = "closing"
                       THEN [stage |-> IF queue[1].kind = "discard" THEN "done" ELSE "error"]
                       ELSE closing
         /\ UNCHANGED <<file, known>>
  BY DEF FinishOp, Settles
<1> QED
  BY <1>1, Zenon DEF FinishWellCase, FinishBadlyCase, IsBackup, IsDiscard, Owner, Content,
    Version, Meta

LEMMA CancelProgressSplits ==
  ASSUME CancelProgress
  PROVE  CancelBackupCase \/ CancelDiscardCase
  BY Zenon DEF CancelBackupCase, CancelDiscardCase

\* A stuttering step keeps the invariant.
LEMMA BackupStutters ==
  ASSUME BInv, UNCHANGED backupVars
  PROVE  BInv'
<1>1. UNCHANGED <<copy, saved, pending, suspended, queue, file, known, closing, window,
                  typed, events, lapses, atStake>>
  BY DEF backupVars
<1>2. UNCHANGED <<Ops, None, Partial>>
  BY <1>1 DEF Ops, None, Partial
<1>3. CopyType'
  BY <1>1, <1>2 DEF BInv, CopyType
<1>4. NumberTypes'
  BY <1>1, <1>2 DEF BInv, NumberTypes
<1>5. QueueType'
  BY <1>1, <1>2 DEF BInv, QueueType
<1>6. HeadOnly'
  BY <1>1, <1>2 DEF BInv, HeadOnly, Ops, Started
<1>7. PendingType'
  BY <1>1, <1>2 DEF BInv, PendingType
<1>8. FlagType'
  BY <1>1, <1>2 DEF BInv, FlagType
<1>9. WindowType'
  BY <1>1, <1>2 DEF BInv, WindowType
<1>10. LapsesType'
  BY <1>1, <1>2 DEF BInv, LapsesType
<1>11. FileType'
  BY <1>1, <1>2 DEF BInv, FileType
<1>12. KnownType'
  BY <1>1, <1>2 DEF BInv, KnownType
<1>13. ClosingType'
  BY <1>1, <1>2 DEF BInv, ClosingType
<1>14. FileCached'
  BY <1>1, <1>2 DEF BInv, FileCached
<1>15. NeverBoth'
  BY <1>1, <1>2 DEF BInv, NeverBoth, Readable, Has, IsBackup, Version, Meta, Started
<1>16. NothingStarts'
  BY <1>1, <1>2 DEF BInv, NothingStarts, Ops, IsNothing, Owner, Started
<1>17. ShutdownStages'
  BY <1>1, <1>2 DEF BInv, ShutdownStages
<1>18. Owners'
  BY <1>1, <1>2 DEF BInv, Owners, Ops, IsBackup, IsDiscard, Owner
<1>19. Owned'
  BY <1>1, <1>2 DEF BInv, Owned, IsBackup, Owner
<1>20. Numbers'
  BY <1>1, <1>2 DEF BInv, Numbers
<1>21. DatedFile'
  BY <1>1, <1>2 DEF BInv, DatedFile, Readable
<1>22. DatedQueue'
  BY <1>1, <1>2 DEF BInv, DatedQueue, Ops, IsBackup, Content, Meta
<1>23. QueueBefore'
  BY <1>1, <1>2 DEF BInv, QueueBefore, Ops, Steady, IsBackup, Version
<1>24. CacheBefore'
  BY <1>1, <1>2 DEF BInv, CacheBefore, Steady
<1>25. QueueInOrder'
  BY <1>1, <1>2 DEF BInv, QueueInOrder, Ops, Steady, IsBackup, Version
<1>26. CacheInOrder'
  BY <1>1, <1>2 DEF BInv, CacheInOrder, Ops, Steady, IsBackup, Version
<1>27. SnapBefore'
  BY <1>1, <1>2 DEF BInv, SnapBefore, Ops, Steady, IsBackup, Version
<1>28. QueueSame'
  BY <1>1, <1>2 DEF BInv, QueueSame, Ops, Steady, IsBackup, Content, Version
<1>29. CacheSame'
  BY <1>1, <1>2 DEF BInv, CacheSame, Cached, Steady, Readable
<1>30. QueueHolds'
  BY <1>1, <1>2 DEF BInv, QueueHolds, Ops, Steady, IsBackup, Version, Meta
<1>31. CacheMeta'
  BY <1>1, <1>2 DEF BInv, CacheMeta, Cached, Steady
<1>32. CacheHolds'
  BY <1>1, <1>2 DEF BInv, CacheHolds, Cached, Steady, Readable
<1>33. CacheStays'
  BY <1>1, <1>2 DEF BInv, CacheStays, Ops, Cached, Steady, IsDiscard
<1>34. QueueStays'
  BY <1>1, <1>2 DEF BInv, QueueStays, Ops, Steady, IsBackup, IsDiscard, Version
<1>35. ModifiedQueued'
  BY <1>1, <1>2 DEF BInv, ModifiedQueued, IsBackup, Version, Meta
<1>36. ModifiedStored'
  BY <1>1, <1>2 DEF BInv, ModifiedStored
<1>37. CleanQueued'
  BY <1>1, <1>2 DEF BInv, CleanQueued, IsDiscard
<1>38. CleanDiscarded'
  BY <1>1, <1>2 DEF BInv, CleanDiscarded, Readable
<1>39. StakeModified'
  BY <1>1, <1>2 DEF BInv, StakeModified
<1>40. SnapAsked'
  BY <1>1, <1>2 DEF BInv, SnapAsked, Ops, AtStake, IsBackup, Content, Version, Meta
<1>41. SnapKept'
  BY <1>1, <1>2 DEF BInv, SnapKept, Ops, Cached, AtStake, Readable, IsDiscard
<1>42. SnapStays'
  BY <1>1, <1>2 DEF BInv, SnapStays, Ops, AtStake, IsBackup, IsDiscard, Version
<1>43. StoreAsked'
  BY <1>1, <1>2 DEF BInv, StoreAsked, Ops, AtStake, IsBackup, Content, Version, Meta
<1>44. StoreKept'
  BY <1>1, <1>2 DEF BInv, StoreKept, Ops, Cached, AtStake, Readable, IsDiscard, Version
<1>45. StoreStays'
  BY <1>1, <1>2 DEF BInv, StoreStays, Ops, AtStake, IsBackup, IsDiscard, Version
<1>46. DoneSecured'
  BY <1>1, <1>2 DEF BInv, DoneSecured, AtStake, Readable
<1>47. NotDiscarding'
  BY <1>1, <1>2 DEF BInv, NotDiscarding, AtStake
<1>48. AcceptSecured'
  BY <1>1, <1>2
  DEF BInv, AcceptSecured, AtStake, Secured, Ops, Readable, IsBackup, IsDiscard, Content,
      Started
<1>49. GoneSecured'
  BY <1>1, <1>2 DEF BInv, GoneSecured, AtStake, Readable
<1> QED
  BY <1>3, <1>4, <1>5, <1>6, <1>7, <1>8, <1>9, <1>10, <1>11, <1>12, <1>13, <1>14, <1>15,
     <1>16, <1>17, <1>18, <1>19, <1>20, <1>21, <1>22, <1>23, <1>24, <1>25, <1>26, <1>27,
     <1>28, <1>29, <1>30, <1>31, <1>32, <1>33, <1>34, <1>35, <1>36, <1>37, <1>38, <1>39,
     <1>40, <1>41, <1>42, <1>43, <1>44, <1>45, <1>46, <1>47, <1>48, <1>49
  DEF BInv

\* Every step keeps the invariant.
LEMMA BackupStep ==
  ASSUME BInv, [BackupNext]_backupVars
  PROVE  BInv'
<1>1. CASE StartOp
  BY <1>1, StartOpSplits, SkipStep, StartStep
<1>2. CASE FinishOp
  BY <1>2, FinishOpSplits, FinishWellStep, FinishBadlyStep
<1>3. CASE TimerFires
  BY <1>3, TimerFiresStep
<1>4. CASE StoreBackup
  BY <1>4, StoreNotStep, StoreStep DEF StoreNotCase, StoreCase
<1>5. CASE EditCopy
  BY <1>5, EditCopyStep
<1>6. CASE SaveCopy
  BY <1>6, SaveCopyStep
<1>7. ASSUME NEW soft \in BOOLEAN, RevertCopy(soft) PROVE BInv'
  BY <1>7, RevertCopyStep
<1>8. CASE CloseCopy
  BY <1>8, CloseCopyStep
<1>9. CASE OpenCopy
  BY <1>9, OpenCopyStep
<1>10. CASE BeforeShutdown
  BY <1>10, ShutdownModifiedStep, ShutdownCleanStep
  DEF ShutdownModifiedCase, ShutdownCleanCase
<1>11. CASE AutoSaved
  BY <1>11, AutoSavedModifiedStep, AutoSavedAllStep
  DEF AutoSavedModifiedCase, AutoSavedAllCase
<1>12. CASE BackupExists
  BY <1>12, BackupThereStep, BackupNotThereStep DEF BackupThereCase, BackupNotThereCase
<1>13. CASE BackupAtShutdown
  BY <1>13, SnapshotKnownStep, SnapshotStoredStep DEF SnapshotKnownCase, SnapshotStoredCase
<1>14. CASE CancelProgress
  BY <1>14, CancelProgressSplits, CancelBackupStep, CancelDiscardStep
<1>15. CASE FolderDeleted
  BY <1>15, FolderDeletedStep
<1>16. CASE ShutdownDecided
  BY <1>16, ShutdownDecidedStep
<1>17. CASE Veto
  BY <1>17, VetoStep
<1>18. CASE ShutdownAnyway
  BY <1>18, ShutdownAnywayStep
<1>19. CASE ConfirmSave
  BY <1>19, ConfirmSaveStep
<1>20. CASE Saved
  BY <1>20, SavedStep
<1>21. CASE DontSave
  BY <1>21, DontSaveStep
<1>22. CASE WillShutdown
  BY <1>22, WillShutdownStep
<1>23. CASE WindowGoes
  BY <1>23, WindowGoesStep
<1>24. CASE Crash
  BY <1>24, CrashStep
<1>25. CASE Restart
  BY <1>25, RestartBackedStep, RestartBareStep DEF RestartBackedCase, RestartBareCase
<1>26. CASE UNCHANGED backupVars
  BY <1>26, BackupStutters
<1> QED
  BY <1>1, <1>2, <1>3, <1>4, <1>5, <1>6, <1>7, <1>8, <1>9, <1>10, <1>11, <1>12, <1>13,
    <1>14, <1>15, <1>16, <1>17, <1>18, <1>19, <1>20, <1>21, <1>22, <1>23, <1>24, <1>25,
    <1>26 DEF BackupNext

\* The inductive invariant of the tracker and of the backup service holds, for any number
\* of contents and events.
THEOREM BackupInvariant == BackupSpec => []BInv
<1>1. BackupInit => BInv
  BY BackupInitially
<1>2. BInv /\ [BackupNext]_backupVars => BInv'
  BY BackupStep
<1> QED
  BY <1>1, <1>2, PTL DEF BackupSpec

\* The variables have their types, and only the first operation of ioOperationQueues runs.
THEOREM BackupTypesCorrect == BackupSpec => []BackupTypeOK
<1>1. ASSUME BInv PROVE BackupTypeOK
  <2>1. /\ CopyType /\ NumberTypes /\ QueueType /\ HeadOnly /\ PendingType /\ FlagType
        /\ WindowType /\ LapsesType /\ FileType /\ KnownType /\ ClosingType
    BY <1>1 DEF BInv
  <2>2. \A i \in DOMAIN queue : queue[i].started => i = 1
    BY <2>1, Fields DEF HeadOnly, Started
  <2> QED
    BY <2>1, <2>2, Zenon
    DEF BackupTypeOK, CopyType, NumberTypes, QueueType, PendingType, FlagType,
      WindowType, LapsesType, FileType, KnownType, ClosingType
<1> QED
  BY <1>1, BackupInvariant, PTL

\* When the tracker has nothing left to do there is a readable backup of the content of a
\* modified copy, and none of one that is not modified:
\* WorkingCopyBackupTracker.scheduleBackup and discardBackup over
\* WorkingCopyBackupServiceImpl.
THEOREM BackupFollowsCorrect == BackupSpec => []BackupFollows
<1>1. ASSUME BInv PROVE BackupFollows
  <2> SUFFICES ASSUME window = "open", ~suspended, pending = "none", queue = <<>>,
                      lapses = {}
               PROVE  IF copy.modified
                      THEN Readable(file) /\ file.content = copy.content
                      ELSE ~Readable(file)
    BY DEF BackupFollows
  <2>1. /\ CopyType /\ QueueType
        /\ ModifiedStored /\ CacheHolds /\ CacheSame /\ CleanDiscarded
    BY <1>1 DEF BInv
  <2>2. copy.modified \in BOOLEAN /\ Steady
    BY <2>1, Fields DEF Steady
  <2>3. CASE copy.modified
    <3>1. known = Known(copy.version, saved)
      BY <2>1, <2>3 DEF ModifiedStored
    <3>2. Cached(copy.version) /\ known.meta = saved
      BY <3>1 DEF Cached, Known
    <3> QED
      BY <2>1, <2>2, <2>3, <3>2 DEF CacheHolds, CacheSame
  <2>4. CASE ~copy.modified
    BY <2>1, <2>4 DEF CleanDiscarded
  <2> QED
    BY <2>2, <2>3, <2>4
<1> QED
  BY <1>1, BackupInvariant, PTL

\* A shutdown that goes through loses nothing of what was modified when it began:
\* NativeWorkingCopyBackupTracker.onFinalBeforeShutdown.
THEOREM NothingLostCorrect == BackupSpec => []NothingLost
<1>1. ASSUME BInv PROVE NothingLost
  <2>1. NumberTypes /\ GoneSecured
    BY <1>1 DEF BInv
  <2> QED
    BY <2>1 DEF NumberTypes, GoneSecured, AtStake, NothingLost
<1> QED
  BY <1>1, BackupInvariant, PTL

(***************************************************************************)
(* RPCProtocol.                                                            *)
(***************************************************************************)
\* A message: a request, its acknowledgement, its cancellation.
IsAsk(m) == m.type = "request"
IsAck(m) == m.type = "ack"
IsCancel(m) == m.type = "cancel"
\* The number of a request, the call it was made for, whether that call has a token, and
\* whether the handler was told of the cancellation.
Req(m) == m.req
Of(m) == m.of
HasToken(m) == m.cancellable
Told(h) == h.cancelled

\* The messages two sides send each other.
Mail ==
  [type : {"request"}, req : Nat, of : RemoteCalls, cancellable : BOOLEAN]
    \cup [type : {"ack", "cancel"}, req : Nat]
    \cup [type : {"reply"}, req : Nat, how : {"ok", "error"}]
\* A handler that runs.
Handler == [req : Nat, of : RemoteCalls, cancellable : BOOLEAN, cancelled : BOOLEAN]

\* What each side keeps of its calls and of those it serves.
SideTypes ==
  /\ isDisposed \in [Side -> BOOLEAN]
  /\ lastMessageId \in [Side -> Nat]
  /\ pendingReplies \in [Side -> SUBSET (Nat \X RemoteCalls)]
  /\ invoked \in [Side -> SUBSET Handler]

\* What each side keeps to tell whether the other one responds.
WatchTypes ==
  /\ responsive \in [Side -> BOOLEAN]
  /\ unacknowledged \in [Side -> Nat]
  /\ late \in [Side -> BOOLEAN]
  /\ checking \in [Side -> BOOLEAN]
  /\ unwatched \subseteq Side

\* What is on its way to each side.
InboxType == inbox \in [Side -> Seq(Mail)]

\* What became of each call.
CallTypes ==
  /\ caller \in [RemoteCalls -> Side]
  /\ token \in [RemoteCalls -> {"none", "live", "cancelled"}]
  /\ outcome \in [RemoteCalls -> {"none", "waiting", "ok", "error", "canceled"}]

\* The places of the messages on their way to side t, and those messages.
Pos(t) == 1 .. Len(inbox[t])
Mails(t) == {inbox[t][i] : i \in Pos(t)}

\* Two requests, or two acknowledgements, with one number.
Alike(m, n) ==
  /\ Req(m) = Req(n)
  /\ (IsAsk(m) /\ IsAsk(n)) \/ (IsAck(m) /\ IsAck(n))

\* No request and no acknowledgement is under way twice.
SentOnce == \A t \in Side : \A i, j \in Pos(t) : Alike(inbox[t][i], inbox[t][j]) => i = j

\* The requests of side s for which it may still get an acknowledgement: the
\* acknowledgement is under way, or the request is.
Owed(s) ==
  {Req(m) : m \in {n \in Mails(s) : IsAck(n)} \cup {n \in Mails(OtherSide(s)) : IsAsk(n)}}

\* What is owed to a side was numbered by it.
IdsGiven == \A s \in Side : Owed(s) \subseteq 1 .. lastMessageId[s]

\* A request that is under way has not been acknowledged.
AckedAfter ==
  \A s \in Side : \A m \in Mails(s), n \in Mails(OtherSide(s)) :
    IsAck(m) /\ IsAsk(n) => Req(m) # Req(n)

\* A side waits for every acknowledgement it is owed.
OwedCounted == \A s \in Side : Cardinality(Owed(s)) <= unacknowledged[s]

\* What is in pendingReplies is a call of this side that waits, and no call is in it twice.
PendingWaits ==
  \A s \in Side : \A p \in pendingReplies[s] :
    /\ caller[p[2]] = s /\ outcome[p[2]] = "waiting"
    /\ \A o \in pendingReplies[s] : o[2] = p[2] => o = p

\* A call that waits is in the pendingReplies of its caller.
WaitingPends ==
  \A c \in RemoteCalls : outcome[c] = "waiting" => \E p \in pendingReplies[caller[c]] : p[2] = c

\* Message or handler m at side t is for a call of the other side: one that still waits has
\* the number of m, and if it has a token then m says so.
For(t, m) ==
  /\ caller[Of(m)] = OtherSide(t) /\ outcome[Of(m)] # "none"
  /\ outcome[Of(m)] = "waiting" => <<Req(m), Of(m)>> \in pendingReplies[OtherSide(t)]
  /\ token[Of(m)] # "none" => HasToken(m)

\* Every request under way is for a call.
AskedFor == \A t \in Side : \A m \in Mails(t) : IsAsk(m) => For(t, m)

\* Every handler that runs is for a call.
HandledFor == \A t \in Side : \A h \in invoked[t] : For(t, h)

\* The calls that wait although they were cancelled.
Cancelling == {c \in RemoteCalls : token[c] = "cancelled" /\ outcome[c] = "waiting"}

\* Behind the request of a call that was cancelled comes the cancellation.
FollowsAt(t) ==
  \A i \in Pos(t) : IsAsk(inbox[t][i]) /\ Of(inbox[t][i]) \in Cancelling =>
    \E j \in Pos(t) : j > i /\ IsCancel(inbox[t][j]) /\ Req(inbox[t][j]) = Req(inbox[t][i])

\* It does so on the way to both sides.
CancelFollows == \A t \in Side : FollowsAt(t)

\* The handler of a call that was cancelled knows it, or the cancellation is on its way.
HandlersHear ==
  \A t \in Side : ~isDisposed[t] => \A h \in invoked[t] : Of(h) \in Cancelling =>
    Told(h) \/ \E m \in Mails(t) : IsCancel(m) /\ Req(m) = Req(h)

\* The inductive invariant.  WatchIsRight alone is not inductive: that no acknowledgement
\* makes unacknowledged negative needs each one under way to be counted, and counted once.
RInv ==
  /\ SideTypes /\ WatchTypes /\ InboxType /\ CallTypes
  /\ SentOnce /\ IdsGiven /\ AckedAfter /\ OwedCounted /\ WatchIsRight
  /\ PendingWaits /\ WaitingPends /\ AskedFor /\ HandledFor
  /\ CancelFollows /\ HandlersHear

\* There are two sides.
LEMMA Sides ==
  ASSUME NEW s \in Side
  PROVE  /\ OtherSide(s) \in Side /\ OtherSide(s) # s /\ OtherSide(OtherSide(s)) = s
         /\ \A t \in Side : t = s \/ t = OtherSide(s)
  BY DEF Side, OtherSide

\* Requests, acknowledgements and cancellations differ.
LEMMA KindsOfMail ==
  ASSUME NEW m \in Mail
  PROVE  /\ Req(m) \in Nat
         /\ ~(IsAsk(m) /\ IsAck(m)) /\ ~(IsAsk(m) /\ IsCancel(m)) /\ ~(IsAck(m) /\ IsCancel(m))
         /\ IsAsk(m) => Of(m) \in RemoteCalls
  BY DEF Mail, IsAsk, IsAck, IsCancel, Req, Of

\* What is under way are messages.
LEMMA MailFacts ==
  ASSUME InboxType
  PROVE  \A t \in Side :
           /\ Len(inbox[t]) \in Nat
           /\ \A i \in Pos(t) : inbox[t][i] \in Mails(t)
           /\ \A m \in Mails(t) : m \in Mail
  BY DEF InboxType, Mails, Pos

\* What Append does to the messages of a queue, place by place.
LEMMA AppendedMail ==
  ASSUME NEW q \in Seq(Mail), NEW m \in Mail
  PROVE  /\ Append(q, m) \in Seq(Mail) /\ Len(q) \in Nat
         /\ Len(Append(q, m)) = Len(q) + 1
         /\ Append(q, m)[Len(q) + 1] = m
         /\ \A i \in 1 .. Len(q) : Append(q, m)[i] = q[i]
  OBVIOUS

\* What Tail does to the messages of a queue, place by place.
LEMMA TailOfMail ==
  ASSUME NEW q \in Seq(Mail), q # <<>>
  PROVE  /\ Tail(q) \in Seq(Mail) /\ Len(q) \in Nat /\ Len(q) > 0
         /\ Len(Tail(q)) = Len(q) - 1
         /\ \A i \in 1 .. Len(q) - 1 : Tail(q)[i] = q[i + 1]
         /\ Head(q) = q[1]
  OBVIOUS

\* Message m comes last into the inbox of side t.
Longer(t, m) ==
  /\ Len(inbox'[t]) = Len(inbox[t]) + 1
  /\ inbox'[t][Len(inbox[t]) + 1] = m
  /\ \A i \in 1 .. Len(inbox[t]) : inbox'[t][i] = inbox[t][i]

\* The first message is taken from the inbox of side t.
Shortened(t) ==
  /\ Len(inbox[t]) > 0
  /\ Len(inbox'[t]) = Len(inbox[t]) - 1
  /\ \A i \in 1 .. Len(inbox[t]) - 1 : inbox'[t][i] = inbox[t][i + 1]

\* Sending a message to one side.
LEMMA AppendsTo ==
  ASSUME InboxType, NEW o \in Side, NEW m \in Mail, inbox' = [inbox EXCEPT ![o] = Append(@, m)]
  PROVE  /\ InboxType' /\ Longer(o, m)
         /\ \A t \in Side : t # o => inbox'[t] = inbox[t]
<1>1. inbox[o] \in Seq(Mail) /\ inbox'[o] = Append(inbox[o], m)
  BY DEF InboxType
<1>2. DOMAIN inbox' = Side /\ \A t \in Side : t # o => inbox'[t] = inbox[t]
  BY DEF InboxType
<1>3. inbox'[o] \in Seq(Mail) /\ Longer(o, m)
  BY <1>1, AppendedMail DEF Longer
<1>4. InboxType'
  BY <1>2, <1>3 DEF InboxType
<1> QED
  BY <1>2, <1>3, <1>4

\* Taking a message at one side.
LEMMA TakesFrom ==
  ASSUME InboxType, NEW t \in Side, inbox[t] # <<>>, inbox' = Taken(t)
  PROVE  /\ InboxType' /\ Shortened(t)
         /\ \A u \in Side : u # t => inbox'[u] = inbox[u]
<1>1. inbox[t] \in Seq(Mail) /\ inbox'[t] = Tail(inbox[t])
  BY DEF InboxType, Taken
<1>2. DOMAIN inbox' = Side /\ \A u \in Side : u # t => inbox'[u] = inbox[u]
  BY DEF InboxType, Taken
<1>3. inbox'[t] \in Seq(Mail) /\ Shortened(t)
  BY <1>1, TailOfMail DEF Shortened
<1>4. \A u \in Side : inbox'[u] \in Seq(Mail)
  BY <1>2, <1>3 DEF InboxType
<1>5. InboxType'
  BY <1>2, <1>4 DEF InboxType, Taken
<1> QED
  BY <1>2, <1>3, <1>5

\* Taking a message at one side and sending one to the other.
LEMMA AnswersFrom ==
  ASSUME InboxType, NEW t \in Side, inbox[t] # <<>>, NEW m \in Mail,
         inbox' = [Taken(t) EXCEPT ![OtherSide(t)] = Append(@, m)]
  PROVE  InboxType' /\ Shortened(t) /\ Longer(OtherSide(t), m)
<1> DEFINE o == OtherSide(t)
<1>1. o \in Side /\ o # t /\ \A u \in Side : u = t \/ u = o
  BY Sides
<1> HIDE DEF o
<1>2. /\ inbox[t] \in Seq(Mail) /\ inbox[o] \in Seq(Mail) /\ DOMAIN inbox' = Side
      /\ inbox'[t] = Tail(inbox[t])
  BY <1>1 DEF InboxType, Taken, o
<1>3. inbox'[o] = Append(inbox[o], m)
  BY <1>1 DEF InboxType, Taken, o
<1>4. inbox'[t] \in Seq(Mail) /\ Shortened(t)
  BY <1>2, TailOfMail DEF Shortened
<1>5. inbox'[o] \in Seq(Mail) /\ Longer(o, m)
  <2>1. inbox[o] \in Seq(Mail)
    BY <1>2
  <2>2. /\ Append(inbox[o], m) \in Seq(Mail)
        /\ Len(Append(inbox[o], m)) = Len(inbox[o]) + 1
        /\ Append(inbox[o], m)[Len(inbox[o]) + 1] = m
        /\ \A i \in 1 .. Len(inbox[o]) : Append(inbox[o], m)[i] = inbox[o][i]
    BY <2>1, AppendedMail
  <2> QED
    BY <1>3, <2>2 DEF Longer
<1>6. InboxType'
  BY <1>1, <1>2, <1>4, <1>5 DEF InboxType
<1> QED
  BY <1>4, <1>5, <1>6 DEF o

\* Which messages are under way after one was sent.
LEMMA LongerFacts ==
  ASSUME InboxType, NEW t \in Side, NEW m \in Mail, Longer(t, m)
  PROVE  Mails(t)' = Mails(t) \cup {m}
  BY DEF InboxType, Longer, Mails, Pos

\* Which messages are under way after one was taken.
LEMMA ShortenedFacts ==
  ASSUME InboxType, NEW t \in Side, Shortened(t)
  PROVE  /\ Mails(t)' \subseteq Mails(t)
         /\ inbox[t][1] \in Mails(t)
         /\ \A m \in Mails(t) : m = inbox[t][1] \/ m \in Mails(t)'
<1>1. Len(inbox[t]) \in Nat
  BY MailFacts
<1>2. \A i \in Pos(t)' : i + 1 \in Pos(t) /\ inbox'[t][i] = inbox[t][i + 1]
  BY <1>1 DEF Shortened, Pos
<1>3. \A i \in Pos(t) : i # 1 => i - 1 \in Pos(t)' /\ inbox'[t][i - 1] = inbox[t][i]
  BY <1>1 DEF Shortened, Pos
<1>4. 1 \in Pos(t)
  BY <1>1 DEF Shortened, Pos
<1> QED
  BY <1>2, <1>3, <1>4 DEF Mails

\* Taking a message keeps SentOnce, and no message like it is left.
LEMMA OnceShortened ==
  ASSUME InboxType, SentOnce, NEW t \in Side, Shortened(t)
  PROVE  /\ \A i, j \in Pos(t)' : Alike(inbox'[t][i], inbox'[t][j]) => i = j
         /\ \A m \in Mails(t)' : ~Alike(m, inbox[t][1])
<1>1. Len(inbox[t]) \in Nat
  BY MailFacts
<1>2. \A i \in Pos(t)' : i \in Nat /\ i > 0 /\ i + 1 \in Pos(t) /\ inbox'[t][i] = inbox[t][i + 1]
  BY <1>1 DEF Shortened, Pos
<1>3. 1 \in Pos(t)
  BY <1>1 DEF Shortened, Pos
<1>4. ASSUME NEW i \in Pos(t)', NEW j \in Pos(t)', Alike(inbox'[t][i], inbox'[t][j])
      PROVE  i = j
  <2>1. i + 1 = j + 1
    BY <1>2, <1>4 DEF SentOnce
  <2> QED
    BY <1>2, <2>1
<1>5. ASSUME NEW i \in Pos(t)' PROVE ~Alike(inbox'[t][i], inbox[t][1])
  <2>1. Alike(inbox[t][i + 1], inbox[t][1]) => i + 1 = 1
    BY <1>2, <1>3 DEF SentOnce
  <2> QED
    BY <1>2, <2>1
<1> QED
  BY <1>4, <1>5 DEF Mails

\* Sending a message keeps SentOnce if none like it is under way.
LEMMA OnceLonger ==
  ASSUME InboxType, SentOnce, NEW t \in Side, NEW m \in Mail, Longer(t, m),
         \A n \in Mails(t) : ~Alike(n, m)
  PROVE  \A i, j \in Pos(t)' : Alike(inbox'[t][i], inbox'[t][j]) => i = j
<1>1. Len(inbox[t]) \in Nat
  BY MailFacts
<1>2. \A i \in Pos(t)' :
        \/ i \in Pos(t) /\ inbox'[t][i] = inbox[t][i]
        \/ i = Len(inbox[t]) + 1 /\ inbox'[t][i] = m
  BY <1>1 DEF Longer, Pos
<1>3. \A i \in Pos(t) : ~Alike(inbox[t][i], m) /\ ~Alike(m, inbox[t][i])
  <2>1. \A i \in Pos(t) : ~Alike(inbox[t][i], m)
    BY DEF Mails
  <2> QED
    BY <2>1 DEF Alike
<1> QED
  BY <1>2, <1>3 DEF SentOnce

\* Taking a message keeps CancelFollows, and if it is the request of a cancelled call, then
\* the cancellation is still under way.
LEMMA FollowsShortened ==
  ASSUME InboxType, NEW t \in Side, FollowsAt(t), Shortened(t),
         \A m \in Mails(t) : IsAsk(m) /\ Of(m) \in Cancelling' => Of(m) \in Cancelling
  PROVE  /\ FollowsAt(t)'
         /\ IsAsk(inbox[t][1]) /\ Of(inbox[t][1]) \in Cancelling' =>
              \E m \in Mails(t)' : IsCancel(m) /\ Req(m) = Req(inbox[t][1])
<1>1. Len(inbox[t]) \in Nat
  BY MailFacts
<1>2. \A i \in Pos(t)' : i \in Nat /\ i + 1 \in Pos(t) /\ inbox'[t][i] = inbox[t][i + 1]
  BY <1>1 DEF Shortened, Pos
<1>3. \A j \in Pos(t) : j > 1 => j \in Nat /\ j - 1 \in Pos(t)' /\ inbox'[t][j - 1] = inbox[t][j]
  BY <1>1 DEF Shortened, Pos
<1>4. 1 \in Pos(t)
  BY <1>1 DEF Shortened, Pos
<1>5. ASSUME NEW i \in Pos(t)', IsAsk(inbox'[t][i]), Of(inbox'[t][i]) \in Cancelling'
      PROVE  \E j \in Pos(t)' : /\ j > i /\ IsCancel(inbox'[t][j])
                                /\ Req(inbox'[t][j]) = Req(inbox'[t][i])
  <2>1. /\ i \in Nat /\ i + 1 \in Pos(t) /\ inbox[t][i + 1] = inbox'[t][i]
        /\ inbox[t][i + 1] \in Mails(t)
    BY <1>2 DEF Mails
  <2>2. PICK j \in Pos(t) : /\ j > i + 1 /\ IsCancel(inbox[t][j])
                            /\ Req(inbox[t][j]) = Req(inbox'[t][i])
    BY <1>5, <2>1 DEF FollowsAt
  <2>3. j \in Nat /\ j > 1
    BY <2>1, <2>2 DEF Pos
  <2>4. j - 1 \in Pos(t)' /\ inbox'[t][j - 1] = inbox[t][j] /\ j - 1 > i
    BY <1>3, <2>1, <2>2, <2>3
  <2> QED
    BY <2>2, <2>4
<1>6. ASSUME IsAsk(inbox[t][1]), Of(inbox[t][1]) \in Cancelling'
      PROVE  \E m \in Mails(t)' : IsCancel(m) /\ Req(m) = Req(inbox[t][1])
  <2>1. PICK j \in Pos(t) : /\ j > 1 /\ IsCancel(inbox[t][j])
                            /\ Req(inbox[t][j]) = Req(inbox[t][1])
    BY <1>4, <1>6 DEF FollowsAt, Mails
  <2> QED
    BY <1>3, <2>1 DEF Mails
<1> QED
  BY <1>5, <1>6 DEF FollowsAt

\* Sending a message keeps CancelFollows, if it is the cancellation whenever a call is
\* cancelled by this step.
LEMMA FollowsLonger ==
  ASSUME InboxType, NEW t \in Side, NEW m \in Mail, FollowsAt(t), Longer(t, m),
         \A n \in Mails(t) : IsAsk(n) /\ Of(n) \in Cancelling' =>
           Of(n) \in Cancelling \/ (IsCancel(m) /\ Req(m) = Req(n)),
         IsAsk(m) => Of(m) \notin Cancelling'
  PROVE  FollowsAt(t)'
<1>1. Len(inbox[t]) \in Nat
  BY MailFacts
<1>2. \A i \in Pos(t) : i \in Nat /\ i \in Pos(t)' /\ inbox'[t][i] = inbox[t][i]
  BY <1>1 DEF Longer, Pos
<1>3. \A i \in Pos(t)' : i \in Pos(t) \/ i = Len(inbox[t]) + 1
  BY <1>1 DEF Longer, Pos
<1>4. /\ Len(inbox[t]) + 1 \in Pos(t)' /\ inbox'[t][Len(inbox[t]) + 1] = m
      /\ \A i \in Pos(t) : Len(inbox[t]) + 1 > i
  BY <1>1 DEF Longer, Pos
<1>5. ASSUME NEW i \in Pos(t)', IsAsk(inbox'[t][i]), Of(inbox'[t][i]) \in Cancelling'
      PROVE  \E j \in Pos(t)' : /\ j > i /\ IsCancel(inbox'[t][j])
                                /\ Req(inbox'[t][j]) = Req(inbox'[t][i])
  <2>1. i \in Pos(t) /\ inbox'[t][i] = inbox[t][i] /\ inbox[t][i] \in Mails(t)
    BY <1>2, <1>3, <1>4, <1>5 DEF Mails
  <2>2. CASE IsCancel(m) /\ Req(m) = Req(inbox[t][i])
    BY <1>4, <2>1, <2>2
  <2>3. CASE Of(inbox[t][i]) \in Cancelling
    <3>1. PICK j \in Pos(t) : /\ j > i /\ IsCancel(inbox[t][j])
                              /\ Req(inbox[t][j]) = Req(inbox[t][i])
      BY <1>5, <2>1, <2>3 DEF FollowsAt
    <3> QED
      BY <1>2, <2>1, <3>1
  <2> QED
    BY <1>5, <2>1, <2>2, <2>3
<1> QED
  BY <1>5 DEF FollowsAt

\* An unchanged inbox keeps CancelFollows if no further call is cancelled.
LEMMA FollowsSame ==
  ASSUME NEW t \in Side, FollowsAt(t), inbox'[t] = inbox[t],
         \A m \in Mails(t) : IsAsk(m) /\ Of(m) \in Cancelling' => Of(m) \in Cancelling
  PROVE  FollowsAt(t)'
  BY DEF FollowsAt, Pos, Mails

\* A side is owed finitely many acknowledgements.
LEMMA OwedFinite ==
  ASSUME SideTypes, IdsGiven, NEW s \in Side
  PROVE  IsFiniteSet(Owed(s)) /\ Cardinality(Owed(s)) \in Nat
<1>1. lastMessageId[s] \in Nat
  BY DEF SideTypes
<1>2. IsFiniteSet(1 .. lastMessageId[s])
  BY <1>1, FS_Interval
<1>3. Owed(s) \subseteq 1 .. lastMessageId[s]
  BY DEF IdsGiven
<1> QED
  BY <1>2, <1>3, FS_Subset, FS_CardinalityType

\* A side that is owed no more than before counts enough.
LEMMA OwedLess ==
  ASSUME SideTypes, IdsGiven, OwedCounted, NEW s \in Side,
         unacknowledged[s] \in Nat, unacknowledged'[s] = unacknowledged[s],
         Owed(s)' \subseteq Owed(s)
  PROVE  Cardinality(Owed(s)') <= unacknowledged'[s]
<1>1. IsFiniteSet(Owed(s)) /\ Cardinality(Owed(s)) \in Nat
  BY OwedFinite
<1>2. Cardinality(Owed(s)') <= Cardinality(Owed(s)) /\ Cardinality(Owed(s)') \in Nat
  BY <1>1, FS_Subset, FS_CardinalityType
<1>3. Cardinality(Owed(s)) <= unacknowledged[s]
  BY DEF OwedCounted
<1> QED
  BY <1>1, <1>2, <1>3

\* An acknowledgement that is paid is counted down.
LEMMA OwedPaid ==
  ASSUME SideTypes, IdsGiven, OwedCounted, NEW s \in Side, NEW r \in Owed(s),
         unacknowledged[s] \in Nat, unacknowledged'[s] = unacknowledged[s] - 1,
         Owed(s)' \subseteq Owed(s) \ {r}
  PROVE  /\ unacknowledged[s] >= 1
         /\ Cardinality(Owed(s)') <= unacknowledged'[s]
<1>1. IsFiniteSet(Owed(s)) /\ Cardinality(Owed(s)) \in Nat
  BY OwedFinite
<1>2. IsFiniteSet(Owed(s) \ {r}) /\ Cardinality(Owed(s) \ {r}) = Cardinality(Owed(s)) - 1
  BY <1>1, FS_RemoveElement
<1>3. Cardinality(Owed(s)') <= Cardinality(Owed(s) \ {r}) /\ Cardinality(Owed(s)') \in Nat
  BY <1>2, FS_Subset, FS_CardinalityType
<1>4. Cardinality(Owed(s)) <= unacknowledged[s]
  BY DEF OwedCounted
<1> QED
  BY <1>1, <1>2, <1>3, <1>4

\* A request that is sent is counted up.
LEMMA OwedMore ==
  ASSUME SideTypes, IdsGiven, OwedCounted, NEW s \in Side, NEW r,
         unacknowledged[s] \in Nat, unacknowledged'[s] = unacknowledged[s] + 1,
         Owed(s)' \subseteq Owed(s) \cup {r}
  PROVE  Cardinality(Owed(s)') <= unacknowledged'[s]
<1>1. IsFiniteSet(Owed(s)) /\ Cardinality(Owed(s)) \in Nat
  BY OwedFinite
<1>2. /\ IsFiniteSet(Owed(s) \cup {r})
      /\ Cardinality(Owed(s) \cup {r}) <= Cardinality(Owed(s)) + 1
      /\ Cardinality(Owed(s) \cup {r}) \in Nat
  BY <1>1, FS_AddElement
<1>3. Cardinality(Owed(s)') <= Cardinality(Owed(s) \cup {r}) /\ Cardinality(Owed(s)') \in Nat
  BY <1>2, FS_Subset, FS_CardinalityType
<1>4. Cardinality(Owed(s)) <= unacknowledged[s]
  BY DEF OwedCounted
<1> QED
  BY <1>1, <1>2, <1>3, <1>4

\* What SetToSeq makes of at most one element.
LEMMA OneOrNone ==
  ASSUME NEW x
  PROVE  SetToSeq({x}) = <<x>> /\ SetToSeq({}) = <<>>
<1>1. Cardinality({x}) = 1 /\ Cardinality({}) = 0
  BY FS_Singleton, FS_EmptySet
<1>2. <<x>> \in [1 .. 1 -> {x}] /\ IsInjective(<<x>>)
  BY DEF IsInjective
<1>3. \A f \in [1 .. 1 -> {x}] : f = <<x>>
  OBVIOUS
<1>4. SetToSeq({x}) = <<x>>
  BY <1>1, <1>2, <1>3 DEF SetToSeq
<1>5. <<>> \in [1 .. 0 -> {}] /\ IsInjective(<<>>)
  BY DEF IsInjective
<1>6. \A f \in [1 .. 0 -> {}] : f = <<>>
  OBVIOUS
<1>7. SetToSeq({}) = <<>>
  BY <1>1, <1>5, <1>6 DEF SetToSeq
<1> QED
  BY <1>4, <1>7

\* The parts of the invariant about messages, for a step that takes a message.
LEMMA TakeStep ==
  ASSUME SideTypes, InboxType, SentOnce, IdsGiven, AckedAfter, AskedFor, CancelFollows,
         NEW t \in Side, Shortened(t),
         \A u \in Side : u # t => inbox'[u] = inbox[u],
         UNCHANGED lastMessageId,
         \A u \in Side, m \in Mail : IsAsk(m) /\ For(u, m) => For(u, m)',
         Cancelling' \subseteq Cancelling
  PROVE  /\ SentOnce' /\ IdsGiven' /\ AckedAfter' /\ AskedFor' /\ CancelFollows'
         /\ \A u \in Side : Mails(u)' \subseteq Mails(u)
         /\ \A u \in Side : Owed(u)' \subseteq Owed(u)
<1>1. \A u \in Side : u # t => Pos(u)' = Pos(u) /\ Mails(u)' = Mails(u)
  BY DEF Pos, Mails
<1>2. \A u \in Side : Mails(u)' \subseteq Mails(u)
  BY <1>1, ShortenedFacts
<1>3. SentOnce'
  BY <1>1, OnceShortened DEF SentOnce
<1>4. \A u \in Side : Owed(u)' \subseteq Owed(u)
  BY <1>2, Sides DEF Owed
<1>5. IdsGiven'
  BY <1>4 DEF IdsGiven
<1>6. AckedAfter'
  BY <1>2, Sides DEF AckedAfter
<1>7. AskedFor'
  BY <1>2, MailFacts DEF AskedFor
<1>8. ASSUME NEW u \in Side PROVE FollowsAt(u)'
  <2>1. CASE u = t
    BY <2>1, FollowsShortened DEF CancelFollows
  <2>2. CASE u # t
    BY <2>2, FollowsSame DEF CancelFollows
  <2> QED
    BY <2>1, <2>2
<1>9. CancelFollows'
  BY <1>8 DEF CancelFollows
<1> QED
  BY <1>2, <1>3, <1>4, <1>5, <1>6, <1>7, <1>9

\* The same for a step that sends a message which is no request and no acknowledgement.
LEMMA SendStep ==
  ASSUME SideTypes, InboxType, SentOnce, IdsGiven, AckedAfter, AskedFor, CancelFollows,
         NEW t \in Side, NEW m \in Mail, ~IsAsk(m), ~IsAck(m), Longer(t, m),
         \A u \in Side : u # t => inbox'[u] = inbox[u],
         UNCHANGED lastMessageId,
         \A u \in Side, n \in Mail : IsAsk(n) /\ For(u, n) => For(u, n)',
         \A u \in Side : \A n \in Mails(u) : IsAsk(n) /\ Of(n) \in Cancelling' =>
           Of(n) \in Cancelling \/ (u = t /\ IsCancel(m) /\ Req(m) = Req(n))
  PROVE  /\ SentOnce' /\ IdsGiven' /\ AckedAfter' /\ AskedFor' /\ CancelFollows'
         /\ \A u \in Side : Mails(u) \subseteq Mails(u)'
         /\ \A u \in Side : Owed(u)' \subseteq Owed(u)
<1>1. \A u \in Side : u # t => Pos(u)' = Pos(u) /\ Mails(u)' = Mails(u)
  BY DEF Pos, Mails
<1>2. Mails(t)' = Mails(t) \cup {m}
  BY LongerFacts
<1>3. \A n \in Mails(t) : ~Alike(n, m)
  BY DEF Alike
<1>4. SentOnce'
  BY <1>1, <1>3, OnceLonger DEF SentOnce
<1>5. /\ \A u \in Side : Mails(u) \subseteq Mails(u)'
      /\ \A u \in Side : \A n \in Mails(u)' : IsAsk(n) \/ IsAck(n) => n \in Mails(u)
  BY <1>1, <1>2
<1>6. \A u \in Side : Owed(u)' \subseteq Owed(u)
  BY <1>5, Sides DEF Owed
<1>7. IdsGiven'
  BY <1>6 DEF IdsGiven
<1>8. AckedAfter'
  BY <1>5, Sides DEF AckedAfter
<1>9. AskedFor'
  BY <1>5, MailFacts DEF AskedFor
<1>10. ASSUME NEW u \in Side PROVE FollowsAt(u)'
  <2>1. CASE u = t
    BY <2>1, FollowsLonger DEF CancelFollows
  <2>2. CASE u # t
    BY <2>2, FollowsSame DEF CancelFollows
  <2> QED
    BY <2>1, <2>2
<1>11. CancelFollows'
  BY <1>10 DEF CancelFollows
<1> QED
  BY <1>4, <1>5, <1>6, <1>7, <1>8, <1>9, <1>11

\* The same for a step that does neither.
LEMMA KeepStep ==
  ASSUME InboxType, SentOnce, IdsGiven, AckedAfter, AskedFor, CancelFollows,
         UNCHANGED <<inbox, lastMessageId>>,
         \A u \in Side, n \in Mail : IsAsk(n) /\ For(u, n) => For(u, n)',
         \A u \in Side : \A n \in Mails(u) : IsAsk(n) /\ Of(n) \in Cancelling' => Of(n) \in Cancelling
  PROVE  /\ InboxType' /\ SentOnce' /\ IdsGiven' /\ AckedAfter' /\ AskedFor' /\ CancelFollows'
         /\ \A u \in Side : Mails(u)' = Mails(u) /\ Owed(u)' = Owed(u)
<1>1. \A u \in Side : Pos(u)' = Pos(u) /\ Mails(u)' = Mails(u) /\ Owed(u)' = Owed(u)
  BY DEF Pos, Mails, Owed
<1>2. InboxType' /\ SentOnce' /\ IdsGiven' /\ AckedAfter'
  <2>1. InboxType'
    BY DEF InboxType
  <2>2. SentOnce'
    BY <1>1 DEF SentOnce
  <2>3. IdsGiven'
    BY <1>1 DEF IdsGiven
  <2>4. AckedAfter'
    BY <1>1, Sides DEF AckedAfter
  <2> QED
    BY <2>1, <2>2, <2>3, <2>4
<1>3. AskedFor'
  BY <1>1, MailFacts DEF AskedFor
<1>4. CancelFollows'
  BY FollowsSame DEF CancelFollows
<1> QED
  BY <1>1, <1>2, <1>3, <1>4

\* A step that changes neither what is owed nor the count keeps OwedCounted.
LEMMA CountKept ==
  ASSUME SideTypes, WatchTypes, IdsGiven, OwedCounted,
         UNCHANGED unacknowledged, \A u \in Side : Owed(u)' \subseteq Owed(u)
  PROVE  OwedCounted'
  BY OwedLess DEF OwedCounted, WatchTypes

\* Adding no message, or one.
LEMMA EmptyListKeeps ==
  ASSUME NEW q \in Seq(Mail)
  PROVE  q \o <<>> = q
  OBVIOUS

\* Adding a list of one message is appending it.
LEMMA OneMoreInList ==
  ASSUME NEW q \in Seq(Mail), NEW m \in Mail
  PROVE  q \o <<m>> = Append(q, m)
  OBVIOUS

\* RemoteCall keeps the invariant.
LEMMA RemoteCallStep ==
  ASSUME RInv, NEW c \in RemoteCalls, RemoteCall(c)
  PROVE  RInv'
<1>0. /\ SideTypes /\ WatchTypes /\ InboxType /\ CallTypes
      /\ SentOnce /\ IdsGiven /\ AckedAfter /\ OwedCounted /\ WatchIsRight
      /\ PendingWaits /\ WaitingPends /\ AskedFor /\ HandledFor
      /\ CancelFollows /\ HandlersHear
  BY DEF RInv
<1> PICK s \in Side : s = caller[c]
  BY <1>0 DEF CallTypes
<1> PICK o \in Side : o = OtherSide(s)
  BY Sides
<1> PICK req \in Nat : req = lastMessageId[s] + 1
  BY <1>0 DEF SideTypes
<1> PICK m : m = RequestOf(req, c)
  OBVIOUS
<1>1. /\ s \in Side /\ o \in Side /\ o # s /\ OtherSide(o) = s
      /\ \A u \in Side : u = s \/ u = o
      /\ req \in Nat /\ lastMessageId[s] \in Nat /\ req > lastMessageId[s]
  BY <1>0, Sides DEF CallTypes, SideTypes
<1>2. /\ outcome[c] = "none" /\ ~isDisposed[s] /\ token[c] # "cancelled"
      /\ outcome' = [outcome EXCEPT ![c] = "waiting"]
      /\ lastMessageId' = [lastMessageId EXCEPT ![s] = req]
      /\ pendingReplies' = [pendingReplies EXCEPT ![s] = @ \cup {<<req, c>>}]
      /\ inbox' = [inbox EXCEPT ![o] = Append(@, m)]
      /\ UNCHANGED <<isDisposed, invoked, caller, token>>
  BY DEF RemoteCall
<1>3. /\ late' = [late EXCEPT ![s] = @ /\ unacknowledged[s] # 0]
      /\ unacknowledged' = [unacknowledged EXCEPT ![s] = @ + 1]
      /\ checking' = [checking EXCEPT ![s] = TRUE]
      /\ unwatched' = unwatched \ {s}
      /\ UNCHANGED responsive
  BY DEF RemoteCall, WillSendRequest
<1>4. m \in Mail /\ IsAsk(m) /\ ~IsAck(m) /\ ~IsCancel(m) /\ Req(m) = req /\ Of(m) = c
      /\ (token[c] # "none" => HasToken(m))
  BY <1>1 DEF RequestOf, Mail, IsAsk, IsAck, IsCancel, Req, Of, HasToken
<1>5. /\ outcome'[c] = "waiting" /\ \A d \in RemoteCalls : d # c => outcome'[d] = outcome[d]
      /\ lastMessageId'[s] = req /\ lastMessageId'[o] = lastMessageId[o]
      /\ pendingReplies'[s] = pendingReplies[s] \cup {<<req, c>>}
      /\ pendingReplies'[o] = pendingReplies[o]
      /\ unacknowledged[s] \in Nat /\ unacknowledged'[s] = unacknowledged[s] + 1
      /\ unacknowledged[o] \in Nat /\ unacknowledged'[o] = unacknowledged[o]
  BY <1>0, <1>1, <1>2, <1>3 DEF CallTypes, SideTypes, WatchTypes
<1>6. /\ InboxType' /\ Longer(o, m) /\ inbox'[s] = inbox[s]
      /\ Mails(o)' = Mails(o) \cup {m} /\ Mails(s)' = Mails(s) /\ Pos(s)' = Pos(s)
  <2>1. InboxType' /\ Longer(o, m) /\ inbox'[s] = inbox[s]
    BY <1>0, <1>1, <1>2, <1>4, AppendsTo
  <2>2. Mails(o)' = Mails(o) \cup {m}
    BY <1>0, <1>4, <2>1, LongerFacts
  <2>3. Mails(s)' = Mails(s) /\ Pos(s)' = Pos(s)
    BY <2>1 DEF Mails, Pos
  <2> QED
    BY <2>1, <2>2, <2>3
<1>SideTypes. SideTypes'
  BY <1>0, <1>1, <1>2 DEF SideTypes
<1>WatchTypes. WatchTypes'
  BY <1>0, <1>1, <1>3 DEF WatchTypes
<1>CallTypes. CallTypes'
  BY <1>0, <1>2 DEF CallTypes
<1>7. /\ Owed(s)' \subseteq Owed(s) \cup {req}
      /\ Owed(o)' \subseteq Owed(o)
      /\ \A n \in Mails(o) : IsAsk(n) => Req(n) # req
      /\ \A n \in Mails(s) : IsAck(n) => Req(n) # req
  <2>1. Owed(s)' \subseteq Owed(s) \cup {req}
    BY <1>1, <1>4, <1>6 DEF Owed
  <2>2. Owed(o)' \subseteq Owed(o)
    BY <1>1, <1>4, <1>6 DEF Owed
  <2>3. req \notin Owed(s)
    BY <1>0, <1>1 DEF IdsGiven
  <2> QED
    BY <2>1, <2>2, <2>3 DEF Owed
<1>SentOnce. SentOnce'
  <2>1. \A n \in Mails(o) : ~Alike(n, m)
    BY <1>4, <1>7 DEF Alike
  <2> QED
    BY <1>0, <1>1, <1>4, <1>6, <2>1, OnceLonger DEF SentOnce
<1>IdsGiven. IdsGiven'
  BY <1>0, <1>1, <1>5, <1>7 DEF IdsGiven, SideTypes
<1>AckedAfter. AckedAfter'
  BY <1>0, <1>1, <1>4, <1>6, <1>7 DEF AckedAfter
<1>OwedCounted. OwedCounted'
  <2>1. Cardinality(Owed(s)') <= unacknowledged'[s]
    BY <1>0, <1>1, <1>5, <1>7, OwedMore
  <2>2. Cardinality(Owed(o)') <= unacknowledged'[o]
    BY <1>0, <1>1, <1>5, <1>7, OwedLess
  <2> QED
    BY <1>1, <2>1, <2>2 DEF OwedCounted
<1>WatchIsRight. WatchIsRight'
  BY <1>0, <1>1, <1>2, <1>3, <1>5 DEF WatchIsRight, WatchTypes
<1>PendingWaits. PendingWaits'
  <2>1. \A u \in Side : \A p \in pendingReplies[u] : p[2] # c
    BY <1>0, <1>2 DEF PendingWaits
  <2>2. \A u \in Side : \A p \in pendingReplies'[u] :
          \/ p \in pendingReplies[u] /\ p[2] \in RemoteCalls
          \/ u = s /\ p = <<req, c>>
    BY <1>0, <1>1, <1>5 DEF SideTypes
  <2> QED
    BY <1>0, <1>2, <1>5, <2>1, <2>2 DEF PendingWaits
<1>WaitingPends. WaitingPends'
  <2>1. <<req, c>> \in pendingReplies'[caller'[c]]
    BY <1>1, <1>2, <1>5
  <2>2. \A u \in Side : pendingReplies[u] \subseteq pendingReplies'[u]
    BY <1>1, <1>5
  <2>3. \A d \in RemoteCalls : caller[d] \in Side
    BY <1>0 DEF CallTypes
  <2> QED
    BY <1>0, <1>2, <1>5, <2>1, <2>2, <2>3 DEF WaitingPends
<1>8. \A u \in Side : \A n : For(u, n) /\ Of(n) \in RemoteCalls => For(u, n)'
  <2>1. \A u \in Side : OtherSide(u) \in Side
                  /\ pendingReplies[OtherSide(u)] \subseteq pendingReplies'[OtherSide(u)]
    BY <1>1, <1>5, Sides
  <2> QED
    BY <1>2, <1>5, <2>1 DEF For
<1>AskedFor. AskedFor'
  <2>1. For(o, m)'
    BY <1>1, <1>2, <1>4, <1>5 DEF For
  <2>2. \A u \in Side : \A n \in Mails(u) : IsAsk(n) => For(u, n)'
    BY <1>0, <1>8, MailFacts, KindsOfMail DEF AskedFor
  <2> QED
    BY <1>1, <1>6, <2>1, <2>2 DEF AskedFor
<1>HandledFor. HandledFor'
  <2>1. \A u \in Side : \A h \in invoked[u] : Of(h) \in RemoteCalls
    BY <1>0 DEF SideTypes, Handler, Of
  <2> QED
    BY <1>0, <1>2, <1>8, <2>1 DEF HandledFor
<1>9. Cancelling' = Cancelling
  BY <1>2, <1>5 DEF Cancelling
<1>CancelFollows. CancelFollows'
  <2>1. c \notin Cancelling'
    BY <1>2 DEF Cancelling
  <2>2. FollowsAt(s)'
    BY <1>0, <1>1, <1>6, <1>9, FollowsSame DEF CancelFollows
  <2>3. FollowsAt(o)'
    BY <1>0, <1>1, <1>4, <1>6, <1>9, <2>1, FollowsLonger DEF CancelFollows
  <2> QED
    BY <1>1, <2>2, <2>3 DEF CancelFollows
<1>HandlersHear. HandlersHear'
  <2>1. \A u \in Side : Mails(u) \subseteq Mails(u)'
    BY <1>1, <1>6
  <2> QED
    BY <1>0, <1>2, <1>9, <2>1 DEF HandlersHear
<1> QED
  BY <1>6, <1>SideTypes, <1>WatchTypes, <1>CallTypes, <1>SentOnce, <1>IdsGiven, <1>AckedAfter,
    <1>OwedCounted, <1>WatchIsRight, <1>PendingWaits, <1>WaitingPends, <1>AskedFor,
    <1>HandledFor, <1>CancelFollows, <1>HandlersHear DEF RInv

\* RemoteCallOfNothing keeps the invariant.
LEMMA RemoteCallOfNothingStep ==
  ASSUME RInv, NEW c \in RemoteCalls, RemoteCallOfNothing(c)
  PROVE  RInv'
<1>0. /\ SideTypes /\ WatchTypes /\ InboxType /\ CallTypes
      /\ SentOnce /\ IdsGiven /\ AckedAfter /\ OwedCounted /\ WatchIsRight
      /\ PendingWaits /\ WaitingPends /\ AskedFor /\ HandledFor
      /\ CancelFollows /\ HandlersHear
  BY DEF RInv
<1>2. /\ outcome[c] = "none"
      /\ outcome' = [outcome EXCEPT ![c] = "canceled"]
      /\ UNCHANGED <<isDisposed, lastMessageId, pendingReplies, invoked, inbox, caller, token>>
      /\ UNCHANGED <<responsive, unacknowledged, late, checking, unwatched>>
  BY DEF RemoteCallOfNothing, watchVars
<1>3. outcome'[c] = "canceled" /\ \A d \in RemoteCalls : d # c => outcome'[d] = outcome[d]
  BY <1>0, <1>2 DEF CallTypes
<1>SideTypes. SideTypes'
  BY <1>0, <1>2 DEF SideTypes
<1>WatchTypes. WatchTypes'
  BY <1>0, <1>2 DEF WatchTypes
<1>WatchIsRight. WatchIsRight'
  BY <1>0, <1>2 DEF WatchIsRight
<1>CallTypes. CallTypes'
  BY <1>0, <1>2 DEF CallTypes
<1>PendingWaits. PendingWaits'
  <2>1. \A u \in Side : \A p \in pendingReplies[u] : p[2] # c /\ p[2] \in RemoteCalls
    BY <1>0, <1>2 DEF PendingWaits, SideTypes
  <2> QED
    BY <1>0, <1>2, <1>3, <2>1 DEF PendingWaits
<1>WaitingPends. WaitingPends'
  BY <1>0, <1>2, <1>3 DEF WaitingPends
<1>4. \A u \in Side : \A n : For(u, n) /\ Of(n) \in RemoteCalls => For(u, n)'
  BY <1>2, <1>3 DEF For
<1>5. Cancelling' = Cancelling
  BY <1>2, <1>3 DEF Cancelling
<1>6. /\ InboxType' /\ SentOnce' /\ IdsGiven' /\ AckedAfter' /\ AskedFor' /\ CancelFollows'
      /\ \A u \in Side : Mails(u)' = Mails(u) /\ Owed(u)' = Owed(u)
  BY <1>0, <1>2, <1>4, <1>5, KindsOfMail, KeepStep
<1>OwedCounted. OwedCounted'
  BY <1>0, <1>2, <1>6, CountKept
<1>HandledFor. HandledFor'
  <2>1. \A u \in Side : \A h \in invoked[u] : Of(h) \in RemoteCalls
    BY <1>0 DEF SideTypes, Handler, Of
  <2> QED
    BY <1>0, <1>2, <1>4, <2>1 DEF HandledFor
<1>HandlersHear. HandlersHear'
  BY <1>0, <1>2, <1>5, <1>6 DEF HandlersHear
<1> QED
  BY <1>6, <1>SideTypes, <1>WatchTypes, <1>CallTypes, <1>OwedCounted, <1>WatchIsRight,
    <1>PendingWaits, <1>WaitingPends, <1>HandledFor, <1>HandlersHear DEF RInv

\* CancelToken keeps the invariant.
LEMMA CancelTokenStep ==
  ASSUME RInv, NEW c \in RemoteCalls, CancelToken(c)
  PROVE  RInv'
<1>0. /\ SideTypes /\ WatchTypes /\ InboxType /\ CallTypes
      /\ SentOnce /\ IdsGiven /\ AckedAfter /\ OwedCounted /\ WatchIsRight
      /\ PendingWaits /\ WaitingPends /\ AskedFor /\ HandledFor
      /\ CancelFollows /\ HandlersHear
  BY DEF RInv
<1> PICK s \in Side : s = caller[c]
  BY <1>0 DEF CallTypes
<1> PICK o \in Side : o = OtherSide(s)
  BY Sides
<1> PICK told : told = {p \in pendingReplies[s] : p[2] = c}
  OBVIOUS
<1> PICK list : list = SetToSeq({CancelRequest(p[1]) : p \in told})
  OBVIOUS
<1>1. o # s /\ OtherSide(o) = s /\ \A u \in Side : u = s \/ u = o
  BY Sides
<1>2. /\ token[c] = "live" /\ token' = [token EXCEPT ![c] = "cancelled"]
      /\ UNCHANGED <<isDisposed, lastMessageId, pendingReplies, invoked, caller, outcome>>
      /\ UNCHANGED <<responsive, unacknowledged, late, checking, unwatched>>
  BY DEF CancelToken, watchVars
<1>3. inbox' = [inbox EXCEPT ![o] = @ \o list]
  BY DEF CancelToken
<1>4. token'[c] = "cancelled" /\ \A d \in RemoteCalls : d # c => token'[d] = token[d]
  BY <1>0, <1>2 DEF CallTypes
<1>SideTypes. SideTypes'
  BY <1>0, <1>2 DEF SideTypes
<1>WatchTypes. WatchTypes'
  BY <1>0, <1>2 DEF WatchTypes
<1>WatchIsRight. WatchIsRight'
  BY <1>0, <1>2 DEF WatchIsRight
<1>CallTypes. CallTypes'
  BY <1>0, <1>2 DEF CallTypes
<1>PendingWaits. PendingWaits'
  BY <1>0, <1>2 DEF PendingWaits
<1>WaitingPends. WaitingPends'
  BY <1>0, <1>2 DEF WaitingPends
<1>5. \A u \in Side : \A n : For(u, n) /\ Of(n) \in RemoteCalls => For(u, n)'
  BY <1>2, <1>4 DEF For
<1>6. Cancelling' \subseteq Cancelling \cup {c} /\ (outcome[c] # "waiting" => c \notin Cancelling')
  BY <1>2, <1>4 DEF Cancelling
<1>HandledFor. HandledFor'
  <2>1. \A u \in Side : \A h \in invoked[u] : Of(h) \in RemoteCalls
    BY <1>0 DEF SideTypes, Handler, Of
  <2> QED
    BY <1>0, <1>2, <1>5, <2>1 DEF HandledFor
<1>7. inbox[o] \in Seq(Mail)
  BY <1>0 DEF InboxType
<1>8. CASE told = {}
  <2>1. list = <<>>
    <3>1. {CancelRequest(p[1]) : p \in told} = {}
      BY <1>8
    <3> QED
      BY <3>1, OneOrNone
  <2>2. inbox[o] \o list = inbox[o]
    BY <1>7, <2>1, EmptyListKeeps
  <2>3. inbox' = inbox
    BY <1>0, <1>3, <2>2 DEF InboxType
  <2>4. outcome[c] # "waiting"
    BY <1>0, <1>8 DEF WaitingPends
  <2>5. Cancelling' \subseteq Cancelling
    BY <1>6, <2>4
  <2>6. /\ InboxType' /\ SentOnce' /\ IdsGiven' /\ AckedAfter' /\ AskedFor' /\ CancelFollows'
        /\ \A u \in Side : Mails(u)' = Mails(u) /\ Owed(u)' = Owed(u)
    BY <1>0, <1>2, <1>5, <2>3, <2>5, KindsOfMail, KeepStep
  <2>7. OwedCounted'
    BY <1>0, <1>2, <2>6, CountKept
  <2>8. HandlersHear'
    BY <1>0, <1>2, <2>5, <2>6 DEF HandlersHear
  <2> QED
    BY <2>6, <2>7, <2>8, <1>SideTypes, <1>WatchTypes, <1>CallTypes, <1>WatchIsRight,
      <1>PendingWaits, <1>WaitingPends, <1>HandledFor DEF RInv
<1>9. CASE told # {}
  <2>1. PICK p \in pendingReplies[s] : p[2] = c
    BY <1>9
  <2>2. told = {p}
    BY <1>0, <2>1 DEF PendingWaits
  <2> PICK m : m = CancelRequest(p[1])
    OBVIOUS
  <2>3. list = <<m>>
    <3>1. {CancelRequest(q[1]) : q \in told} = {m}
      BY <2>2
    <3> QED
      BY <3>1, OneOrNone
  <2>4. m \in Mail /\ ~IsAsk(m) /\ ~IsAck(m) /\ IsCancel(m) /\ Req(m) = p[1]
    <3>1. p[1] \in Nat
      BY <1>0, <2>1 DEF SideTypes
    <3> QED
      BY <3>1 DEF CancelRequest, Mail, IsAsk, IsAck, IsCancel, Req
  <2>5. inbox[o] \o list = Append(inbox[o], m)
    BY <1>7, <2>3, <2>4, OneMoreInList
  <2>6. InboxType' /\ Longer(o, m) /\ \A u \in Side : u # o => inbox'[u] = inbox[u]
    <3>1. inbox' = [inbox EXCEPT ![o] = Append(@, m)]
      BY <1>3, <2>5
    <3> QED
      BY <1>0, <2>4, <3>1, AppendsTo
  <2>7. Mails(o)' = Mails(o) \cup {m}
    BY <1>0, <2>4, <2>6, LongerFacts
  <2>8. \A u \in Side : \A n : For(u, n) /\ Of(n) = c /\ outcome[c] = "waiting" =>
          u = o /\ <<Req(n), c>> \in pendingReplies[s]
    BY <1>1, Sides DEF For
  <2>9. \A u \in Side : \A n : For(u, n) /\ Of(n) = c /\ c \in Cancelling' =>
          u = o /\ Req(n) = p[1]
    <3>1. \A r : <<r, c>> \in pendingReplies[s] => r = p[1]
      BY <1>0, <2>1 DEF PendingWaits
    <3> QED
      BY <1>6, <2>8, <3>1
  <2>10. \A u \in Side : \A n \in Mails(u) : IsAsk(n) /\ Of(n) \in Cancelling' =>
           Of(n) \in Cancelling \/ (u = o /\ IsCancel(m) /\ Req(m) = Req(n))
    BY <1>0, <1>6, <2>4, <2>9 DEF AskedFor
  <2>11. /\ SentOnce' /\ IdsGiven' /\ AckedAfter' /\ AskedFor' /\ CancelFollows'
         /\ \A u \in Side : Mails(u) \subseteq Mails(u)'
         /\ \A u \in Side : Owed(u)' \subseteq Owed(u)
    BY <1>0, <1>2, <1>5, <2>4, <2>6, <2>10, KindsOfMail, SendStep
  <2>12. OwedCounted'
    BY <1>0, <1>2, <2>11, CountKept
  <2>13. HandlersHear'
    <3> SUFFICES ASSUME NEW u \in Side, ~isDisposed[u], NEW h \in invoked[u],
                        Of(h) \in Cancelling'
                 PROVE  Told(h) \/ \E n \in Mails(u)' : IsCancel(n) /\ Req(n) = Req(h)
      BY <1>2 DEF HandlersHear
    <3>1. CASE Of(h) \in Cancelling
      BY <1>0, <2>11, <3>1 DEF HandlersHear
    <3>2. CASE Of(h) = c
      <4>1. u = o /\ Req(h) = p[1]
        BY <1>0, <2>9, <3>2 DEF HandledFor
      <4> QED
        BY <2>4, <2>7, <4>1
    <3> QED
      BY <1>6, <3>1, <3>2
  <2> QED
    BY <2>6, <2>11, <2>12, <2>13, <1>SideTypes, <1>WatchTypes, <1>CallTypes, <1>WatchIsRight,
      <1>PendingWaits, <1>WaitingPends, <1>HandledFor DEF RInv
<1> QED
  BY <1>8, <1>9

\* ReceiveDisposed keeps the invariant.
LEMMA ReceiveDisposedStep ==
  ASSUME RInv, NEW t \in Side, ReceiveDisposed(t)
  PROVE  RInv'
<1>0. /\ SideTypes /\ WatchTypes /\ InboxType /\ CallTypes
      /\ SentOnce /\ IdsGiven /\ AckedAfter /\ OwedCounted /\ WatchIsRight
      /\ PendingWaits /\ WaitingPends /\ AskedFor /\ HandledFor
      /\ CancelFollows /\ HandlersHear
  BY DEF RInv
<1>1. /\ OtherSide(t) \in Side /\ OtherSide(t) # t /\ OtherSide(OtherSide(t)) = t
      /\ \A u \in Side : u = t \/ u = OtherSide(t)
  BY Sides
<1>2. /\ isDisposed[t]
      /\ UNCHANGED <<isDisposed, lastMessageId, pendingReplies, invoked, caller, token, outcome>>
      /\ UNCHANGED <<responsive, unacknowledged, late, checking, unwatched>>
  BY DEF ReceiveDisposed, watchVars
<1>SideTypes. SideTypes'
  BY <1>0, <1>2 DEF SideTypes
<1>WatchTypes. WatchTypes'
  BY <1>0, <1>2 DEF WatchTypes
<1>WatchIsRight. WatchIsRight'
  BY <1>0, <1>2 DEF WatchIsRight
<1>CallTypes. CallTypes'
  BY <1>0, <1>2 DEF CallTypes
<1>PendingWaits. PendingWaits'
  BY <1>0, <1>2 DEF PendingWaits
<1>WaitingPends. WaitingPends'
  BY <1>0, <1>2 DEF WaitingPends
<1>for. \A u \in Side : \A n : For(u, n) => For(u, n)'
  BY <1>2 DEF For
<1>canc. Cancelling' = Cancelling
  BY <1>2 DEF Cancelling
<1>box. InboxType' /\ Shortened(t) /\ \A u \in Side : u # t => inbox'[u] = inbox[u]
  <2>1. inbox[t] # <<>> /\ inbox' = Taken(t)
    BY DEF ReceiveDisposed
  <2> QED
    BY <1>0, <2>1, TakesFrom
<1>mail. /\ SentOnce' /\ IdsGiven' /\ AckedAfter' /\ AskedFor' /\ CancelFollows'
         /\ \A u \in Side : Mails(u)' \subseteq Mails(u)
         /\ \A u \in Side : Owed(u)' \subseteq Owed(u)
  BY <1>0, <1>2, <1>for, <1>canc, <1>box, KindsOfMail, TakeStep
<1>OwedCounted. OwedCounted'
  BY <1>0, <1>2, <1>mail, CountKept
<1>HandledFor. HandledFor'
  BY <1>0, <1>2, <1>for DEF HandledFor
<1>HandlersHear. HandlersHear'
  <2>1. Mails(OtherSide(t))' = Mails(OtherSide(t))
    BY <1>1, <1>box DEF Mails, Pos
  <2> QED
    BY <1>0, <1>1, <1>2, <1>canc, <2>1 DEF HandlersHear
<1> QED
  BY <1>box, <1>mail, <1>SideTypes, <1>WatchTypes, <1>CallTypes, <1>OwedCounted, <1>WatchIsRight,
    <1>PendingWaits, <1>WaitingPends, <1>HandledFor, <1>HandlersHear DEF RInv

\* ReceiveReply keeps the invariant.
LEMMA ReceiveReplyStep ==
  ASSUME RInv, NEW t \in Side, ReceiveReply(t)
  PROVE  RInv'
<1>0. /\ SideTypes /\ WatchTypes /\ InboxType /\ CallTypes
      /\ SentOnce /\ IdsGiven /\ AckedAfter /\ OwedCounted /\ WatchIsRight
      /\ PendingWaits /\ WaitingPends /\ AskedFor /\ HandledFor
      /\ CancelFollows /\ HandlersHear
  BY DEF RInv
<1>1. /\ OtherSide(t) \in Side /\ OtherSide(t) # t /\ OtherSide(OtherSide(t)) = t
      /\ \A u \in Side : u = t \/ u = OtherSide(t)
  BY Sides
<1>2. /\ pendingReplies' = [pendingReplies EXCEPT ![t] =
              @ \ {p \in pendingReplies[t] : p[1] = Message(t).req}]
      /\ UNCHANGED <<isDisposed, lastMessageId, invoked, caller, token>>
      /\ UNCHANGED <<responsive, unacknowledged, late, checking, unwatched>>
  BY DEF ReceiveReply, watchVars
<1>box. InboxType' /\ Shortened(t) /\ \A u \in Side : u # t => inbox'[u] = inbox[u]
  <2>1. inbox[t] # <<>> /\ inbox' = Taken(t)
    BY DEF ReceiveReply, Receives
  <2> QED
    BY <1>0, <2>1, TakesFrom
<1>head. /\ ~IsAsk(inbox[t][1]) /\ ~IsAck(inbox[t][1]) /\ ~IsCancel(inbox[t][1])
         /\ Message(t) = inbox[t][1] /\ inbox[t][1] \in Mail
  <2>1. inbox[t] # <<>> /\ Head(inbox[t]).type = "reply" /\ inbox[t] \in Seq(Mail)
    BY <1>0 DEF ReceiveReply, Receives, InboxType
  <2>2. Head(inbox[t]) = inbox[t][1] /\ inbox[t][1] \in Mail
    BY <2>1
  <2> QED
    BY <2>1, <2>2 DEF IsAsk, IsAck, IsCancel, Message
<1>3. Message(t).how \in {"ok", "error"}
  <2>1. Message(t) \in Mail /\ Message(t).type = "reply"
    BY <1>head DEF ReceiveReply, Receives, Message
  <2> QED
    BY <2>1 DEF Mail
<1>4. outcome' = [c \in RemoteCalls |->
                    IF \E p \in pendingReplies[t] : p[1] = Message(t).req /\ p[2] = c
                    THEN Message(t).how ELSE outcome[c]]
  BY DEF ReceiveReply
<1> PICK req : req = Message(t).req
  OBVIOUS
<1>5. /\ pendingReplies'[OtherSide(t)] = pendingReplies[OtherSide(t)]
      /\ pendingReplies'[t] = {p \in pendingReplies[t] : p[1] # req}
  BY <1>0, <1>1, <1>2 DEF SideTypes
<1>6. /\ \A c \in RemoteCalls : outcome'[c] = "waiting" =>
           outcome[c] = "waiting" /\ \A p \in pendingReplies[t] : p[2] = c => p[1] # req
      /\ \A c \in RemoteCalls : outcome'[c] = "none" => outcome[c] = "none"
      /\ \A c \in RemoteCalls : outcome[c] = "waiting" /\ outcome'[c] # "waiting" =>
           \E p \in pendingReplies[t] : p[1] = req /\ p[2] = c
  BY <1>3, <1>4
<1>SideTypes. SideTypes'
  BY <1>0, <1>2 DEF SideTypes
<1>WatchTypes. WatchTypes'
  BY <1>0, <1>2 DEF WatchTypes
<1>WatchIsRight. WatchIsRight'
  BY <1>0, <1>2 DEF WatchIsRight
<1>CallTypes. CallTypes'
  BY <1>0, <1>2, <1>3, <1>4 DEF CallTypes
<1>7. /\ \A u \in Side : pendingReplies'[u] \subseteq pendingReplies[u]
      /\ \A u \in Side : \A p \in pendingReplies[u] : p[2] \in RemoteCalls
  BY <1>0, <1>1, <1>5 DEF SideTypes
<1>PendingWaits. PendingWaits'
  <2> SUFFICES ASSUME NEW u \in Side, NEW p \in pendingReplies'[u]
               PROVE  /\ caller[p[2]] = u /\ outcome'[p[2]] = "waiting"
                      /\ \A q \in pendingReplies'[u] : q[2] = p[2] => q = p
    BY <1>2 DEF PendingWaits
  <2>1. /\ p \in pendingReplies[u] /\ caller[p[2]] = u /\ outcome[p[2]] = "waiting"
        /\ \A q \in pendingReplies[u] : q[2] = p[2] => q = p
        /\ p[2] \in RemoteCalls
    BY <1>0, <1>7 DEF PendingWaits
  <2>2. ASSUME outcome'[p[2]] # "waiting" PROVE FALSE
    <3>1. PICK q \in pendingReplies[t] : q[1] = req /\ q[2] = p[2]
      BY <1>6, <2>1, <2>2
    <3>2. u = t /\ q = p
      BY <1>0, <2>1, <3>1 DEF PendingWaits
    <3> QED
      BY <1>5, <3>1, <3>2
  <2> QED
    BY <1>7, <2>1, <2>2
<1>WaitingPends. WaitingPends'
  <2> SUFFICES ASSUME NEW c \in RemoteCalls, outcome'[c] = "waiting"
               PROVE  \E p \in pendingReplies'[caller[c]] : p[2] = c
    BY <1>2 DEF WaitingPends
  <2>1. outcome[c] = "waiting" /\ \A p \in pendingReplies[t] : p[2] = c => p[1] # req
    BY <1>6
  <2>2. PICK p \in pendingReplies[caller[c]] : p[2] = c
    BY <1>0, <2>1 DEF WaitingPends
  <2>3. caller[c] \in Side
    BY <1>0 DEF CallTypes
  <2> QED
    BY <1>1, <1>5, <2>1, <2>2, <2>3
<1>for. \A u \in Side : \A n : For(u, n) /\ Of(n) \in RemoteCalls => For(u, n)'
  <2> SUFFICES ASSUME NEW u \in Side, NEW n, For(u, n), Of(n) \in RemoteCalls,
                      outcome'[Of(n)] = "waiting"
               PROVE  <<Req(n), Of(n)>> \in pendingReplies'[OtherSide(u)]
    BY <1>2, <1>6 DEF For
  <2>1. /\ <<Req(n), Of(n)>> \in pendingReplies[OtherSide(u)]
        /\ \A p \in pendingReplies[t] : p[2] = Of(n) => p[1] # req
    BY <1>6 DEF For
  <2>2. OtherSide(u) \in Side
    BY Sides
  <2> QED
    BY <1>1, <1>5, <2>1, <2>2
<1>canc. Cancelling' \subseteq Cancelling
  BY <1>2, <1>6 DEF Cancelling
<1>mail. /\ SentOnce' /\ IdsGiven' /\ AckedAfter' /\ AskedFor' /\ CancelFollows'
         /\ \A u \in Side : Mails(u)' \subseteq Mails(u)
         /\ \A u \in Side : Owed(u)' \subseteq Owed(u)
  BY <1>0, <1>2, <1>for, <1>canc, <1>box, KindsOfMail, TakeStep
<1>OwedCounted. OwedCounted'
  BY <1>0, <1>2, <1>mail, CountKept
<1>HandledFor. HandledFor'
  <2>1. \A u \in Side : \A h \in invoked[u] : Of(h) \in RemoteCalls
    BY <1>0 DEF SideTypes, Handler, Of
  <2> QED
    BY <1>0, <1>2, <1>for, <2>1 DEF HandledFor
<1>HandlersHear. HandlersHear'
  <2>1. \A m \in Mails(t) : IsCancel(m) => m \in Mails(t)'
    BY <1>0, <1>head, <1>box, ShortenedFacts, KindsOfMail
  <2>2. Mails(OtherSide(t))' = Mails(OtherSide(t))
    BY <1>1, <1>box DEF Mails, Pos
  <2> QED
    BY <1>0, <1>1, <1>2, <1>canc, <2>1, <2>2 DEF HandlersHear
<1> QED
  BY <1>box, <1>mail, <1>SideTypes, <1>WatchTypes, <1>CallTypes, <1>OwedCounted, <1>WatchIsRight,
    <1>PendingWaits, <1>WaitingPends, <1>HandledFor, <1>HandlersHear DEF RInv

\* ReceiveCancel keeps the invariant.
LEMMA ReceiveCancelStep ==
  ASSUME RInv, NEW t \in Side, ReceiveCancel(t)
  PROVE  RInv'
<1>0. /\ SideTypes /\ WatchTypes /\ InboxType /\ CallTypes
      /\ SentOnce /\ IdsGiven /\ AckedAfter /\ OwedCounted /\ WatchIsRight
      /\ PendingWaits /\ WaitingPends /\ AskedFor /\ HandledFor
      /\ CancelFollows /\ HandlersHear
  BY DEF RInv
<1>1. /\ OtherSide(t) \in Side /\ OtherSide(t) # t /\ OtherSide(OtherSide(t)) = t
      /\ \A u \in Side : u = t \/ u = OtherSide(t)
  BY Sides
<1>2. /\ UNCHANGED <<isDisposed, lastMessageId, pendingReplies, caller, token, outcome>>
      /\ UNCHANGED <<responsive, unacknowledged, late, checking, unwatched>>
  BY DEF ReceiveCancel, watchVars
<1>box. InboxType' /\ Shortened(t) /\ \A u \in Side : u # t => inbox'[u] = inbox[u]
  <2>1. inbox[t] # <<>> /\ inbox' = Taken(t)
    BY DEF ReceiveCancel, Receives
  <2> QED
    BY <1>0, <2>1, TakesFrom
<1>head. /\ IsCancel(inbox[t][1])
         /\ Message(t) = inbox[t][1] /\ inbox[t][1] \in Mail
  <2>1. inbox[t] # <<>> /\ Head(inbox[t]).type = "cancel" /\ inbox[t] \in Seq(Mail)
    BY <1>0 DEF ReceiveCancel, Receives, InboxType
  <2>2. Head(inbox[t]) = inbox[t][1] /\ inbox[t][1] \in Mail
    BY <2>1
  <2> QED
    BY <2>1, <2>2 DEF IsAsk, IsAck, IsCancel, Message
<1> DEFINE Hearing(h) == IF h.req = Message(t).req /\ h.cancellable
                         THEN [h EXCEPT !.cancelled = TRUE] ELSE h
<1>3. invoked' = [invoked EXCEPT ![t] = {Hearing(h) : h \in @}]
  BY DEF ReceiveCancel
<1> PICK req : req = Req(inbox[t][1])
  OBVIOUS
<1>4. ASSUME NEW h \in Handler
      PROVE  /\ Hearing(h) \in Handler
             /\ Req(Hearing(h)) = Req(h) /\ Of(Hearing(h)) = Of(h)
             /\ HasToken(h) => HasToken(Hearing(h))
             /\ Told(h) => Told(Hearing(h))
             /\ Req(h) = req /\ HasToken(h) => Told(Hearing(h))
  BY <1>4, <1>head DEF Handler, Req, Of, HasToken, Told
<1> HIDE DEF Hearing
<1>5. /\ \A u \in Side : u # t => invoked'[u] = invoked[u]
      /\ invoked'[t] = {Hearing(h) : h \in invoked[t]}
      /\ \A u \in Side : \A h \in invoked[u] : h \in Handler
  BY <1>0, <1>3 DEF SideTypes
<1>6. \A u \in Side : \A h \in invoked'[u] :
        /\ h \in Handler
        /\ \E g \in invoked[u] :
             /\ Req(h) = Req(g) /\ Of(h) = Of(g)
             /\ HasToken(g) => HasToken(h)
             /\ Told(g) => Told(h)
             /\ u = t /\ Req(g) = req /\ HasToken(g) => Told(h)
  <2> SUFFICES ASSUME NEW u \in Side, NEW h \in invoked'[u]
               PROVE  /\ h \in Handler
                      /\ \E g \in invoked[u] :
                           /\ Req(h) = Req(g) /\ Of(h) = Of(g)
                           /\ HasToken(g) => HasToken(h)
                           /\ Told(g) => Told(h)
                           /\ u = t /\ Req(g) = req /\ HasToken(g) => Told(h)
    OBVIOUS
  <2>1. CASE u = t
    <3>1. PICK g \in invoked[t] : h = Hearing(g)
      BY <1>5, <2>1
    <3>2. g \in Handler
      BY <1>5
    <3> QED
      BY <1>4, <2>1, <3>1, <3>2
  <2>2. CASE u # t
    BY <1>5, <2>2
  <2> QED
    BY <2>1, <2>2
<1>SideTypes. SideTypes'
  <2>1. \A u \in Side : invoked'[u] \subseteq Handler
    BY <1>6
  <2>2. invoked' \in [Side -> SUBSET Handler]
    BY <1>0, <1>3, <2>1 DEF SideTypes
  <2> QED
    BY <1>0, <1>2, <2>2 DEF SideTypes
<1>WatchTypes. WatchTypes'
  BY <1>0, <1>2 DEF WatchTypes
<1>WatchIsRight. WatchIsRight'
  BY <1>0, <1>2 DEF WatchIsRight
<1>CallTypes. CallTypes'
  BY <1>0, <1>2 DEF CallTypes
<1>PendingWaits. PendingWaits'
  BY <1>0, <1>2 DEF PendingWaits
<1>WaitingPends. WaitingPends'
  BY <1>0, <1>2 DEF WaitingPends
<1>for. \A u \in Side : \A n : For(u, n) => For(u, n)'
  BY <1>2 DEF For
<1>canc. Cancelling' = Cancelling
  BY <1>2 DEF Cancelling
<1>mail. /\ SentOnce' /\ IdsGiven' /\ AckedAfter' /\ AskedFor' /\ CancelFollows'
         /\ \A u \in Side : Mails(u)' \subseteq Mails(u)
         /\ \A u \in Side : Owed(u)' \subseteq Owed(u)
  BY <1>0, <1>2, <1>for, <1>canc, <1>box, KindsOfMail, TakeStep
<1>OwedCounted. OwedCounted'
  BY <1>0, <1>2, <1>mail, CountKept
<1>HandledFor. HandledFor'
  <2>1. \A u \in Side : \A g, h :
          For(u, g) /\ Req(h) = Req(g) /\ Of(h) = Of(g) /\ (HasToken(g) => HasToken(h))
           => For(u, h)'
    BY <1>2 DEF For
  <2> QED
    BY <1>0, <1>6, <2>1 DEF HandledFor
<1>HandlersHear. HandlersHear'
  <2> SUFFICES ASSUME NEW u \in Side, ~isDisposed[u], NEW h \in invoked'[u], Of(h) \in Cancelling
               PROVE  Told(h) \/ \E m \in Mails(u)' : IsCancel(m) /\ Req(m) = Req(h)
    BY <1>2, <1>canc DEF HandlersHear
  <2>1. PICK g \in invoked[u] :
          /\ Req(h) = Req(g) /\ Of(h) = Of(g)
          /\ Told(g) => Told(h)
          /\ u = t /\ Req(g) = req /\ HasToken(g) => Told(h)
    BY <1>6
  <2>2. HasToken(g)
    BY <1>0, <2>1 DEF HandledFor, For, Cancelling
  <2>3. Told(g) \/ \E m \in Mails(u) : IsCancel(m) /\ Req(m) = Req(g)
    BY <1>0, <2>1 DEF HandlersHear
  <2>4. CASE u = t
    BY <1>0, <1>box, <2>1, <2>2, <2>3, <2>4, ShortenedFacts
  <2>5. CASE u # t
    <3>1. Mails(u)' = Mails(u)
      BY <1>box, <2>5 DEF Mails, Pos
    <3> QED
      BY <2>1, <2>3, <3>1
  <2> QED
    BY <2>4, <2>5
<1> QED
  BY <1>box, <1>mail, <1>SideTypes, <1>WatchTypes, <1>CallTypes, <1>OwedCounted, <1>WatchIsRight,
    <1>PendingWaits, <1>WaitingPends, <1>HandledFor, <1>HandlersHear DEF RInv

\* ReceiveAck keeps the invariant.
LEMMA ReceiveAckStep ==
  ASSUME RInv, NEW t \in Side, ReceiveAck(t)
  PROVE  RInv'
<1>0. /\ SideTypes /\ WatchTypes /\ InboxType /\ CallTypes
      /\ SentOnce /\ IdsGiven /\ AckedAfter /\ OwedCounted /\ WatchIsRight
      /\ PendingWaits /\ WaitingPends /\ AskedFor /\ HandledFor
      /\ CancelFollows /\ HandlersHear
  BY DEF RInv
<1>1. /\ OtherSide(t) \in Side /\ OtherSide(t) # t /\ OtherSide(OtherSide(t)) = t
      /\ \A u \in Side : u = t \/ u = OtherSide(t)
  BY Sides
<1>2. UNCHANGED <<isDisposed, lastMessageId, pendingReplies, invoked, caller, token, outcome>>
  BY DEF ReceiveAck
<1>3. /\ late' = [late EXCEPT ![t] = FALSE]
      /\ unacknowledged' = [unacknowledged EXCEPT ![t] = @ - 1]
      /\ checking' = [checking EXCEPT ![t] = @ /\ unacknowledged'[t] # 0]
      /\ responsive' = [responsive EXCEPT ![t] = TRUE]
      /\ unwatched' = IF unacknowledged'[t] # 0 /\ ~responsive[t] /\ ~checking[t]
                      THEN unwatched \cup {t} ELSE unwatched
  BY DEF ReceiveAck
<1>box. InboxType' /\ Shortened(t) /\ \A u \in Side : u # t => inbox'[u] = inbox[u]
  <2>1. inbox[t] # <<>> /\ inbox' = Taken(t)
    BY DEF ReceiveAck, Receives
  <2> QED
    BY <1>0, <2>1, TakesFrom
<1>head. /\ IsAck(inbox[t][1])
         /\ Message(t) = inbox[t][1] /\ inbox[t][1] \in Mail
  <2>1. inbox[t] # <<>> /\ Head(inbox[t]).type = "ack" /\ inbox[t] \in Seq(Mail)
    BY <1>0 DEF ReceiveAck, Receives, InboxType
  <2>2. Head(inbox[t]) = inbox[t][1] /\ inbox[t][1] \in Mail
    BY <2>1
  <2> QED
    BY <2>1, <2>2 DEF IsAsk, IsAck, IsCancel, Message
<1>SideTypes. SideTypes'
  BY <1>0, <1>2 DEF SideTypes
<1>CallTypes. CallTypes'
  BY <1>0, <1>2 DEF CallTypes
<1>PendingWaits. PendingWaits'
  BY <1>0, <1>2 DEF PendingWaits
<1>WaitingPends. WaitingPends'
  BY <1>0, <1>2 DEF WaitingPends
<1>for. \A u \in Side : \A n : For(u, n) => For(u, n)'
  BY <1>2 DEF For
<1>canc. Cancelling' = Cancelling
  BY <1>2 DEF Cancelling
<1>mail. /\ SentOnce' /\ IdsGiven' /\ AckedAfter' /\ AskedFor' /\ CancelFollows'
         /\ \A u \in Side : Mails(u)' \subseteq Mails(u)
         /\ \A u \in Side : Owed(u)' \subseteq Owed(u)
  BY <1>0, <1>2, <1>for, <1>canc, <1>box, KindsOfMail, TakeStep
<1>4. /\ unacknowledged[t] \in Nat /\ unacknowledged'[t] = unacknowledged[t] - 1
      /\ unacknowledged[OtherSide(t)] \in Nat
      /\ unacknowledged'[OtherSide(t)] = unacknowledged[OtherSide(t)]
  BY <1>0, <1>1, <1>3 DEF WatchTypes
<1> PICK r : r = Req(inbox[t][1])
  OBVIOUS
<1>5. r \in Owed(t) /\ Owed(t)' \subseteq Owed(t) \ {r}
  <2>1. inbox[t][1] \in Mails(t) /\ \A m \in Mails(t)' : ~Alike(m, inbox[t][1])
    BY <1>0, <1>box, ShortenedFacts, OnceShortened
  <2>2. r \in Owed(t)
    BY <1>head, <2>1 DEF Owed
  <2>3. \A m \in Mails(t)' : IsAck(m) => Req(m) # r
    BY <1>head, <2>1 DEF Alike
  <2>4. \A m \in Mails(OtherSide(t))' : IsAsk(m) => Req(m) # r
    BY <1>0, <1>1, <1>head, <1>mail, <2>1 DEF AckedAfter
  <2> QED
    BY <1>mail, <2>2, <2>3, <2>4 DEF Owed
<1>6. unacknowledged[t] >= 1 /\ Cardinality(Owed(t)') <= unacknowledged'[t]
  BY <1>0, <1>4, <1>5, OwedPaid
<1>OwedCounted. OwedCounted'
  <2>1. Cardinality(Owed(OtherSide(t))') <= unacknowledged'[OtherSide(t)]
    BY <1>0, <1>1, <1>4, <1>mail, OwedLess
  <2> QED
    BY <1>1, <1>6, <2>1 DEF OwedCounted
<1>WatchTypes. WatchTypes'
  BY <1>0, <1>3, <1>4, <1>6 DEF WatchTypes
<1>WatchIsRight. WatchIsRight'
  <2>1. /\ responsive'[t] /\ responsive'[OtherSide(t)] = responsive[OtherSide(t)]
        /\ checking'[t] <=> checking[t] /\ unacknowledged'[t] # 0
        /\ checking'[OtherSide(t)] = checking[OtherSide(t)]
        /\ unwatched \subseteq unwatched'
        /\ unacknowledged'[t] # 0 /\ ~responsive[t] /\ ~checking[t] => t \in unwatched'
    BY <1>0, <1>1, <1>3 DEF WatchTypes
  <2> QED
    BY <1>0, <1>1, <1>2, <1>4, <1>6, <2>1 DEF WatchIsRight
<1>HandledFor. HandledFor'
  BY <1>0, <1>2, <1>for DEF HandledFor
<1>HandlersHear. HandlersHear'
  <2>1. \A m \in Mails(t) : IsCancel(m) => m \in Mails(t)'
    BY <1>0, <1>head, <1>box, ShortenedFacts, KindsOfMail
  <2>2. Mails(OtherSide(t))' = Mails(OtherSide(t))
    BY <1>1, <1>box DEF Mails, Pos
  <2> QED
    BY <1>0, <1>1, <1>2, <1>canc, <2>1, <2>2 DEF HandlersHear
<1> QED
  BY <1>box, <1>mail, <1>SideTypes, <1>WatchTypes, <1>CallTypes, <1>OwedCounted, <1>WatchIsRight,
    <1>PendingWaits, <1>WaitingPends, <1>HandledFor, <1>HandlersHear DEF RInv

\* ReceiveRequest keeps the invariant.
LEMMA ReceiveRequestStep ==
  ASSUME RInv, NEW t \in Side, ReceiveRequest(t)
  PROVE  RInv'
<1>0. /\ SideTypes /\ WatchTypes /\ InboxType /\ CallTypes
      /\ SentOnce /\ IdsGiven /\ AckedAfter /\ OwedCounted /\ WatchIsRight
      /\ PendingWaits /\ WaitingPends /\ AskedFor /\ HandledFor
      /\ CancelFollows /\ HandlersHear
  BY DEF RInv
<1> PICK o \in Side : o = OtherSide(t)
  BY Sides
<1> PICK a : a = inbox[t][1]
  OBVIOUS
<1> PICK m : m = Acknowledged(Req(a))
  OBVIOUS
<1> PICK h : h = [req |-> a.req, of |-> a.of, cancellable |-> a.cancellable, cancelled |-> FALSE]
  OBVIOUS
<1>1. o # t /\ OtherSide(o) = t /\ \A u \in Side : u = t \/ u = o
  BY Sides
<1>2. /\ ~isDisposed[t]
      /\ UNCHANGED <<isDisposed, lastMessageId, pendingReplies, caller, token, outcome>>
      /\ UNCHANGED <<responsive, unacknowledged, late, checking, unwatched>>
  BY DEF ReceiveRequest, Receives, watchVars
<1>head. /\ inbox[t] # <<>> /\ IsAsk(a) /\ Message(t) = a /\ a \in Mail
  <2>1. inbox[t] # <<>> /\ Head(inbox[t]).type = "request" /\ inbox[t] \in Seq(Mail)
    BY <1>0 DEF ReceiveRequest, Receives, InboxType
  <2>2. Head(inbox[t]) = a /\ a \in Mail
    BY <2>1
  <2> QED
    BY <2>1, <2>2 DEF IsAsk, Message
<1>3. m \in Mail /\ ~IsAsk(m) /\ IsAck(m) /\ ~IsCancel(m) /\ Req(m) = Req(a)
  BY <1>head, KindsOfMail DEF Acknowledged, Mail, IsAsk, IsAck, IsCancel, Req
<1>4. /\ h \in Handler /\ Req(h) = Req(a) /\ Of(h) = Of(a)
      /\ HasToken(a) => HasToken(h)
  BY <1>head DEF Handler, Mail, IsAsk, Req, Of, HasToken
<1>5. invoked' = [invoked EXCEPT ![t] = @ \cup {h}]
  BY <1>head DEF ReceiveRequest
<1>6. /\ invoked'[t] = invoked[t] \cup {h} /\ invoked'[o] = invoked[o]
      /\ \A u \in Side : \A g \in invoked[u] : g \in Handler
  BY <1>0, <1>1, <1>5 DEF SideTypes
<1>box. InboxType' /\ Shortened(t) /\ Longer(o, m)
  <2>1. inbox' = [Taken(t) EXCEPT ![OtherSide(t)] = Append(@, m)]
    BY <1>head DEF ReceiveRequest, Req
  <2> QED
    BY <1>0, <1>3, <1>head, <2>1, AnswersFrom
<1>7. /\ Mails(o)' = Mails(o) \cup {m}
      /\ Mails(t)' \subseteq Mails(t) /\ a \in Mails(t)
      /\ \A n \in Mails(t) : n = a \/ n \in Mails(t)'
      /\ \A n \in Mails(t)' : ~Alike(n, a)
  BY <1>0, <1>3, <1>box, LongerFacts, ShortenedFacts, OnceShortened
<1>8. /\ \A n \in Mails(t)' : IsAsk(n) => Req(n) # Req(a)
      /\ \A n \in Mails(o) : IsAck(n) => Req(n) # Req(a)
  BY <1>0, <1>1, <1>head, <1>7 DEF Alike, AckedAfter
<1>SideTypes. SideTypes'
  BY <1>0, <1>2, <1>4, <1>5 DEF SideTypes
<1>WatchTypes. WatchTypes'
  BY <1>0, <1>2 DEF WatchTypes
<1>WatchIsRight. WatchIsRight'
  BY <1>0, <1>2 DEF WatchIsRight
<1>CallTypes. CallTypes'
  BY <1>0, <1>2 DEF CallTypes
<1>PendingWaits. PendingWaits'
  BY <1>0, <1>2 DEF PendingWaits
<1>WaitingPends. WaitingPends'
  BY <1>0, <1>2 DEF WaitingPends
<1>for. \A u \in Side : \A n : For(u, n) => For(u, n)'
  BY <1>2 DEF For
<1>canc. Cancelling' = Cancelling
  BY <1>2 DEF Cancelling
<1>SentOnce. SentOnce'
  <2>1. \A n \in Mails(o) : ~Alike(n, m)
    BY <1>3, <1>8 DEF Alike
  <2> QED
    BY <1>0, <1>1, <1>3, <1>box, <2>1, OnceLonger, OnceShortened DEF SentOnce
<1>9. Owed(o)' \subseteq Owed(o) /\ Owed(t)' \subseteq Owed(t)
  <2>1. Owed(o)' \subseteq Owed(o)
    BY <1>1, <1>3, <1>7, <1>head DEF Owed
  <2>2. Owed(t)' \subseteq Owed(t)
    BY <1>1, <1>3, <1>7, <1>head DEF Owed
  <2> QED
    BY <2>1, <2>2
<1>IdsGiven. IdsGiven'
  BY <1>0, <1>1, <1>2, <1>9 DEF IdsGiven
<1>AckedAfter. AckedAfter'
  BY <1>0, <1>1, <1>3, <1>7, <1>8 DEF AckedAfter
<1>OwedCounted. OwedCounted'
  BY <1>0, <1>1, <1>2, <1>9, CountKept
<1>AskedFor. AskedFor'
  BY <1>0, <1>1, <1>3, <1>7, <1>for DEF AskedFor
<1>HandledFor. HandledFor'
  <2>1. For(t, a)
    BY <1>0, <1>head, <1>7 DEF AskedFor
  <2>2. For(t, h)'
    BY <1>2, <1>4, <2>1 DEF For
  <2> QED
    BY <1>0, <1>1, <1>6, <1>for, <2>2 DEF HandledFor
<1>10. /\ FollowsAt(t)'
       /\ Of(a) \in Cancelling => \E n \in Mails(t)' : IsCancel(n) /\ Req(n) = Req(a)
  BY <1>0, <1>box, <1>canc, <1>head, FollowsShortened DEF CancelFollows
<1>CancelFollows. CancelFollows'
  <2>1. FollowsAt(o)'
    BY <1>0, <1>3, <1>box, <1>canc, FollowsLonger DEF CancelFollows
  <2> QED
    BY <1>1, <1>10, <2>1 DEF CancelFollows
<1>HandlersHear. HandlersHear'
  <2>1. \A n \in Mails(t) : IsCancel(n) => n \in Mails(t)'
    BY <1>head, <1>7, KindsOfMail
  <2>2. Mails(o) \subseteq Mails(o)'
    BY <1>7
  <2> QED
    BY <1>0, <1>1, <1>2, <1>4, <1>6, <1>10, <1>canc, <2>1, <2>2 DEF HandlersHear
<1> QED
  BY <1>box, <1>SideTypes, <1>WatchTypes, <1>CallTypes, <1>SentOnce, <1>IdsGiven, <1>AckedAfter,
    <1>OwedCounted, <1>WatchIsRight, <1>PendingWaits, <1>WaitingPends, <1>AskedFor,
    <1>HandledFor, <1>CancelFollows, <1>HandlersHear DEF RInv

\* HandlerEnds keeps the invariant.
LEMMA HandlerEndsStep ==
  ASSUME RInv, NEW t \in Side, NEW how \in {"ok", "error"}, HandlerEnds(t, how)
  PROVE  RInv'
<1>0. /\ SideTypes /\ WatchTypes /\ InboxType /\ CallTypes
      /\ SentOnce /\ IdsGiven /\ AckedAfter /\ OwedCounted /\ WatchIsRight
      /\ PendingWaits /\ WaitingPends /\ AskedFor /\ HandledFor
      /\ CancelFollows /\ HandlersHear
  BY DEF RInv
<1> PICK o \in Side : o = OtherSide(t)
  BY Sides
<1>1. o # t /\ \A u \in Side : u = t \/ u = o
  BY Sides
<1>2. /\ UNCHANGED <<isDisposed, lastMessageId, pendingReplies, caller, token, outcome>>
      /\ UNCHANGED <<responsive, unacknowledged, late, checking, unwatched>>
  BY DEF HandlerEnds, watchVars
<1>3. PICK h \in invoked[t] :
        /\ invoked' = [invoked EXCEPT ![t] = @ \ {h}]
        /\ inbox' = [inbox EXCEPT ![o] = Append(@, Reply(h.req, how))]
  BY DEF HandlerEnds
<1> PICK m : m = Reply(h.req, how)
  OBVIOUS
<1>4. m \in Mail /\ ~IsAsk(m) /\ ~IsAck(m)
  <2>1. h.req \in Nat
    BY <1>0 DEF SideTypes, Handler
  <2> QED
    BY <2>1 DEF Reply, Mail, IsAsk, IsAck
<1>5. \A u \in Side : invoked'[u] \subseteq invoked[u]
  BY <1>0, <1>3 DEF SideTypes
<1>box. InboxType' /\ Longer(o, m) /\ \A u \in Side : u # o => inbox'[u] = inbox[u]
  BY <1>0, <1>3, <1>4, AppendsTo
<1>SideTypes. SideTypes'
  BY <1>0, <1>2, <1>3 DEF SideTypes
<1>WatchTypes. WatchTypes'
  BY <1>0, <1>2 DEF WatchTypes
<1>WatchIsRight. WatchIsRight'
  BY <1>0, <1>2 DEF WatchIsRight
<1>CallTypes. CallTypes'
  BY <1>0, <1>2 DEF CallTypes
<1>PendingWaits. PendingWaits'
  BY <1>0, <1>2 DEF PendingWaits
<1>WaitingPends. WaitingPends'
  BY <1>0, <1>2 DEF WaitingPends
<1>for. \A u \in Side : \A n : For(u, n) => For(u, n)'
  BY <1>2 DEF For
<1>canc. Cancelling' = Cancelling
  BY <1>2 DEF Cancelling
<1>mail. /\ SentOnce' /\ IdsGiven' /\ AckedAfter' /\ AskedFor' /\ CancelFollows'
         /\ \A u \in Side : Mails(u) \subseteq Mails(u)'
         /\ \A u \in Side : Owed(u)' \subseteq Owed(u)
  BY <1>0, <1>2, <1>4, <1>for, <1>canc, <1>box, SendStep
<1>OwedCounted. OwedCounted'
  BY <1>0, <1>2, <1>mail, CountKept
<1>HandledFor. HandledFor'
  BY <1>0, <1>5, <1>for DEF HandledFor
<1>HandlersHear. HandlersHear'
  BY <1>0, <1>2, <1>5, <1>canc, <1>mail DEF HandlersHear
<1> QED
  BY <1>box, <1>mail, <1>SideTypes, <1>WatchTypes, <1>CallTypes, <1>OwedCounted, <1>WatchIsRight,
    <1>PendingWaits, <1>WaitingPends, <1>HandledFor, <1>HandlersHear DEF RInv

\* TimePasses keeps the invariant.
LEMMA TimePassesStep ==
  ASSUME RInv, NEW t \in Side, TimePasses(t)
  PROVE  RInv'
<1>0. /\ SideTypes /\ WatchTypes /\ InboxType /\ CallTypes
      /\ SentOnce /\ IdsGiven /\ AckedAfter /\ OwedCounted /\ WatchIsRight
      /\ PendingWaits /\ WaitingPends /\ AskedFor /\ HandledFor
      /\ CancelFollows /\ HandlersHear
  BY DEF RInv
<1>2. /\ UNCHANGED <<isDisposed, lastMessageId, pendingReplies, invoked, inbox, caller, token>>
      /\ UNCHANGED <<outcome, responsive, unacknowledged, checking, unwatched>>
  BY DEF TimePasses
<1>3. late' = [late EXCEPT ![t] = TRUE]
  BY DEF TimePasses
<1>SideTypes. SideTypes'
  BY <1>0, <1>2 DEF SideTypes
<1>WatchTypes. WatchTypes'
  BY <1>0, <1>2, <1>3 DEF WatchTypes
<1>WatchIsRight. WatchIsRight'
  BY <1>0, <1>2, <1>3 DEF WatchIsRight, WatchTypes
<1>CallTypes. CallTypes'
  BY <1>0, <1>2 DEF CallTypes
<1>PendingWaits. PendingWaits'
  BY <1>0, <1>2 DEF PendingWaits
<1>WaitingPends. WaitingPends'
  BY <1>0, <1>2 DEF WaitingPends
<1>for. \A u \in Side : \A n : For(u, n) => For(u, n)'
  BY <1>2 DEF For
<1>canc. Cancelling' = Cancelling
  BY <1>2 DEF Cancelling
<1>mail. /\ InboxType' /\ SentOnce' /\ IdsGiven' /\ AckedAfter' /\ AskedFor' /\ CancelFollows'
         /\ \A u \in Side : Mails(u)' = Mails(u) /\ Owed(u)' = Owed(u)
  BY <1>0, <1>2, <1>for, <1>canc, KindsOfMail, KeepStep
<1>OwedCounted. OwedCounted'
  BY <1>0, <1>2, <1>mail, CountKept
<1>HandledFor. HandledFor'
  BY <1>0, <1>2, <1>for DEF HandledFor
<1>HandlersHear. HandlersHear'
  BY <1>0, <1>2, <1>canc, <1>mail DEF HandlersHear
<1> QED
  BY <1>mail, <1>0, <1>SideTypes, <1>WatchTypes, <1>CallTypes, <1>OwedCounted, <1>WatchIsRight,
    <1>PendingWaits, <1>WaitingPends, <1>HandledFor, <1>HandlersHear DEF RInv

\* CheckUnresponsive keeps the invariant.
LEMMA CheckUnresponsiveStep ==
  ASSUME RInv, NEW t \in Side, CheckUnresponsive(t)
  PROVE  RInv'
<1>0. /\ SideTypes /\ WatchTypes /\ InboxType /\ CallTypes
      /\ SentOnce /\ IdsGiven /\ AckedAfter /\ OwedCounted /\ WatchIsRight
      /\ PendingWaits /\ WaitingPends /\ AskedFor /\ HandledFor
      /\ CancelFollows /\ HandlersHear
  BY DEF RInv
<1>2. /\ UNCHANGED <<isDisposed, lastMessageId, pendingReplies, invoked, inbox, caller, token>>
      /\ UNCHANGED <<outcome, unacknowledged, late, unwatched>>
  BY DEF CheckUnresponsive
<1>3. /\ checking[t] /\ (late[t] \/ unacknowledged[t] = 0)
      /\ checking' = [checking EXCEPT ![t] = FALSE]
      /\ responsive' = [responsive EXCEPT ![t] = @ /\ unacknowledged[t] = 0]
  BY DEF CheckUnresponsive
<1>SideTypes. SideTypes'
  BY <1>0, <1>2 DEF SideTypes
<1>WatchTypes. WatchTypes'
  BY <1>0, <1>2, <1>3 DEF WatchTypes
<1>WatchIsRight. WatchIsRight'
  BY <1>0, <1>2, <1>3 DEF WatchIsRight, WatchTypes
<1>CallTypes. CallTypes'
  BY <1>0, <1>2 DEF CallTypes
<1>PendingWaits. PendingWaits'
  BY <1>0, <1>2 DEF PendingWaits
<1>WaitingPends. WaitingPends'
  BY <1>0, <1>2 DEF WaitingPends
<1>for. \A u \in Side : \A n : For(u, n) => For(u, n)'
  BY <1>2 DEF For
<1>canc. Cancelling' = Cancelling
  BY <1>2 DEF Cancelling
<1>mail. /\ InboxType' /\ SentOnce' /\ IdsGiven' /\ AckedAfter' /\ AskedFor' /\ CancelFollows'
         /\ \A u \in Side : Mails(u)' = Mails(u) /\ Owed(u)' = Owed(u)
  BY <1>0, <1>2, <1>for, <1>canc, KindsOfMail, KeepStep
<1>OwedCounted. OwedCounted'
  BY <1>0, <1>2, <1>mail, CountKept
<1>HandledFor. HandledFor'
  BY <1>0, <1>2, <1>for DEF HandledFor
<1>HandlersHear. HandlersHear'
  BY <1>0, <1>2, <1>canc, <1>mail DEF HandlersHear
<1> QED
  BY <1>mail, <1>0, <1>SideTypes, <1>WatchTypes, <1>CallTypes, <1>OwedCounted, <1>WatchIsRight,
    <1>PendingWaits, <1>WaitingPends, <1>HandledFor, <1>HandlersHear DEF RInv

\* DisposeSide keeps the invariant.
LEMMA DisposeSideStep ==
  ASSUME RInv, NEW t \in Side, DisposeSide(t)
  PROVE  RInv'
<1>0. /\ SideTypes /\ WatchTypes /\ InboxType /\ CallTypes
      /\ SentOnce /\ IdsGiven /\ AckedAfter /\ OwedCounted /\ WatchIsRight
      /\ PendingWaits /\ WaitingPends /\ AskedFor /\ HandledFor
      /\ CancelFollows /\ HandlersHear
  BY DEF RInv
<1>1. /\ OtherSide(t) \in Side /\ OtherSide(t) # t /\ OtherSide(OtherSide(t)) = t
      /\ \A u \in Side : u = t \/ u = OtherSide(t)
  BY Sides
<1>2. UNCHANGED <<lastMessageId, invoked, responsive, unacknowledged, late, inbox, caller,
                  token, unwatched>>
  BY DEF DisposeSide
<1>3. /\ isDisposed' = [isDisposed EXCEPT ![t] = TRUE]
      /\ pendingReplies' = [pendingReplies EXCEPT ![t] = {}]
      /\ outcome' = [c \in RemoteCalls |->
           IF \E p \in pendingReplies[t] : p[2] = c THEN "canceled" ELSE outcome[c]]
      /\ checking' = [checking EXCEPT ![t] = FALSE]
  BY DEF DisposeSide
<1>4. /\ pendingReplies'[t] = {} /\ pendingReplies'[OtherSide(t)] = pendingReplies[OtherSide(t)]
      /\ \A u \in Side : isDisposed[u] => isDisposed'[u]
  BY <1>0, <1>1, <1>3 DEF SideTypes
<1>5. /\ \A c \in RemoteCalls : outcome'[c] = "waiting" =>
           outcome[c] = "waiting" /\ \A p \in pendingReplies[t] : p[2] # c
      /\ \A c \in RemoteCalls : outcome'[c] = "none" => outcome[c] = "none"
      /\ \A c \in RemoteCalls : outcome[c] = "waiting" /\ outcome'[c] # "waiting" =>
           \E p \in pendingReplies[t] : p[2] = c
  BY <1>3
<1>SideTypes. SideTypes'
  BY <1>0, <1>2, <1>3 DEF SideTypes
<1>WatchTypes. WatchTypes'
  BY <1>0, <1>2, <1>3 DEF WatchTypes
<1>WatchIsRight. WatchIsRight'
  BY <1>0, <1>1, <1>2, <1>3 DEF WatchIsRight, WatchTypes, SideTypes
<1>CallTypes. CallTypes'
  BY <1>0, <1>2, <1>3 DEF CallTypes
<1>PendingWaits. PendingWaits'
  <2>1. \A u \in Side : \A p \in pendingReplies'[u] :
          u = OtherSide(t) /\ p \in pendingReplies[u] /\ p[2] \in RemoteCalls
    BY <1>0, <1>1, <1>4 DEF SideTypes
  <2>2. \A p \in pendingReplies[OtherSide(t)] : outcome'[p[2]] = "waiting"
    <3> SUFFICES ASSUME NEW p \in pendingReplies[OtherSide(t)], outcome'[p[2]] # "waiting" PROVE FALSE
      OBVIOUS
    <3>1. caller[p[2]] = OtherSide(t) /\ outcome[p[2]] = "waiting" /\ p[2] \in RemoteCalls
      BY <1>0, <1>1 DEF PendingWaits, SideTypes
    <3>2. PICK q \in pendingReplies[t] : q[2] = p[2]
      BY <1>5, <3>1
    <3> QED
      BY <1>0, <1>1, <3>1, <3>2 DEF PendingWaits
  <2> QED
    BY <1>0, <1>1, <1>2, <1>4, <2>1, <2>2 DEF PendingWaits
<1>WaitingPends. WaitingPends'
  <2>1. \A c \in RemoteCalls : caller[c] \in Side
    BY <1>0 DEF CallTypes
  <2> QED
    BY <1>0, <1>1, <1>2, <1>4, <1>5, <2>1 DEF WaitingPends
<1>for. \A u \in Side : \A n : For(u, n) /\ Of(n) \in RemoteCalls => For(u, n)'
  <2> SUFFICES ASSUME NEW u \in Side, NEW n, For(u, n), Of(n) \in RemoteCalls,
                      outcome'[Of(n)] = "waiting"
               PROVE  <<Req(n), Of(n)>> \in pendingReplies'[OtherSide(u)]
    BY <1>2, <1>5 DEF For
  <2>1. /\ <<Req(n), Of(n)>> \in pendingReplies[OtherSide(u)]
        /\ \A p \in pendingReplies[t] : p[2] # Of(n)
    BY <1>5 DEF For
  <2>2. OtherSide(u) \in Side
    BY Sides
  <2> QED
    BY <1>1, <1>4, <2>1, <2>2
<1>canc. Cancelling' \subseteq Cancelling
  BY <1>2, <1>5 DEF Cancelling
<1>mail. /\ InboxType' /\ SentOnce' /\ IdsGiven' /\ AckedAfter' /\ AskedFor' /\ CancelFollows'
         /\ \A u \in Side : Mails(u)' = Mails(u) /\ Owed(u)' = Owed(u)
  BY <1>0, <1>2, <1>for, <1>canc, KindsOfMail, KeepStep
<1>OwedCounted. OwedCounted'
  BY <1>0, <1>2, <1>mail, CountKept
<1>HandledFor. HandledFor'
  <2>1. \A u \in Side : \A h \in invoked[u] : Of(h) \in RemoteCalls
    BY <1>0 DEF SideTypes, Handler, Of
  <2> QED
    BY <1>0, <1>2, <1>for, <2>1 DEF HandledFor
<1>HandlersHear. HandlersHear'
  BY <1>0, <1>2, <1>4, <1>canc, <1>mail DEF HandlersHear
<1> QED
  BY <1>mail, <1>0, <1>SideTypes, <1>WatchTypes, <1>CallTypes, <1>OwedCounted, <1>WatchIsRight,
    <1>PendingWaits, <1>WaitingPends, <1>HandledFor, <1>HandlersHear DEF RInv

\* The invariant holds initially.
LEMMA RpcInitially ==
  ASSUME RpcInit
  PROVE  RInv
<1>1. /\ isDisposed = [s \in Side |-> FALSE] /\ lastMessageId = [s \in Side |-> 0]
      /\ pendingReplies = [s \in Side |-> {}] /\ invoked = [s \in Side |-> {}]
  BY DEF RpcInit
<1>2. /\ responsive = [s \in Side |-> TRUE] /\ unacknowledged = [s \in Side |-> 0]
      /\ late = [s \in Side |-> FALSE] /\ checking = [s \in Side |-> FALSE]
      /\ unwatched = {}
  BY DEF RpcInit
<1>3. inbox = [s \in Side |-> <<>>]
  BY DEF RpcInit
<1>4. /\ caller \in [RemoteCalls -> Side] /\ token \in [RemoteCalls -> {"none", "live"}]
      /\ outcome = [c \in RemoteCalls |-> "none"]
  BY DEF RpcInit
<1>5. \A s \in Side : Pos(s) = {} /\ Mails(s) = {}
  BY <1>3 DEF Pos, Mails
<1>6. \A s \in Side : Owed(s) = {}
  BY <1>5, Sides DEF Owed
<1>7. SideTypes
  BY <1>1 DEF SideTypes
<1>8. WatchTypes /\ WatchIsRight
  BY <1>2 DEF WatchTypes, WatchIsRight
<1>9. InboxType
  <2>1. <<>> \in Seq(Mail)
    OBVIOUS
  <2> QED
    BY <1>3, <2>1 DEF InboxType
<1>10. CallTypes
  BY <1>4 DEF CallTypes
<1>11. SentOnce /\ AckedAfter /\ CancelFollows /\ AskedFor /\ IdsGiven
  BY <1>5, <1>6, Sides DEF SentOnce, AckedAfter, CancelFollows, FollowsAt, AskedFor, IdsGiven
<1>12. OwedCounted
  <2>1. Cardinality({}) = 0
    BY FS_EmptySet
  <2> QED
    BY <1>2, <1>6, <2>1 DEF OwedCounted
<1>13. PendingWaits /\ WaitingPends /\ HandledFor /\ HandlersHear
  BY <1>1, <1>4 DEF PendingWaits, WaitingPends, HandledFor, HandlersHear
<1> QED
  BY <1>7, <1>8, <1>9, <1>10, <1>11, <1>12, <1>13 DEF RInv

\* A stuttering step keeps the invariant.
LEMMA RpcStutters ==
  ASSUME RInv, UNCHANGED rpcVars
  PROVE  RInv'
<1>1. /\ UNCHANGED <<isDisposed, lastMessageId, pendingReplies, invoked, responsive>>
      /\ UNCHANGED <<unacknowledged, late, checking, inbox, caller, token, outcome, unwatched>>
  BY DEF rpcVars
<1>2. /\ SideTypes /\ WatchTypes /\ InboxType /\ CallTypes
      /\ SentOnce /\ IdsGiven /\ AckedAfter /\ OwedCounted /\ WatchIsRight
      /\ PendingWaits /\ WaitingPends /\ AskedFor /\ HandledFor
      /\ CancelFollows /\ HandlersHear
  BY DEF RInv
<1>3. SideTypes' /\ WatchTypes' /\ CallTypes' /\ WatchIsRight'
  BY <1>1, <1>2 DEF SideTypes, WatchTypes, CallTypes, WatchIsRight
<1>4. PendingWaits' /\ WaitingPends'
  BY <1>1, <1>2 DEF PendingWaits, WaitingPends
<1>5. Cancelling' = Cancelling /\ \A u \in Side : \A n : For(u, n)' <=> For(u, n)
  BY <1>1 DEF Cancelling, For
<1>6. /\ InboxType' /\ SentOnce' /\ IdsGiven' /\ AckedAfter' /\ AskedFor' /\ CancelFollows'
      /\ \A u \in Side : Mails(u)' = Mails(u) /\ Owed(u)' = Owed(u)
  BY <1>1, <1>2, <1>5, KeepStep
<1>7. OwedCounted'
  BY <1>1, <1>2, <1>6, CountKept
<1>8. HandledFor' /\ HandlersHear'
  BY <1>1, <1>2, <1>5, <1>6 DEF HandledFor, HandlersHear
<1> QED
  BY <1>3, <1>4, <1>6, <1>7, <1>8 DEF RInv

\* Every step keeps the invariant.
LEMMA RpcStep ==
  ASSUME RInv, [RpcNext]_rpcVars
  PROVE  RInv'
<1>1. ASSUME NEW c \in RemoteCalls, RemoteCall(c) \/ RemoteCallOfNothing(c) \/ CancelToken(c)
      PROVE  RInv'
  BY <1>1, RemoteCallStep, RemoteCallOfNothingStep, CancelTokenStep
<1>2. ASSUME NEW s \in Side, ReceiveMessage(s)
      PROVE  RInv'
  BY <1>2, ReceiveRequestStep, ReceiveCancelStep, ReceiveAckStep, ReceiveReplyStep,
    ReceiveDisposedStep DEF ReceiveMessage
<1>3. ASSUME NEW s \in Side, HandlerEnds(s, "ok") \/ HandlerEnds(s, "error")
      PROVE  RInv'
  BY <1>3, HandlerEndsStep
<1>4. ASSUME NEW s \in Side, TimePasses(s) \/ CheckUnresponsive(s) \/ DisposeSide(s)
      PROVE  RInv'
  BY <1>4, TimePassesStep, CheckUnresponsiveStep, DisposeSideStep
<1>5. CASE UNCHANGED rpcVars
  BY <1>5, RpcStutters
<1> QED
  BY <1>1, <1>2, <1>3, <1>4, <1>5 DEF RpcNext

\* The inductive invariant of the calls holds, for any number of calls.
THEOREM RpcInvariant == RpcSpec => []RInv
<1>1. RpcInit => RInv
  BY RpcInitially
<1>2. RInv /\ [RpcNext]_rpcVars => RInv'
  BY RpcStep
<1> QED
  BY <1>1, <1>2, PTL DEF RpcSpec

\* A side says that the other does not respond only while it waits for an acknowledgement, and
\* watches while it waits: RPCProtocol._onWillSendRequest, _onDidReceiveAcknowledge and
\* _checkUnresponsive.
THEOREM WatchIsRightCorrect == RpcSpec => []WatchIsRight
<1>1. RInv => WatchIsRight
  BY DEF RInv
<1> QED
  BY <1>1, RpcInvariant, PTL

\* A call that is cancelled while its handler runs is cancelled at the handler, or the message is
\* on its way: RPCProtocol._remoteCall and _receiveCancel.
THEOREM CancelIsHeardCorrect == RpcSpec => []CancelIsHeard
<1>1. ASSUME RInv PROVE CancelIsHeard
  <2>1. SideTypes /\ InboxType /\ CallTypes /\ HandledFor /\ HandlersHear
    BY <1>1 DEF RInv
  <2> SUFFICES ASSUME NEW c \in RemoteCalls, outcome[c] = "waiting", token[c] = "cancelled",
                      NEW s \in Side, s = caller[c], NEW o \in Side, o = OtherSide(s),
                      ~isDisposed[o], NEW h \in invoked[o], h.of = c, ~h.cancelled
               PROVE  \E p \in pendingReplies[s] :
                        p[2] = c /\ CancelRequest(p[1]) \in ToSet(inbox[o])
    BY <2>1, Sides, Zenon DEF CancelIsHeard, CallTypes
  <2>2. h \in Handler /\ Of(h) = c /\ ~Told(h) /\ c \in Cancelling
    BY <2>1 DEF SideTypes, Of, Told, Cancelling
  <2>3. PICK m \in Mails(o) : IsCancel(m) /\ Req(m) = Req(h)
    BY <2>1, <2>2 DEF HandlersHear
  <2>4. <<Req(h), c>> \in pendingReplies[s]
    BY <2>1, <2>2, Sides DEF HandledFor, For
  <2>5. m = CancelRequest(Req(h))
    BY <2>1, <2>3, MailFacts DEF Mail, IsCancel, Req, CancelRequest
  <2>6. m \in ToSet(inbox[o])
    BY <2>1, <2>3 DEF InboxType, Mails, Pos, ToSet
  <2> QED
    BY <2>4, <2>5, <2>6
<1> QED
  BY <1>1, RpcInvariant, PTL

\* The calls that side s has made, or refused to make.
Made(s) == {c \in RemoteCalls : caller[c] = s /\ outcome[c] # "none"}

\* A side has numbered no more requests than it has made calls, and waits for no more
\* acknowledgements than that; what waits for a reply and what runs has one of the numbers.
Numbered ==
  \A s \in Side :
    /\ lastMessageId[s] <= Cardinality(Made(s))
    /\ unacknowledged[s] <= lastMessageId[s]
    /\ \A p \in pendingReplies[s] : p[1] \in 1 .. lastMessageId[s]
    /\ \A h \in invoked[s] : Req(h) \in 1 .. lastMessageId[OtherSide(s)]

\* The calls of a side are finitely many.
LEMMA MadeFinite ==
  ASSUME NEW s
  PROVE  /\ IsFiniteSet(Made(s)) /\ Cardinality(Made(s)) \in Nat
         /\ Cardinality(Made(s)) <= Cardinality(RemoteCalls)
<1>1. Made(s) \subseteq RemoteCalls
  BY DEF Made
<1> QED
  BY <1>1, CallsAreFinite, FS_Subset, FS_CardinalityType

\* No call is unmade.
LEMMA MadeGrows ==
  ASSUME NEW s, UNCHANGED caller,
         \A c \in RemoteCalls : outcome[c] # "none" => outcome'[c] # "none"
  PROVE  Cardinality(Made(s)) <= Cardinality(Made(s)')
<1>1. IsFiniteSet(Made(s)')
  <2>1. Made(s)' \subseteq RemoteCalls
    BY DEF Made
  <2> QED
    BY <2>1, CallsAreFinite, FS_Subset
<1>2. Made(s) \subseteq Made(s)'
  BY DEF Made
<1> QED
  BY <1>1, <1>2, FS_Subset

\* A step that numbers no request keeps Numbered.
LEMMA NumberedStays ==
  ASSUME SideTypes, WatchTypes, Numbered, WatchTypes',
         UNCHANGED <<caller, lastMessageId>>,
         \A c \in RemoteCalls : outcome[c] # "none" => outcome'[c] # "none",
         \A s \in Side : /\ unacknowledged'[s] <= unacknowledged[s]
                         /\ pendingReplies'[s] \subseteq pendingReplies[s]
                         /\ \A h \in invoked'[s] : Req(h) \in 1 .. lastMessageId[OtherSide(s)]
  PROVE  Numbered'
<1> SUFFICES ASSUME NEW s \in Side
             PROVE  /\ lastMessageId'[s] <= Cardinality(Made(s)')
                    /\ unacknowledged'[s] <= lastMessageId'[s]
                    /\ \A p \in pendingReplies'[s] : p[1] \in 1 .. lastMessageId'[s]
                    /\ \A h \in invoked'[s] : Req(h) \in 1 .. lastMessageId'[OtherSide(s)]
  BY DEF Numbered
<1>1. lastMessageId[s] \in Nat /\ unacknowledged[s] \in Nat /\ unacknowledged'[s] \in Nat
  BY DEF SideTypes, WatchTypes
<1>2. Cardinality(Made(s)) <= Cardinality(Made(s)')
  BY MadeGrows
<1>3. Cardinality(Made(s)) \in Nat /\ Cardinality(Made(s)') \in Nat
  <2>1. Made(s)' \subseteq RemoteCalls
    BY DEF Made
  <2> QED
    BY <2>1, MadeFinite, CallsAreFinite, FS_Subset, FS_CardinalityType
<1>4. lastMessageId'[s] <= Cardinality(Made(s)')
  BY <1>1, <1>2, <1>3 DEF Numbered
<1>5. unacknowledged'[s] <= lastMessageId'[s]
  BY <1>1 DEF Numbered
<1>6. \A p \in pendingReplies'[s] : p[1] \in 1 .. lastMessageId'[s]
  BY DEF Numbered
<1> QED
  BY <1>4, <1>5, <1>6

\* RemoteCall makes one call more and numbers one request more.
LEMMA RemoteCallNumbers ==
  ASSUME SideTypes, WatchTypes, CallTypes, Numbered, SideTypes', WatchTypes',
         NEW c \in RemoteCalls, RemoteCall(c)
  PROVE  Numbered'
<1> PICK s \in Side : s = caller[c]
  BY DEF CallTypes
<1> PICK o \in Side : o = OtherSide(s)
  BY Sides
<1>1. /\ outcome[c] = "none" /\ outcome' = [outcome EXCEPT ![c] = "waiting"]
      /\ lastMessageId' = [lastMessageId EXCEPT ![s] = lastMessageId[s] + 1]
      /\ pendingReplies' = [pendingReplies EXCEPT ![s] = @ \cup {<<lastMessageId[s] + 1, c>>}]
      /\ unacknowledged' = [unacknowledged EXCEPT ![s] = @ + 1]
      /\ UNCHANGED <<invoked, caller>>
  BY DEF RemoteCall, WillSendRequest
<1>2. /\ lastMessageId[s] \in Nat /\ unacknowledged[s] \in Nat
      /\ lastMessageId'[s] = lastMessageId[s] + 1 /\ lastMessageId'[o] = lastMessageId[o]
      /\ unacknowledged'[s] = unacknowledged[s] + 1 /\ unacknowledged'[o] = unacknowledged[o]
      /\ pendingReplies'[s] = pendingReplies[s] \cup {<<lastMessageId[s] + 1, c>>}
      /\ pendingReplies'[o] = pendingReplies[o]
      /\ lastMessageId[o] \in Nat
  BY <1>1, Sides DEF SideTypes, WatchTypes
<1>3. Made(s)' = Made(s) \cup {c} /\ c \notin Made(s)
  BY <1>1 DEF Made, CallTypes
<1>4. Cardinality(Made(s)') = Cardinality(Made(s)) + 1
  BY <1>3, MadeFinite, FS_AddElement
<1>5. Made(o)' = Made(o)
  BY <1>1, Sides DEF Made, CallTypes
<1>6. lastMessageId'[s] <= Cardinality(Made(s)') /\ unacknowledged'[s] <= lastMessageId'[s]
  BY <1>2, <1>4, MadeFinite DEF Numbered
<1>7. lastMessageId'[o] <= Cardinality(Made(o)') /\ unacknowledged'[o] <= lastMessageId'[o]
  BY <1>2, <1>5 DEF Numbered
<1>8. /\ \A p \in pendingReplies'[s] : p[1] \in 1 .. lastMessageId'[s]
      /\ \A p \in pendingReplies'[o] : p[1] \in 1 .. lastMessageId'[o]
  BY <1>2 DEF Numbered
<1>9. /\ \A h \in invoked'[s] : Req(h) \in 1 .. lastMessageId'[o]
      /\ \A h \in invoked'[o] : Req(h) \in 1 .. lastMessageId'[s]
  <2>1. /\ \A h \in invoked[s] : Req(h) \in 1 .. lastMessageId[o]
        /\ \A h \in invoked[o] : Req(h) \in 1 .. lastMessageId[s]
    BY Sides DEF Numbered
  <2> QED
    BY <1>1, <1>2, <2>1
<1>10. \A u \in Side : u = s \/ u = o
  BY Sides
<1>11. OtherSide(s) = o /\ OtherSide(o) = s
  BY Sides
<1> QED
  BY <1>6, <1>7, <1>8, <1>9, <1>10, <1>11 DEF Numbered

\* The number of a request under way is one of its sender.
LEMMA RequestNumbered ==
  ASSUME InboxType, IdsGiven, NEW s \in Side, inbox[s] # <<>>, IsAsk(Message(s))
  PROVE  Req(Message(s)) \in 1 .. lastMessageId[OtherSide(s)]
<1>1. 1 \in Pos(s) /\ Message(s) = inbox[s][1]
  BY DEF InboxType, Pos, Message
<1>2. Message(s) \in Mails(s)
  BY <1>1 DEF Mails
<1>3. Req(Message(s)) \in Owed(OtherSide(s))
  BY <1>2, Sides DEF Owed
<1> QED
  BY <1>3, Sides DEF IdsGiven

\* Every step keeps Numbered.
LEMMA NumberedStep ==
  ASSUME RInv, Numbered, RInv', [RpcNext]_rpcVars
  PROVE  Numbered'
<1>0. /\ SideTypes /\ WatchTypes /\ InboxType /\ CallTypes /\ IdsGiven
      /\ SideTypes' /\ WatchTypes'
  BY DEF RInv
<1>types. \A s \in Side : unacknowledged[s] \in Nat /\ unacknowledged[s] <= unacknowledged[s]
  BY <1>0 DEF WatchTypes
<1>runs. \A s \in Side : \A h \in invoked[s] : Req(h) \in 1 .. lastMessageId[OtherSide(s)]
  BY DEF Numbered
<1>1. ASSUME UNCHANGED <<caller, lastMessageId, unacknowledged, pendingReplies, outcome>>,
             \A s \in Side : \A h \in invoked'[s] : Req(h) \in 1 .. lastMessageId[OtherSide(s)]
      PROVE  Numbered'
  BY <1>0, <1>1, <1>types, NumberedStays
<1>2. ASSUME UNCHANGED <<caller, lastMessageId, unacknowledged, pendingReplies, invoked,
                         outcome>>
      PROVE  Numbered'
  BY <1>1, <1>2, <1>runs
<1>3. ASSUME NEW c \in RemoteCalls, RemoteCall(c)
      PROVE  Numbered'
  BY <1>0, <1>3, RemoteCallNumbers
<1>4. ASSUME NEW c \in RemoteCalls, RemoteCallOfNothing(c)
      PROVE  Numbered'
  <2>1. /\ outcome' = [outcome EXCEPT ![c] = "canceled"]
        /\ UNCHANGED <<caller, lastMessageId, unacknowledged, pendingReplies, invoked>>
    BY <1>4 DEF RemoteCallOfNothing, watchVars
  <2>2. \A d \in RemoteCalls : outcome[d] # "none" => outcome'[d] # "none"
    BY <1>0, <2>1 DEF CallTypes
  <2> QED
    BY <1>0, <1>types, <1>runs, <2>1, <2>2, NumberedStays
<1>5. ASSUME NEW c \in RemoteCalls, CancelToken(c)
      PROVE  Numbered'
  BY <1>2, <1>5 DEF CancelToken, watchVars
<1>6. ASSUME NEW s \in Side, ReceiveRequest(s)
      PROVE  Numbered'
  <2>1. UNCHANGED <<caller, lastMessageId, unacknowledged, pendingReplies, outcome>>
    BY <1>6 DEF ReceiveRequest, watchVars
  <2>2. IsAsk(Message(s)) /\ inbox[s] # <<>>
    BY <1>6 DEF ReceiveRequest, Receives, Message, IsAsk
  <2>3. Req(Message(s)) \in 1 .. lastMessageId[OtherSide(s)]
    BY <1>0, <2>2, RequestNumbered
  <2>4. \A u \in Side : \A h \in invoked'[u] :
          h \in invoked[u] \/ (u = s /\ Req(h) = Req(Message(s)))
    BY <1>0, <1>6 DEF ReceiveRequest, SideTypes, Req
  <2> QED
    BY <1>1, <1>runs, <2>1, <2>3, <2>4
<1>7. ASSUME NEW s \in Side, ReceiveCancel(s)
      PROVE  Numbered'
  <2>1. UNCHANGED <<caller, lastMessageId, unacknowledged, pendingReplies, outcome>>
    BY <1>7 DEF ReceiveCancel, watchVars
  <2>2. \A u \in Side : \A h \in invoked'[u] : \E g \in invoked[u] : Req(h) = Req(g)
    <3> PICK n : n = Message(s).req
      OBVIOUS
    <3>1. invoked' = [invoked EXCEPT ![s] =
            {IF h.req = n /\ h.cancellable THEN [h EXCEPT !.cancelled = TRUE] ELSE h : h \in @}]
      BY <1>7 DEF ReceiveCancel
    <3>2. \A h \in Handler : Req([h EXCEPT !.cancelled = TRUE]) = Req(h)
      BY DEF Handler, Req
    <3>3. \A u \in Side : invoked[u] \subseteq Handler
      BY <1>0 DEF SideTypes
    <3>4. ASSUME NEW h \in invoked'[s]
          PROVE  \E g \in invoked[s] : Req(h) = Req(g)
      <4>1. PICK g \in invoked[s] :
              h = IF g.req = n /\ g.cancellable THEN [g EXCEPT !.cancelled = TRUE] ELSE g
        BY <1>0, <3>1, <3>4 DEF SideTypes
      <4> QED
        BY <3>2, <3>3, <4>1
    <3>5. \A u \in Side : u # s => invoked'[u] = invoked[u]
      BY <1>0, <3>1 DEF SideTypes
    <3> QED
      BY <3>4, <3>5
  <2> QED
    BY <1>1, <1>runs, <2>1, <2>2
<1>8. ASSUME NEW s \in Side, ReceiveAck(s)
      PROVE  Numbered'
  <2>1. /\ unacknowledged' = [unacknowledged EXCEPT ![s] = @ - 1]
        /\ UNCHANGED <<caller, lastMessageId, pendingReplies, invoked, outcome>>
    BY <1>8 DEF ReceiveAck
  <2>2. \A u \in Side : unacknowledged'[u] <= unacknowledged[u]
    BY <1>0, <2>1 DEF WatchTypes
  <2> QED
    BY <1>0, <1>runs, <2>1, <2>2, NumberedStays
<1>9. ASSUME NEW s \in Side, ReceiveReply(s)
      PROVE  Numbered'
  <2>1. UNCHANGED <<caller, lastMessageId, unacknowledged, invoked>>
    BY <1>9 DEF ReceiveReply, watchVars
  <2>2. \A u \in Side : pendingReplies'[u] \subseteq pendingReplies[u]
    BY <1>0, <1>9 DEF ReceiveReply, SideTypes
  <2>3. Message(s).how # "none"
    <3>1. Message(s) \in Mail /\ Message(s).type = "reply"
      BY <1>0, <1>9 DEF ReceiveReply, Receives, Message, InboxType
    <3> QED
      BY <3>1 DEF Mail
  <2>4. \A c \in RemoteCalls : outcome[c] # "none" => outcome'[c] # "none"
    BY <1>9, <2>3 DEF ReceiveReply
  <2> QED
    BY <1>0, <1>types, <1>runs, <2>1, <2>2, <2>4, NumberedStays
<1>10. ASSUME NEW s \in Side, ReceiveDisposed(s)
       PROVE  Numbered'
  BY <1>2, <1>10 DEF ReceiveDisposed, watchVars
<1>11. ASSUME NEW s \in Side, NEW how, HandlerEnds(s, how)
       PROVE  Numbered'
  <2>1. UNCHANGED <<caller, lastMessageId, unacknowledged, pendingReplies, outcome>>
    BY <1>11 DEF HandlerEnds, watchVars
  <2>2. \A u \in Side : invoked'[u] \subseteq invoked[u]
    BY <1>0, <1>11 DEF HandlerEnds, SideTypes
  <2> QED
    BY <1>1, <1>runs, <2>1, <2>2
<1>12. ASSUME NEW s \in Side, TimePasses(s) \/ CheckUnresponsive(s)
       PROVE  Numbered'
  BY <1>2, <1>12 DEF TimePasses, CheckUnresponsive
<1>13. ASSUME NEW s \in Side, DisposeSide(s)
       PROVE  Numbered'
  <2>1. UNCHANGED <<caller, lastMessageId, unacknowledged, invoked>>
    BY <1>13 DEF DisposeSide
  <2>2. \A u \in Side : pendingReplies'[u] \subseteq pendingReplies[u]
    BY <1>0, <1>13 DEF DisposeSide, SideTypes
  <2>3. \A c \in RemoteCalls : outcome[c] # "none" => outcome'[c] # "none"
    BY <1>13 DEF DisposeSide
  <2> QED
    BY <1>0, <1>types, <1>runs, <2>1, <2>2, <2>3, NumberedStays
<1>14. CASE UNCHANGED rpcVars
  BY <1>2, <1>14 DEF rpcVars
<1> QED
  BY <1>3, <1>4, <1>5, <1>6, <1>7, <1>8, <1>9, <1>10, <1>11, <1>12, <1>13, <1>14
  DEF RpcNext, ReceiveMessage

\* The variables of both sides have their types: no side waits for more acknowledgements than
\* there are calls, and what waits and what runs has a number that was given.
THEOREM RpcTypesCorrect == RpcSpec => []RpcTypeOK
<1>1. RpcInit => RInv /\ Numbered
  <2>1. ASSUME RpcInit PROVE Numbered
    <3>1. \A s \in Side : /\ lastMessageId[s] = 0 /\ unacknowledged[s] = 0
                          /\ pendingReplies[s] = {} /\ invoked[s] = {}
      BY <2>1 DEF RpcInit
    <3> QED
      BY <3>1, MadeFinite DEF Numbered
  <2> QED
    BY <2>1, RpcInitially
<1>2. RInv /\ Numbered /\ [RpcNext]_rpcVars => (RInv /\ Numbered)'
  BY RpcStep, NumberedStep
<1>3. RInv /\ Numbered => RpcTypeOK
  <2> SUFFICES ASSUME SideTypes, WatchTypes, InboxType, CallTypes, Numbered
               PROVE  RpcTypeOK
    BY DEF RInv
  <2>1. \A s \in Side : /\ lastMessageId[s] \in 0 .. Cardinality(RemoteCalls)
                        /\ unacknowledged[s] \in 0 .. Cardinality(RemoteCalls)
    <3> SUFFICES ASSUME NEW s \in Side
                 PROVE  /\ lastMessageId[s] \in 0 .. Cardinality(RemoteCalls)
                        /\ unacknowledged[s] \in 0 .. Cardinality(RemoteCalls)
      OBVIOUS
    <3>1. lastMessageId[s] \in Nat /\ unacknowledged[s] \in Nat
      BY DEF SideTypes, WatchTypes
    <3>2. Cardinality(RemoteCalls) \in Nat
      BY CallsAreFinite, FS_CardinalityType
    <3> QED
      BY <3>1, <3>2, MadeFinite DEF Numbered
  <2>2. /\ lastMessageId \in [Side -> 0 .. Cardinality(RemoteCalls)]
        /\ unacknowledged \in [Side -> 0 .. Cardinality(RemoteCalls)]
    BY <2>1 DEF SideTypes, WatchTypes
  <2>3. \A s \in Side : pendingReplies[s] \subseteq (1 .. lastMessageId[s]) \X RemoteCalls
    BY DEF SideTypes, Numbered
  <2>4. \A s \in Side : \A h \in invoked[s] : h.req \in 1 .. lastMessageId[OtherSide(s)]
    BY DEF Numbered, Req
  <2>5. \A s \in Side : \A i \in DOMAIN inbox[s] :
          inbox[s][i].type \in {"request", "ack", "cancel", "reply"}
    <3>1. \A m \in Mail : m.type \in {"request", "ack", "cancel", "reply"}
      BY DEF Mail
    <3>2. \A s \in Side : \A i \in DOMAIN inbox[s] : inbox[s][i] \in Mail
      BY DEF InboxType
    <3> QED
      BY <3>1, <3>2
  <2> QED
    BY <2>2, <2>3, <2>4, <2>5 DEF RpcTypeOK, SideTypes, WatchTypes, CallTypes
<1> QED
  BY <1>1, <1>2, <1>3, PTL DEF RpcSpec

(***************************************************************************)
(* Channels.                                                               *)
(***************************************************************************)
\* The messages to the server; those that wait for Initialize; and the requests that wait for
\* their channel.
ToServer ==
  [type : {"promise", "cancel"}, id : Call] \cup [type : {"listen", "dispose"}, id : Listenable]
Asking == [type : {"promise"}, id : Call] \cup [type : {"listen"}, id : Listenable]
Waits == [type : {"promise"}, id : Call, timedOut : BOOLEAN]
           \cup [type : {"listen"}, id : Listenable, timedOut : BOOLEAN]

\* A message that asks to listen to event e, and one that gives it up.
Starts(m, e) == m.type = "listen" /\ m.id = e
Ends(m, e) == m.type = "dispose" /\ m.id = e

\* What the client keeps of its requests.
ClientTypes ==
  /\ state \in {"uninitialized", "idle"}
  /\ listened \subseteq Listenable
  /\ waiting \in Seq(Asking)
  /\ toServer \in Seq(ToServer)

\* What the server keeps of them.
ServerTypes ==
  /\ registered \in BOOLEAN
  /\ pendingRequests \in Seq(Waits)
  /\ serving \in [Call -> {"none", "running", "answered"}]
  /\ subscriptions \in [Listenable -> Nat]
  /\ activeRequests \subseteq Call \cup Listenable
  /\ lapsed \subseteq Listenable

\* A request to listen to e waits for the channel.
Pends(e) == \E i \in 1 .. Len(pendingRequests) : Starts(pendingRequests[i], e)
\* The events that the server listens to, or will once the channel comes.
Held == {e \in Listenable : e \in activeRequests \/ Pends(e)}

\* Before Initialize has come, the server knows of nothing.
NothingSentYet == state = "uninitialized" => Len(toServer) = 0 /\ Held = {}

\* Among the requests s there is one to listen to e if it is wanted, and none otherwise.
AskedOnce(s, e, wanted) ==
  /\ \A i \in 1 .. Len(s) : Starts(s[i], e) => e \in wanted
  /\ \A i, j \in 1 .. Len(s) : Starts(s[i], e) /\ Starts(s[j], e) => i = j
  /\ e \in wanted => \E i \in 1 .. Len(s) : Starts(s[i], e)

\* Until Initialize comes, what waits is what is listened to.
WaitsForInitialize ==
  /\ state = "idle" => Len(waiting) = 0
  /\ state = "uninitialized" => \A e \in Listenable : AskedOnce(waiting, e, listened)

\* No two of the requests s are to listen to e.
PendsOnce(s, e) ==
  \A i, j \in 1 .. Len(s) : Starts(s[i], e) /\ Starts(s[j], e) => i = j

\* A request that can be disposed has a listener.
ActiveListens == \A e \in Listenable : e \in activeRequests => subscriptions[e] > 0

\* Unless a disposal came too early, the server has each event once: as a listener that can be
\* disposed, or as a request that waits.
HeldOnce ==
  \A e \in Listenable \ lapsed :
    /\ subscriptions[e] = IF e \in activeRequests THEN 1 ELSE 0
    /\ ~(e \in activeRequests /\ Pends(e))
    /\ PendsOnce(pendingRequests, e)

\* The first message about e in line s fits what the server holds.
FirstFits(s, e, held) ==
  /\ \A i \in 1 .. Len(s) : Starts(s[i], e) /\ e \in held =>
       \E k \in 1 .. Len(s) : k < i /\ Ends(s[k], e)
  /\ \A i \in 1 .. Len(s) : Ends(s[i], e) /\ e \notin held =>
       \E k \in 1 .. Len(s) : k < i /\ Starts(s[k], e)

\* The last message about e in line s leads to what the client wants.
LastFits(s, e, wanted) ==
  /\ \A i \in 1 .. Len(s) : Starts(s[i], e) /\ e \notin wanted =>
       \E k \in 1 .. Len(s) : i < k /\ Ends(s[k], e)
  /\ \A i \in 1 .. Len(s) : Ends(s[i], e) /\ e \in wanted =>
       \E k \in 1 .. Len(s) : i < k /\ Starts(s[k], e)

\* Between two requests to listen to e is a disposal, and the other way round.
Alternates(s, e) ==
  /\ \A i, j \in 1 .. Len(s) : i < j /\ Starts(s[i], e) /\ Starts(s[j], e) =>
       \E k \in 1 .. Len(s) : i < k /\ k < j /\ Ends(s[k], e)
  /\ \A i, j \in 1 .. Len(s) : i < j /\ Ends(s[i], e) /\ Ends(s[j], e) =>
       \E k \in 1 .. Len(s) : i < k /\ k < j /\ Starts(s[k], e)

\* Without a message about e in line s, the server holds what the client wants.
NoneFits(s, e, held, wanted) ==
  (\A i \in 1 .. Len(s) : ~Starts(s[i], e) /\ ~Ends(s[i], e)) =>
    (e \in held <=> e \in wanted)

\* The messages about e in line s lead from what the server holds to what the client wants.
LineFits(s, e, held, wanted) ==
  /\ FirstFits(s, e, held)
  /\ LastFits(s, e, wanted)
  /\ Alternates(s, e)
  /\ NoneFits(s, e, held, wanted)

\* From Initialize on, the line to the server does so.
LineMatches ==
  state = "idle" => \A e \in Listenable \ lapsed : LineFits(toServer, e, Held, listened)

\* The inductive invariant.  OneSubscriptionEach is about an empty line; that it is kept needs
\* to know of every message in the line what it will find when it arrives.
ChannelInv ==
  /\ ClientTypes
  /\ ServerTypes
  /\ NothingSentYet
  /\ WaitsForInitialize
  /\ ActiveListens
  /\ HeldOnce
  /\ LineMatches

\* LineFits is about e only.
LEMMA FitsSameSets ==
  ASSUME NEW s, NEW e, NEW held, NEW wanted, NEW heldNow, NEW wantedNow,
         e \in heldNow <=> e \in held, e \in wantedNow <=> e \in wanted,
         LineFits(s, e, held, wanted)
  PROVE  LineFits(s, e, heldNow, wantedNow)
  BY DEF LineFits, FirstFits, LastFits, Alternates, NoneFits

\* A message about something else keeps the line fitting.
LEMMA FitsAppendOther ==
  ASSUME NEW S, NEW s \in Seq(S), NEW m \in S, NEW e, NEW held, NEW wanted,
         ~Starts(m, e), ~Ends(m, e), LineFits(s, e, held, wanted)
  PROVE  LineFits(Append(s, m), e, held, wanted)
<1> DEFINE line == Append(s, m)
<1>1. /\ Len(s) \in Nat
      /\ Len(line) = Len(s) + 1
      /\ \A i \in 1 .. Len(s) : line[i] = s[i]
      /\ line[Len(s) + 1] = m
  OBVIOUS
<1> HIDE DEF line
<1>2. FirstFits(line, e, held)
  BY <1>1 DEF LineFits, FirstFits
<1>3. LastFits(line, e, wanted)
  BY <1>1 DEF LineFits, LastFits
<1>4. Alternates(line, e)
  <2>1. ASSUME NEW i \in 1 .. Len(line), NEW j \in 1 .. Len(line), i < j,
               Starts(line[i], e), Starts(line[j], e)
        PROVE  \E k \in 1 .. Len(line) : i < k /\ k < j /\ Ends(line[k], e)
    BY <2>1, <1>1 DEF LineFits, Alternates
  <2>2. ASSUME NEW i \in 1 .. Len(line), NEW j \in 1 .. Len(line), i < j,
               Ends(line[i], e), Ends(line[j], e)
        PROVE  \E k \in 1 .. Len(line) : i < k /\ k < j /\ Starts(line[k], e)
    BY <2>2, <1>1 DEF LineFits, Alternates
  <2> QED BY <2>1, <2>2 DEF Alternates
<1>5. NoneFits(line, e, held, wanted)
  BY <1>1 DEF LineFits, NoneFits
<1> QED BY <1>2, <1>3, <1>4, <1>5 DEF LineFits, line

\* So does a request to listen to what is not wanted yet.
LEMMA FitsAppendStart ==
  ASSUME NEW S, NEW s \in Seq(S), NEW m \in S, NEW e, NEW held, NEW wanted,
         Starts(m, e), e \notin wanted, LineFits(s, e, held, wanted)
  PROVE  LineFits(Append(s, m), e, held, wanted \cup {e})
<1> DEFINE line == Append(s, m)
<1> DEFINE now == wanted \cup {e}
<1>1. /\ Len(s) \in Nat
      /\ Len(line) = Len(s) + 1
      /\ \A i \in 1 .. Len(s) : line[i] = s[i]
      /\ line[Len(s) + 1] = m
  OBVIOUS
<1>2. e \in now /\ ~Ends(m, e)
  BY DEF Starts, Ends
<1> HIDE DEF line, now
<1>3. \A i \in 1 .. Len(s) : Starts(s[i], e) => \E k \in 1 .. Len(s) : i < k /\ Ends(s[k], e)
  BY <1>1 DEF LineFits, LastFits
<1>4. e \in held => \E k \in 1 .. Len(s) : Ends(s[k], e)
  BY <1>1, <1>3 DEF LineFits, NoneFits
<1>5. FirstFits(line, e, held)
  BY <1>1, <1>2, <1>4 DEF LineFits, FirstFits
<1>6. LastFits(line, e, now)
  BY <1>1, <1>2 DEF LineFits, LastFits
<1>7. Alternates(line, e)
  <2>1. ASSUME NEW i \in 1 .. Len(line), NEW j \in 1 .. Len(line), i < j,
               Starts(line[i], e), Starts(line[j], e)
        PROVE  \E k \in 1 .. Len(line) : i < k /\ k < j /\ Ends(line[k], e)
    <3>1. i \in 1 .. Len(s)
      BY <2>1, <1>1
    <3>2. CASE j \in 1 .. Len(s)
      BY <2>1, <3>1, <3>2, <1>1 DEF LineFits, Alternates
    <3>3. CASE j = Len(s) + 1
      BY <2>1, <3>1, <3>3, <1>1, <1>3
    <3> QED
      BY <3>2, <3>3, <1>1
  <2>2. ASSUME NEW i \in 1 .. Len(line), NEW j \in 1 .. Len(line), i < j,
               Ends(line[i], e), Ends(line[j], e)
        PROVE  \E k \in 1 .. Len(line) : i < k /\ k < j /\ Starts(line[k], e)
    BY <2>2, <1>1, <1>2, <1>3 DEF LineFits, Alternates
  <2> QED BY <2>1, <2>2 DEF Alternates
<1>8. NoneFits(line, e, held, now)
  BY <1>1 DEF LineFits, NoneFits
<1> QED BY <1>5, <1>6, <1>7, <1>8 DEF LineFits, line, now

\* So does a disposal of what is wanted.
LEMMA FitsAppendEnd ==
  ASSUME NEW S, NEW s \in Seq(S), NEW m \in S, NEW e, NEW held, NEW wanted,
         Ends(m, e), e \in wanted, LineFits(s, e, held, wanted)
  PROVE  LineFits(Append(s, m), e, held, wanted \ {e})
<1> DEFINE line == Append(s, m)
<1> DEFINE now == wanted \ {e}
<1>1. /\ Len(s) \in Nat
      /\ Len(line) = Len(s) + 1
      /\ \A i \in 1 .. Len(s) : line[i] = s[i]
      /\ line[Len(s) + 1] = m
  OBVIOUS
<1>2. e \notin now /\ ~Starts(m, e)
  BY DEF Starts, Ends
<1> HIDE DEF line, now
<1>3. \A i \in 1 .. Len(s) : Ends(s[i], e) => \E k \in 1 .. Len(s) : i < k /\ Starts(s[k], e)
  BY <1>1 DEF LineFits, LastFits
<1>4. e \notin held => \E k \in 1 .. Len(s) : Starts(s[k], e)
  BY <1>1, <1>3 DEF LineFits, NoneFits
<1>5. FirstFits(line, e, held)
  BY <1>1, <1>2, <1>4 DEF LineFits, FirstFits
<1>6. LastFits(line, e, now)
  BY <1>1, <1>2 DEF LineFits, LastFits
<1>7. Alternates(line, e)
  <2>1. ASSUME NEW i \in 1 .. Len(line), NEW j \in 1 .. Len(line), i < j,
               Starts(line[i], e), Starts(line[j], e)
        PROVE  \E k \in 1 .. Len(line) : i < k /\ k < j /\ Ends(line[k], e)
    BY <2>1, <1>1, <1>2, <1>3 DEF LineFits, Alternates
  <2>2. ASSUME NEW i \in 1 .. Len(line), NEW j \in 1 .. Len(line), i < j,
               Ends(line[i], e), Ends(line[j], e)
        PROVE  \E k \in 1 .. Len(line) : i < k /\ k < j /\ Starts(line[k], e)
    <3>1. CASE j = Len(s) + 1
      BY <2>2, <1>1, <1>3, <3>1
    <3>2. CASE j # Len(s) + 1
      <4>1. PICK k \in 1 .. Len(s) : i < k /\ k < j /\ Starts(s[k], e)
        BY <2>2, <1>1, <3>2 DEF LineFits, Alternates
      <4> QED BY <4>1, <1>1
    <3> QED BY <3>1, <3>2
  <2> QED BY <2>1, <2>2 DEF Alternates
<1>8. NoneFits(line, e, held, now)
  BY <1>1 DEF LineFits, NoneFits
<1> QED BY <1>5, <1>6, <1>7, <1>8 DEF LineFits, line, now

\* What Tail does to a sequence, place by place.
LEMMA TailElements ==
  ASSUME NEW S, NEW s \in Seq(S), Len(s) > 0
  PROVE  /\ Tail(s) \in Seq(S)
         /\ Len(s) \in Nat
         /\ Len(Tail(s)) = Len(s) - 1
         /\ \A i \in 1 .. Len(s) - 1 : Tail(s)[i] = s[i + 1]
  OBVIOUS

\* When a message about something else arrives, the rest of the line fits.
LEMMA FitsTailOther ==
  ASSUME NEW S, NEW s \in Seq(S), Len(s) > 0, NEW e, NEW held, NEW wanted,
         ~Starts(s[1], e), ~Ends(s[1], e), LineFits(s, e, held, wanted)
  PROVE  LineFits(Tail(s), e, held, wanted)
<1> DEFINE line == Tail(s)
<1>1. /\ Len(s) \in Nat
      /\ Len(line) = Len(s) - 1
      /\ \A i \in 1 .. Len(line) : i + 1 \in 1 .. Len(s) /\ line[i] = s[i + 1]
      /\ \A i \in 1 .. Len(s) : i # 1 => i - 1 \in 1 .. Len(line) /\ line[i - 1] = s[i]
  BY TailElements
<1> HIDE DEF line
<1>2. FirstFits(line, e, held)
  <2>1. ASSUME NEW i \in 1 .. Len(line), Starts(line[i], e), e \in held
        PROVE  \E k \in 1 .. Len(line) : k < i /\ Ends(line[k], e)
    <3>1. PICK k \in 1 .. Len(s) : k < i + 1 /\ Ends(s[k], e)
      BY <1>1, <2>1 DEF LineFits, FirstFits
    <3>2. k # 1
      BY <3>1
    <3>3. k - 1 \in 1 .. Len(line) /\ k - 1 < i /\ Ends(line[k - 1], e)
      BY <1>1, <3>1, <3>2
    <3> QED BY <3>3
  <2>2. ASSUME NEW i \in 1 .. Len(line), Ends(line[i], e), e \notin held
        PROVE  \E k \in 1 .. Len(line) : k < i /\ Starts(line[k], e)
    <3>1. PICK k \in 1 .. Len(s) : k < i + 1 /\ Starts(s[k], e)
      BY <1>1, <2>2 DEF LineFits, FirstFits
    <3>2. k # 1
      BY <3>1
    <3>3. k - 1 \in 1 .. Len(line) /\ k - 1 < i /\ Starts(line[k - 1], e)
      BY <1>1, <3>1, <3>2
    <3> QED BY <3>3
  <2> QED BY <2>1, <2>2 DEF FirstFits
<1>3. LastFits(line, e, wanted)
  BY <1>1 DEF LineFits, LastFits
<1>4. Alternates(line, e)
  BY <1>1 DEF LineFits, Alternates
<1>5. NoneFits(line, e, held, wanted)
  <2>1. ASSUME \A i \in 1 .. Len(line) : ~Starts(line[i], e) /\ ~Ends(line[i], e)
        PROVE  \A i \in 1 .. Len(s) : ~Starts(s[i], e) /\ ~Ends(s[i], e)
    BY <1>1, <2>1
  <2> QED BY <2>1 DEF LineFits, NoneFits
<1> QED BY <1>2, <1>3, <1>4, <1>5 DEF LineFits, line

\* When a request to listen arrives, the server did not hold the event, and the rest of the line
\* fits when it does.
LEMMA FitsTailStart ==
  ASSUME NEW S, NEW s \in Seq(S), Len(s) > 0, NEW e, NEW held, NEW wanted, NEW heldNow,
         Starts(s[1], e), LineFits(s, e, held, wanted), e \in heldNow
  PROVE  e \notin held /\ LineFits(Tail(s), e, heldNow, wanted)
<1> DEFINE line == Tail(s)
<1>1. /\ Len(s) \in Nat
      /\ Len(line) = Len(s) - 1
      /\ 1 \in 1 .. Len(s)
      /\ \A i \in 1 .. Len(line) : i + 1 \in 1 .. Len(s) /\ line[i] = s[i + 1]
      /\ \A i \in 1 .. Len(s) : i # 1 => i - 1 \in 1 .. Len(line) /\ line[i - 1] = s[i]
  BY TailElements
<1> HIDE DEF line
<1>2. ~Ends(s[1], e)
  BY DEF Starts, Ends
<1>3. e \notin held
  BY <1>1 DEF LineFits, FirstFits
<1>4. FirstFits(line, e, heldNow)
  <2>1. ASSUME NEW i \in 1 .. Len(line), Starts(line[i], e)
        PROVE  \E k \in 1 .. Len(line) : k < i /\ Ends(line[k], e)
    <3>1. PICK k \in 1 .. Len(s) : k < i + 1 /\ Ends(s[k], e)
      BY <1>1, <2>1 DEF LineFits, Alternates
    <3>2. k # 1
      BY <1>1, <1>2, <3>1
    <3>3. k - 1 \in 1 .. Len(line) /\ k - 1 < i /\ Ends(line[k - 1], e)
      BY <1>1, <3>1, <3>2
    <3> QED BY <3>3
  <2> QED BY <2>1 DEF FirstFits
<1>5. LastFits(line, e, wanted)
  BY <1>1 DEF LineFits, LastFits
<1>6. Alternates(line, e)
  BY <1>1 DEF LineFits, Alternates
<1>7. NoneFits(line, e, heldNow, wanted)
  <2>1. ASSUME \A i \in 1 .. Len(line) : ~Starts(line[i], e) /\ ~Ends(line[i], e)
        PROVE  e \in wanted
    <3>1. SUFFICES ASSUME e \notin wanted PROVE FALSE
      OBVIOUS
    <3>2. PICK k \in 1 .. Len(s) : 1 < k /\ Ends(s[k], e)
      BY <1>1, <3>1 DEF LineFits, LastFits
    <3> QED BY <1>1, <2>1, <3>2
  <2> QED BY <2>1 DEF NoneFits
<1> QED BY <1>3, <1>4, <1>5, <1>6, <1>7 DEF LineFits, line

\* When a disposal arrives, the server held the event, and the rest of the line fits when it no
\* longer does.
LEMMA FitsTailEnd ==
  ASSUME NEW S, NEW s \in Seq(S), Len(s) > 0, NEW e, NEW held, NEW wanted, NEW heldNow,
         Ends(s[1], e), LineFits(s, e, held, wanted), e \notin heldNow
  PROVE  e \in held /\ LineFits(Tail(s), e, heldNow, wanted)
<1> DEFINE line == Tail(s)
<1>1. /\ Len(s) \in Nat
      /\ Len(line) = Len(s) - 1
      /\ 1 \in 1 .. Len(s)
      /\ \A i \in 1 .. Len(line) : i + 1 \in 1 .. Len(s) /\ line[i] = s[i + 1]
      /\ \A i \in 1 .. Len(s) : i # 1 => i - 1 \in 1 .. Len(line) /\ line[i - 1] = s[i]
  BY TailElements
<1> HIDE DEF line
<1>2. ~Starts(s[1], e)
  BY DEF Starts, Ends
<1>3. e \in held
  BY <1>1 DEF LineFits, FirstFits
<1>4. FirstFits(line, e, heldNow)
  <2>1. ASSUME NEW i \in 1 .. Len(line), Ends(line[i], e)
        PROVE  \E k \in 1 .. Len(line) : k < i /\ Starts(line[k], e)
    <3>1. PICK k \in 1 .. Len(s) : k < i + 1 /\ Starts(s[k], e)
      BY <1>1, <2>1 DEF LineFits, Alternates
    <3>2. k # 1
      BY <1>1, <1>2, <3>1
    <3>3. k - 1 \in 1 .. Len(line) /\ k - 1 < i /\ Starts(line[k - 1], e)
      BY <1>1, <3>1, <3>2
    <3> QED BY <3>3
  <2> QED BY <2>1 DEF FirstFits
<1>5. LastFits(line, e, wanted)
  BY <1>1 DEF LineFits, LastFits
<1>6. Alternates(line, e)
  BY <1>1 DEF LineFits, Alternates
<1>7. NoneFits(line, e, heldNow, wanted)
  <2>1. ASSUME \A i \in 1 .. Len(line) : ~Starts(line[i], e) /\ ~Ends(line[i], e)
        PROVE  e \notin wanted
    <3>1. SUFFICES ASSUME e \in wanted PROVE FALSE
      OBVIOUS
    <3>2. PICK k \in 1 .. Len(s) : 1 < k /\ Starts(s[k], e)
      BY <1>1, <3>1 DEF LineFits, LastFits
    <3> QED BY <1>1, <2>1, <3>2
  <2> QED BY <2>1 DEF NoneFits
<1> QED BY <1>3, <1>4, <1>5, <1>6, <1>7 DEF LineFits, line

\* What waited for Initialize fits a server that knows of nothing.
LEMMA FitsFirst ==
  ASSUME NEW s \in Seq(Asking), NEW e, NEW wanted, AskedOnce(s, e, wanted)
  PROVE  LineFits(s, e, {}, wanted)
<1>1. \A i \in 1 .. Len(s) : ~Ends(s[i], e)
  BY DEF Asking, Ends
<1> QED BY <1>1 DEF AskedOnce, LineFits, FirstFits, LastFits, Alternates, NoneFits

\* What RemoveAt does to a sequence, place by place.
LEMMA RemoveElements ==
  ASSUME NEW S, NEW s \in Seq(S), NEW n \in 1 .. Len(s)
  PROVE  /\ RemoveAt(s, n) \in Seq(S)
         /\ Len(s) \in Nat
         /\ Len(RemoveAt(s, n)) = Len(s) - 1
         /\ \A i \in 1 .. Len(s) - 1 : RemoveAt(s, n)[i] = IF i < n THEN s[i] ELSE s[i + 1]
<1>1. Len(s) \in Nat /\ n - 1 \in Nat /\ n + 1 \in Nat
  OBVIOUS
<1>2. /\ SubSeq(s, 1, n - 1) \in Seq(S)
      /\ Len(SubSeq(s, 1, n - 1)) = n - 1
      /\ \A i \in 1 .. n - 1 : SubSeq(s, 1, n - 1)[i] = s[i]
  BY <1>1, SubSeqProperties
<1>3. /\ SubSeq(s, n + 1, Len(s)) \in Seq(S)
      /\ Len(SubSeq(s, n + 1, Len(s))) = Len(s) - n
      /\ \A i \in 1 .. Len(s) - n : SubSeq(s, n + 1, Len(s))[i] = s[i + n]
  <2>1. CASE n = Len(s)
    BY <1>1, <2>1, SubSeqProperties
  <2>2. CASE n # Len(s)
    BY <1>1, <2>2, SubSeqProperties
  <2> QED BY <2>1, <2>2
<1> DEFINE first == SubSeq(s, 1, n - 1)
<1> DEFINE last == SubSeq(s, n + 1, Len(s))
<1> HIDE DEF first, last
<1>4. RemoveAt(s, n) = first \o last
  BY DEF RemoveAt, first, last
<1>5. first \in Seq(S) /\ last \in Seq(S) /\ Len(first) = n - 1 /\ Len(last) = Len(s) - n
  BY <1>2, <1>3 DEF first, last
<1>6. /\ first \o last \in Seq(S)
      /\ Len(first \o last) = Len(s) - 1
      /\ \A i \in 1 .. Len(s) - 1 :
           (first \o last)[i] = IF i < n THEN first[i] ELSE last[i - (n - 1)]
  <2>1. first \o last \in Seq(S) /\ Len(first \o last) = Len(s) - 1
    BY <1>1, <1>5
  <2>2. ASSUME NEW i \in 1 .. Len(s) - 1
        PROVE  (first \o last)[i] = IF i < n THEN first[i] ELSE last[i - (n - 1)]
    BY <1>1, <1>5
  <2> QED BY <2>1, <2>2
<1>7. \A i \in 1 .. Len(s) - 1 : i < n => first[i] = s[i]
  BY <1>1, <1>2 DEF first
<1>8. \A i \in 1 .. Len(s) - 1 : ~(i < n) => last[i - (n - 1)] = s[i + 1]
  <2>1. ASSUME NEW i \in 1 .. Len(s) - 1, ~(i < n)
        PROVE  last[i - (n - 1)] = s[i + 1]
    <3>1. i - (n - 1) \in 1 .. Len(s) - n /\ (i - (n - 1)) + n = i + 1
      BY <1>1, <2>1
    <3> QED BY <1>3, <3>1 DEF last
  <2> QED BY <2>1
<1> QED BY <1>1, <1>4, <1>6, <1>7, <1>8

\* AskedOnce when a request about something else is added.
LEMMA AskedAppendOther ==
  ASSUME NEW S, NEW s \in Seq(S), NEW m \in S, NEW e, NEW wanted, NEW wantedNow,
         ~Starts(m, e), e \in wantedNow <=> e \in wanted, AskedOnce(s, e, wanted)
  PROVE  AskedOnce(Append(s, m), e, wantedNow)
<1> DEFINE line == Append(s, m)
<1>1. /\ Len(s) \in Nat
      /\ Len(line) = Len(s) + 1
      /\ \A i \in 1 .. Len(s) : line[i] = s[i]
      /\ line[Len(s) + 1] = m
  OBVIOUS
<1> HIDE DEF line
<1> QED BY <1>1 DEF AskedOnce, line

\* AskedOnce when the request to listen is added.
LEMMA AskedAppendStart ==
  ASSUME NEW S, NEW s \in Seq(S), NEW m \in S, NEW e, NEW wanted, NEW wantedNow,
         Starts(m, e), e \notin wanted, e \in wantedNow, AskedOnce(s, e, wanted)
  PROVE  AskedOnce(Append(s, m), e, wantedNow)
<1> DEFINE line == Append(s, m)
<1>1. /\ Len(s) \in Nat
      /\ Len(line) = Len(s) + 1
      /\ \A i \in 1 .. Len(s) : line[i] = s[i]
      /\ line[Len(s) + 1] = m
  OBVIOUS
<1> HIDE DEF line
<1>2. \A i \in 1 .. Len(s) : ~Starts(s[i], e)
  BY DEF AskedOnce
<1> QED BY <1>1, <1>2 DEF AskedOnce, line

\* AskedOnce when a request about something else is taken back.
LEMMA AskedRemoveOther ==
  ASSUME NEW S, NEW s \in Seq(S), NEW n \in 1 .. Len(s), NEW e, NEW wanted, NEW wantedNow,
         ~Starts(s[n], e), e \in wantedNow <=> e \in wanted, AskedOnce(s, e, wanted)
  PROVE  AskedOnce(RemoveAt(s, n), e, wantedNow)
<1> DEFINE line == RemoveAt(s, n)
<1>1. /\ Len(s) \in Nat
      /\ Len(line) = Len(s) - 1
      /\ \A i \in 1 .. Len(s) - 1 : line[i] = IF i < n THEN s[i] ELSE s[i + 1]
  BY RemoveElements
<1> HIDE DEF line
<1>2. \A i \in 1 .. Len(line) : Starts(line[i], e) => e \in wantedNow
  BY <1>1 DEF AskedOnce
<1>3. \A i, j \in 1 .. Len(line) : Starts(line[i], e) /\ Starts(line[j], e) => i = j
  BY <1>1 DEF AskedOnce
<1>4. ASSUME e \in wantedNow
      PROVE  \E i \in 1 .. Len(line) : Starts(line[i], e)
  <2>1. PICK i \in 1 .. Len(s) : Starts(s[i], e)
    BY <1>4 DEF AskedOnce
  <2>2. CASE i < n
    BY <1>1, <2>1, <2>2
  <2>3. CASE ~(i < n)
    <3>1. i - 1 \in 1 .. Len(line) /\ ~(i - 1 < n) /\ (i - 1) + 1 = i
      BY <1>1, <2>1, <2>3
    <3> QED BY <1>1, <2>1, <3>1
  <2> QED BY <2>2, <2>3
<1> QED BY <1>2, <1>3, <1>4 DEF AskedOnce, line

\* AskedOnce when the request to listen is taken back.
LEMMA AskedRemoveStart ==
  ASSUME NEW S, NEW s \in Seq(S), NEW n \in 1 .. Len(s), NEW e, NEW wanted, NEW wantedNow,
         Starts(s[n], e), e \notin wantedNow, AskedOnce(s, e, wanted)
  PROVE  AskedOnce(RemoveAt(s, n), e, wantedNow)
<1> DEFINE line == RemoveAt(s, n)
<1>1. /\ Len(s) \in Nat
      /\ Len(line) = Len(s) - 1
      /\ \A i \in 1 .. Len(s) - 1 : line[i] = IF i < n THEN s[i] ELSE s[i + 1]
  BY RemoveElements
<1> HIDE DEF line
<1>2. \A i \in 1 .. Len(line) : ~Starts(line[i], e)
  BY <1>1 DEF AskedOnce
<1> QED BY <1>2 DEF AskedOnce, line

\* A step of the client leaves the server as it is.
LEMMA ServerFrame ==
  ASSUME ChannelInv, ServerUnchanged, UNCHANGED lapsed
  PROVE  ServerTypes' /\ ActiveListens' /\ HeldOnce' /\ Held' = Held
<1>1. UNCHANGED <<registered, pendingRequests, serving, subscriptions, activeRequests, lapsed>>
  BY DEF ServerUnchanged
<1>2. ServerTypes'
  BY <1>1 DEF ChannelInv, ServerTypes
<1>3. Held' = Held
  BY <1>1 DEF Held, Pends
<1>4. HeldOnce'
  BY <1>1 DEF ChannelInv, HeldOnce, Pends
<1>5. ActiveListens'
  BY <1>1 DEF ChannelInv, ActiveListens
<1> QED BY <1>2, <1>3, <1>4, <1>5

\* A step of the server leaves the client as it is.
LEMMA ClientFrame ==
  ASSUME ChannelInv, ClientUnchanged
  PROVE  /\ WaitsForInitialize'
         /\ UNCHANGED <<state, listened>>
         /\ UNCHANGED toServer => ClientTypes'
<1>1. UNCHANGED <<state, listened, waiting>>
  BY DEF ClientUnchanged
<1>2. WaitsForInitialize'
  BY <1>1 DEF ChannelInv, WaitsForInitialize
<1>3. UNCHANGED toServer => ClientTypes'
  BY <1>1 DEF ChannelInv, ClientTypes
<1> QED BY <1>1, <1>2, <1>3

\* A stuttering step keeps the invariant.
LEMMA ChannelStutters ==
  ASSUME ChannelInv, UNCHANGED channelVars
  PROVE  ChannelInv'
<1>1. ServerUnchanged /\ ClientUnchanged /\ UNCHANGED <<toServer, lapsed>>
  BY DEF channelVars, ServerUnchanged, ClientUnchanged
<1>2. ServerTypes' /\ ActiveListens' /\ HeldOnce' /\ Held' = Held
  BY <1>1, ServerFrame
<1>3. ClientTypes' /\ WaitsForInitialize' /\ UNCHANGED <<state, listened>>
  BY <1>1, ClientFrame
<1>4. NothingSentYet'
  BY <1>1, <1>2, <1>3 DEF ChannelInv, NothingSentYet
<1>5. LineMatches'
  BY <1>1, <1>2, <1>3 DEF ChannelInv, LineMatches
<1> QED BY <1>2, <1>3, <1>4, <1>5 DEF ChannelInv

\* RequestPromise keeps the invariant.
LEMMA RequestPromiseKeeps ==
  ASSUME ChannelInv, NEW c \in Call, RequestPromise(c)
  PROVE  ChannelInv'
<1> DEFINE m == Request("promise", c)
<1>1. m \in ToServer /\ m \in Asking /\ \A e : ~Starts(m, e) /\ ~Ends(m, e)
  BY DEF Request, ToServer, Asking, Starts, Ends
<1>2. /\ IF state = "idle" THEN toServer' = Append(toServer, m) /\ UNCHANGED waiting
                           ELSE waiting' = Append(waiting, m) /\ UNCHANGED toServer
      /\ ServerUnchanged
      /\ UNCHANGED <<state, listened, lapsed>>
  BY DEF RequestPromise, DoRequest
<1> HIDE DEF m
<1>3. ServerTypes' /\ ActiveListens' /\ HeldOnce' /\ Held' = Held
  BY <1>2, ServerFrame
<1>4. toServer \in Seq(ToServer) /\ waiting \in Seq(Asking)
  BY DEF ChannelInv, ClientTypes
<1>5. ClientTypes'
  <2>1. toServer' \in Seq(ToServer)
    BY <1>1, <1>2, <1>4
  <2>2. waiting' \in Seq(Asking)
    BY <1>1, <1>2, <1>4
  <2> QED BY <1>2, <2>1, <2>2 DEF ChannelInv, ClientTypes
<1>6. NothingSentYet'
  BY <1>2, <1>3 DEF ChannelInv, NothingSentYet
<1>7. WaitsForInitialize'
  <2>1. CASE state = "idle"
    BY <1>2, <2>1 DEF ChannelInv, WaitsForInitialize
  <2>2. CASE state # "idle"
    <3>1. ASSUME NEW e \in Listenable, state = "uninitialized"
          PROVE  AskedOnce(waiting, e, listened)'
      <4>1. AskedOnce(waiting, e, listened)
        BY <3>1 DEF ChannelInv, WaitsForInitialize
      <4>2. AskedOnce(Append(waiting, m), e, listened)
        BY <1>1, <1>4, <4>1, AskedAppendOther
      <4> QED BY <1>2, <2>2, <4>2
    <3> QED BY <1>2, <2>2, <3>1 DEF WaitsForInitialize
  <2> QED BY <2>1, <2>2
<1>8. LineMatches'
  <2>1. ASSUME NEW e \in Listenable \ lapsed, state = "idle"
        PROVE  LineFits(toServer, e, Held, listened)'
    <3>1. LineFits(toServer, e, Held, listened)
      BY <2>1 DEF ChannelInv, LineMatches
    <3>2. LineFits(Append(toServer, m), e, Held, listened)
      BY <1>1, <1>4, <3>1, FitsAppendOther
    <3> QED BY <1>2, <1>3, <2>1, <3>2
  <2> QED BY <1>2, <2>1 DEF LineMatches
<1> QED BY <1>3, <1>5, <1>6, <1>7, <1>8 DEF ChannelInv

\* Cancel keeps the invariant.
LEMMA CancelKeeps ==
  ASSUME ChannelInv, NEW c \in Call, Cancel(c)
  PROVE  ChannelInv'
<1> DEFINE m == Request("cancel", c)
<1> DEFINE ask == Request("promise", c)
<1>1. /\ m \in ToServer
      /\ \A e : ~Starts(m, e) /\ ~Ends(m, e) /\ ~Starts(ask, e)
  BY DEF Request, ToServer, Starts, Ends
<1>2. /\ state = "idle" => toServer' = Append(toServer, m) /\ UNCHANGED waiting
      /\ state # "idle" => /\ \E n \in DOMAIN waiting :
                                waiting[n] = ask /\ waiting' = RemoveAt(waiting, n)
                           /\ UNCHANGED toServer
      /\ ServerUnchanged
      /\ UNCHANGED <<state, listened, lapsed>>
  BY DEF Cancel, Withdraw
<1> HIDE DEF m, ask
<1>3. ServerTypes' /\ ActiveListens' /\ HeldOnce' /\ Held' = Held
  BY <1>2, ServerFrame
<1>4. toServer \in Seq(ToServer) /\ waiting \in Seq(Asking) /\ DOMAIN waiting = 1 .. Len(waiting)
  BY DEF ChannelInv, ClientTypes
<1>5. ClientTypes'
  <2>1. toServer' \in Seq(ToServer)
    BY <1>1, <1>2, <1>4
  <2>2. waiting' \in Seq(Asking)
    BY <1>2, <1>4, RemoveElements
  <2> QED BY <1>2, <2>1, <2>2 DEF ChannelInv, ClientTypes
<1>6. NothingSentYet'
  BY <1>2, <1>3 DEF ChannelInv, NothingSentYet
<1>7. WaitsForInitialize'
  <2>1. CASE state = "idle"
    BY <1>2, <2>1 DEF ChannelInv, WaitsForInitialize
  <2>2. CASE state # "idle"
    <3>1. ASSUME NEW e \in Listenable, state = "uninitialized"
          PROVE  AskedOnce(waiting, e, listened)'
      <4>1. AskedOnce(waiting, e, listened)
        BY <3>1 DEF ChannelInv, WaitsForInitialize
      <4>2. PICK n \in 1 .. Len(waiting) :
              waiting[n] = ask /\ waiting' = RemoveAt(waiting, n)
        BY <1>2, <1>4, <2>2
      <4>3. AskedOnce(RemoveAt(waiting, n), e, listened)
        BY <1>1, <1>4, <4>1, <4>2, AskedRemoveOther
      <4> QED BY <1>2, <2>2, <4>2, <4>3
    <3> QED BY <1>2, <2>2, <3>1 DEF WaitsForInitialize
  <2> QED BY <2>1, <2>2
<1>8. LineMatches'
  <2>1. ASSUME NEW e \in Listenable \ lapsed, state = "idle"
        PROVE  LineFits(toServer, e, Held, listened)'
    <3>1. LineFits(toServer, e, Held, listened)
      BY <2>1 DEF ChannelInv, LineMatches
    <3>2. LineFits(Append(toServer, m), e, Held, listened)
      BY <1>1, <1>4, <3>1, FitsAppendOther
    <3> QED BY <1>2, <1>3, <2>1, <3>2
  <2> QED BY <1>2, <2>1 DEF LineMatches
<1> QED BY <1>3, <1>5, <1>6, <1>7, <1>8 DEF ChannelInv

\* Listen keeps the invariant.
LEMMA ListenKeeps ==
  ASSUME ChannelInv, NEW f \in Listenable, Listen(f)
  PROVE  ChannelInv'
<1> DEFINE m == Request("listen", f)
<1>1. /\ m \in ToServer /\ m \in Asking /\ Starts(m, f) /\ \A e : ~Ends(m, e)
      /\ \A e : e # f => ~Starts(m, e)
  BY DEF Request, ToServer, Asking, Starts, Ends
<1>2. /\ IF state = "idle" THEN toServer' = Append(toServer, m) /\ UNCHANGED waiting
                           ELSE waiting' = Append(waiting, m) /\ UNCHANGED toServer
      /\ ServerUnchanged
      /\ UNCHANGED <<state, lapsed>>
      /\ f \notin listened /\ listened' = listened \cup {f}
  BY DEF Listen, DoRequest
<1> HIDE DEF m
<1>3. ServerTypes' /\ ActiveListens' /\ HeldOnce' /\ Held' = Held
  BY <1>2, ServerFrame
<1>4. toServer \in Seq(ToServer) /\ waiting \in Seq(Asking)
  BY DEF ChannelInv, ClientTypes
<1>5. ClientTypes'
  <2>1. toServer' \in Seq(ToServer)
    BY <1>1, <1>2, <1>4
  <2>2. waiting' \in Seq(Asking)
    BY <1>1, <1>2, <1>4
  <2> QED BY <1>2, <2>1, <2>2 DEF ChannelInv, ClientTypes
<1>6. NothingSentYet'
  BY <1>2, <1>3 DEF ChannelInv, NothingSentYet
<1>7. WaitsForInitialize'
  <2>1. CASE state = "idle"
    BY <1>2, <2>1 DEF ChannelInv, WaitsForInitialize
  <2>2. CASE state # "idle"
    <3>1. ASSUME NEW e \in Listenable, state = "uninitialized"
          PROVE  AskedOnce(waiting, e, listened)'
      <4>1. AskedOnce(waiting, e, listened)
        BY <3>1 DEF ChannelInv, WaitsForInitialize
      <4>2. AskedOnce(Append(waiting, m), e, listened')
        <5>1. CASE e = f
          BY <1>1, <1>2, <1>4, <4>1, <5>1, AskedAppendStart
        <5>2. CASE e # f
          BY <1>1, <1>2, <1>4, <4>1, <5>2, AskedAppendOther
        <5> QED BY <5>1, <5>2
      <4> QED BY <1>2, <2>2, <4>2
    <3> QED BY <1>2, <2>2, <3>1 DEF WaitsForInitialize
  <2> QED BY <2>1, <2>2
<1>8. LineMatches'
  <2>1. ASSUME NEW e \in Listenable \ lapsed, state = "idle"
        PROVE  LineFits(toServer, e, Held, listened)'
    <3>1. LineFits(toServer, e, Held, listened)
      BY <2>1 DEF ChannelInv, LineMatches
    <3>2. LineFits(Append(toServer, m), e, Held, listened \cup {f})
      <4>1. CASE e = f
        BY <1>1, <1>2, <1>4, <3>1, <4>1, FitsAppendStart
      <4>2. CASE e # f
        <5>1. LineFits(Append(toServer, m), e, Held, listened)
          BY <1>1, <1>4, <3>1, <4>2, FitsAppendOther
        <5>2. e \in listened \cup {f} <=> e \in listened
          BY <4>2
        <5> QED BY <5>1, <5>2, FitsSameSets
      <4> QED BY <4>1, <4>2
    <3> QED BY <1>2, <1>3, <2>1, <3>2
  <2> QED BY <1>2, <2>1 DEF LineMatches
<1> QED BY <1>3, <1>5, <1>6, <1>7, <1>8 DEF ChannelInv

\* Unlisten keeps the invariant.
LEMMA UnlistenKeeps ==
  ASSUME ChannelInv, NEW f \in Listenable, Unlisten(f)
  PROVE  ChannelInv'
<1> DEFINE m == Request("dispose", f)
<1> DEFINE ask == Request("listen", f)
<1>1. /\ m \in ToServer /\ Ends(m, f) /\ Starts(ask, f) /\ \A e : ~Starts(m, e)
      /\ \A e : e # f => ~Ends(m, e) /\ ~Starts(ask, e)
  BY DEF Request, ToServer, Starts, Ends
<1>2. /\ state = "idle" => toServer' = Append(toServer, m) /\ UNCHANGED waiting
      /\ state # "idle" => /\ \E n \in DOMAIN waiting :
                                waiting[n] = ask /\ waiting' = RemoveAt(waiting, n)
                           /\ UNCHANGED toServer
      /\ ServerUnchanged
      /\ UNCHANGED <<state, lapsed>>
      /\ f \in listened /\ listened' = listened \ {f}
  BY DEF Unlisten, Withdraw
<1> HIDE DEF m, ask
<1>3. ServerTypes' /\ ActiveListens' /\ HeldOnce' /\ Held' = Held
  BY <1>2, ServerFrame
<1>4. toServer \in Seq(ToServer) /\ waiting \in Seq(Asking) /\ DOMAIN waiting = 1 .. Len(waiting)
  BY DEF ChannelInv, ClientTypes
<1>5. ClientTypes'
  <2>1. toServer' \in Seq(ToServer)
    BY <1>1, <1>2, <1>4
  <2>2. waiting' \in Seq(Asking)
    BY <1>2, <1>4, RemoveElements
  <2> QED BY <1>2, <2>1, <2>2 DEF ChannelInv, ClientTypes
<1>6. NothingSentYet'
  BY <1>2, <1>3 DEF ChannelInv, NothingSentYet
<1>7. WaitsForInitialize'
  <2>1. CASE state = "idle"
    BY <1>2, <2>1 DEF ChannelInv, WaitsForInitialize
  <2>2. CASE state # "idle"
    <3>1. ASSUME NEW e \in Listenable, state = "uninitialized"
          PROVE  AskedOnce(waiting, e, listened)'
      <4>1. AskedOnce(waiting, e, listened)
        BY <3>1 DEF ChannelInv, WaitsForInitialize
      <4>2. PICK n \in 1 .. Len(waiting) :
              waiting[n] = ask /\ waiting' = RemoveAt(waiting, n)
        BY <1>2, <1>4, <2>2
      <4>3. AskedOnce(RemoveAt(waiting, n), e, listened')
        <5>1. CASE e = f
          BY <1>1, <1>2, <1>4, <4>1, <4>2, <5>1, AskedRemoveStart
        <5>2. CASE e # f
          BY <1>1, <1>2, <1>4, <4>1, <4>2, <5>2, AskedRemoveOther
        <5> QED BY <5>1, <5>2
      <4> QED BY <1>2, <2>2, <4>2, <4>3
    <3> QED BY <1>2, <2>2, <3>1 DEF WaitsForInitialize
  <2> QED BY <2>1, <2>2
<1>8. LineMatches'
  <2>1. ASSUME NEW e \in Listenable \ lapsed, state = "idle"
        PROVE  LineFits(toServer, e, Held, listened)'
    <3>1. LineFits(toServer, e, Held, listened)
      BY <2>1 DEF ChannelInv, LineMatches
    <3>2. LineFits(Append(toServer, m), e, Held, listened \ {f})
      <4>1. CASE e = f
        BY <1>1, <1>2, <1>4, <3>1, <4>1, FitsAppendEnd
      <4>2. CASE e # f
        <5>1. LineFits(Append(toServer, m), e, Held, listened)
          BY <1>1, <1>4, <3>1, <4>2, FitsAppendOther
        <5>2. e \in listened \ {f} <=> e \in listened
          BY <4>2
        <5> QED BY <5>1, <5>2, FitsSameSets
      <4> QED BY <4>1, <4>2
    <3> QED BY <1>2, <1>3, <2>1, <3>2
  <2> QED BY <1>2, <2>1 DEF LineMatches
<1> QED BY <1>3, <1>5, <1>6, <1>7, <1>8 DEF ChannelInv

\* ClientReceives keeps the invariant.
LEMMA ClientReceivesKeeps ==
  ASSUME ChannelInv, ClientReceives
  PROVE  ChannelInv'
<1>1. ServerUnchanged /\ UNCHANGED <<listened, lapsed>>
  BY DEF ClientReceives
<1>2. ServerTypes' /\ ActiveListens' /\ HeldOnce' /\ Held' = Held
  BY <1>1, ServerFrame
<1>3. /\ toServer \in Seq(ToServer) /\ waiting \in Seq(Asking)
      /\ state \in {"uninitialized", "idle"}
  BY DEF ChannelInv, ClientTypes
<1>4. CASE UNCHANGED <<state, toServer, waiting>>
  <2>1. ClientTypes'
    BY <1>1, <1>4 DEF ChannelInv, ClientTypes
  <2>2. WaitsForInitialize'
    BY <1>1, <1>4 DEF ChannelInv, WaitsForInitialize
  <2>3. NothingSentYet'
    BY <1>2, <1>4 DEF ChannelInv, NothingSentYet
  <2>4. LineMatches'
    BY <1>1, <1>2, <1>4 DEF ChannelInv, LineMatches
  <2> QED BY <1>2, <2>1, <2>2, <2>3, <2>4 DEF ChannelInv
<1>5. CASE state' = "idle" /\ toServer' = toServer \o waiting /\ waiting' = <<>>
  <2>1. waiting \in Seq(ToServer)
    BY <1>3 DEF Asking, ToServer
  <2>2. ClientTypes'
    BY <1>1, <1>3, <1>5, <2>1 DEF ChannelInv, ClientTypes
  <2>3. WaitsForInitialize'
    BY <1>5 DEF WaitsForInitialize
  <2>4. NothingSentYet'
    BY <1>5 DEF NothingSentYet
  <2>5. ASSUME NEW e \in Listenable \ lapsed
        PROVE  LineFits(toServer', e, Held, listened)
    <3>1. CASE state = "idle"
      <4>1. waiting = <<>>
        BY <1>3, <3>1 DEF ChannelInv, WaitsForInitialize
      <4>2. toServer' = toServer
        BY <1>3, <1>5, <4>1
      <4> QED BY <3>1, <4>2 DEF ChannelInv, LineMatches
    <3>2. CASE state = "uninitialized"
      <4>1. toServer = <<>> /\ Held = {}
        BY <1>3, <3>2 DEF ChannelInv, NothingSentYet
      <4>2. toServer' = waiting
        BY <1>3, <1>5, <4>1
      <4>3. AskedOnce(waiting, e, listened)
        BY <3>2 DEF ChannelInv, WaitsForInitialize
      <4>4. LineFits(waiting, e, {}, listened)
        BY <1>3, <4>3, FitsFirst
      <4> QED BY <4>1, <4>2, <4>4
    <3> QED BY <1>3, <3>1, <3>2
  <2>6. LineMatches'
    BY <1>1, <1>2, <2>5 DEF LineMatches
  <2> QED BY <1>2, <2>2, <2>3, <2>4, <2>6 DEF ChannelInv
<1> QED BY <1>4, <1>5 DEF ClientReceives

\* What RunAll does: a request to listen makes the event active, and adds one listener if it is
\* the only one.
LEMMA RunAllActs ==
  ASSUME NEW requests \in Seq(Waits \cup Asking), ServerTypes, RunAll(requests)
  PROVE  /\ serving' \in [Call -> {"none", "running", "answered"}]
         /\ subscriptions' \in [Listenable -> Nat]
         /\ activeRequests' \subseteq Call \cup Listenable
         /\ \A e \in Listenable :
              e \in activeRequests' <=>
                e \in activeRequests \/ \E i \in 1 .. Len(requests) : Starts(requests[i], e)
         /\ \A e \in Listenable :
              (\A i \in 1 .. Len(requests) : ~Starts(requests[i], e)) =>
                subscriptions'[e] = subscriptions[e]
         /\ \A e \in Listenable :
              /\ PendsOnce(requests, e)
              /\ \E i \in 1 .. Len(requests) : Starts(requests[i], e)
              => subscriptions'[e] = subscriptions[e] + 1
         /\ ActiveListens => ActiveListens'
<1> DEFINE Asked(type, id) ==
      {i \in DOMAIN requests : requests[i].type = type /\ requests[i].id = id}
<1>1. /\ serving' = [c \in Call |-> IF Asked("promise", c) # {} THEN "running" ELSE serving[c]]
      /\ subscriptions' = [e \in Listenable |->
           subscriptions[e] + Cardinality(Asked("listen", e))]
      /\ activeRequests' = activeRequests \cup {requests[i].id : i \in DOMAIN requests}
  BY DEF RunAll
<1>2. DOMAIN requests = 1 .. Len(requests) /\ Len(requests) \in Nat
  OBVIOUS
<1>3. \A e \in Listenable : Asked("listen", e) = {i \in 1 .. Len(requests) : Starts(requests[i], e)}
  BY <1>2 DEF Starts
<1>4. \A e \in Listenable : Cardinality(Asked("listen", e)) \in Nat
  <2>1. IsFiniteSet(1 .. Len(requests))
    BY <1>2, FS_Interval
  <2>2. \A e \in Listenable : Asked("listen", e) \subseteq 1 .. Len(requests)
    BY <1>2
  <2> QED BY <2>1, <2>2, FS_Subset, FS_CardinalityType
<1> HIDE DEF Asked
<1>5. \A i \in 1 .. Len(requests) : requests[i].id \in Call \cup Listenable
  BY <1>2 DEF Waits, Asking
<1>6. \A i \in 1 .. Len(requests) : \A e \in Listenable :
        requests[i].id = e <=> Starts(requests[i], e)
  <2>1. \A i \in 1 .. Len(requests) : requests[i] \in Waits \cup Asking
    BY <1>2
  <2> QED BY <2>1, DistinctIds DEF Waits, Asking, Starts
<1>7. serving' \in [Call -> {"none", "running", "answered"}]
  BY <1>1 DEF ServerTypes
<1>8. subscriptions' \in [Listenable -> Nat]
  BY <1>1, <1>4 DEF ServerTypes
<1>9. activeRequests' \subseteq Call \cup Listenable
  BY <1>1, <1>2, <1>5 DEF ServerTypes
<1>10. \A e \in Listenable : e \in activeRequests' <=>
         e \in activeRequests \/ \E i \in 1 .. Len(requests) : Starts(requests[i], e)
  BY <1>1, <1>2, <1>6
<1>11. ASSUME NEW e \in Listenable, \A i \in 1 .. Len(requests) : ~Starts(requests[i], e)
       PROVE  subscriptions'[e] = subscriptions[e]
  <2>1. Asked("listen", e) = {}
    BY <1>3, <1>11
  <2>2. Cardinality(Asked("listen", e)) = 0
    BY <2>1, FS_EmptySet
  <2> QED BY <1>1, <2>2 DEF ServerTypes
<1>12. ASSUME NEW e \in Listenable, PendsOnce(requests, e),
              NEW i \in 1 .. Len(requests), Starts(requests[i], e)
       PROVE  subscriptions'[e] = subscriptions[e] + 1
  <2>1. Asked("listen", e) = {i}
    BY <1>3, <1>12 DEF PendsOnce
  <2>2. Cardinality(Asked("listen", e)) = 1
    BY <2>1, FS_Singleton
  <2> QED BY <1>1, <2>2
<1>13. ASSUME NEW e \in Listenable, ActiveListens, e \in activeRequests'
       PROVE  subscriptions'[e] > 0
  <2>1. Cardinality(Asked("listen", e)) \in Nat
    BY <1>4
  <2>2. subscriptions'[e] = subscriptions[e] + Cardinality(Asked("listen", e))
        /\ subscriptions[e] \in Nat
    BY <1>1 DEF ServerTypes
  <2>3. CASE e \in activeRequests
    BY <1>13, <2>1, <2>2, <2>3 DEF ActiveListens
  <2>4. CASE \E i \in 1 .. Len(requests) : Starts(requests[i], e)
    <3> DEFINE them == Asked("listen", e)
    <3>1. them # {} /\ IsFiniteSet(them)
      <4>1. them # {} /\ them \subseteq 1 .. Len(requests)
        BY <1>3, <2>4
      <4>2. IsFiniteSet(1 .. Len(requests))
        BY <1>2, FS_Interval
      <4> QED BY <4>1, <4>2, FS_Subset
    <3>2. Cardinality(Asked("listen", e)) # 0
      BY <3>1, FS_EmptySet
    <3> QED BY <2>1, <2>2, <3>2
  <2> QED BY <1>10, <1>13, <2>3, <2>4
<1>14. ActiveListens => ActiveListens'
  BY <1>13 DEF ActiveListens
<1> QED BY <1>7, <1>8, <1>9, <1>10, <1>11, <1>12, <1>14

\* ServerReceives keeps the invariant.
LEMMA ServerReceivesKeeps ==
  ASSUME ChannelInv, ServerReceives
  PROVE  ChannelInv'
<1> DEFINE m == toServer[1]
<1>1. /\ toServer \in Seq(ToServer) /\ Len(toServer) \in Nat /\ Len(toServer) > 0
      /\ m \in ToServer
  BY DEF ChannelInv, ClientTypes, ServerReceives
<1>2. toServer' = Tail(toServer) /\ ClientUnchanged /\ UNCHANGED registered
  BY DEF ServerReceives
<1>3. \/ /\ m.type \in {"promise", "listen"}
         /\ \/ registered /\ RunAll(<<m>>) /\ UNCHANGED pendingRequests
            \/ /\ Collect(m)
               /\ UNCHANGED <<serving, subscriptions, activeRequests>>
         /\ UNCHANGED lapsed
      \/ /\ m.type \in {"cancel", "dispose"}
         /\ DisposeActiveRequest(m.id)
         /\ lapsed' = IF m.type = "dispose" /\ m.id \notin activeRequests
                      THEN lapsed \cup {m.id} ELSE lapsed
         /\ UNCHANGED <<serving, pendingRequests>>
  BY DEF ServerReceives
<1> HIDE DEF m
<1>4. WaitsForInitialize' /\ UNCHANGED <<state, listened>>
  BY <1>2, ClientFrame
<1>5. state = "idle"
  BY <1>1 DEF ChannelInv, ClientTypes, NothingSentYet
<1>6. toServer' \in Seq(ToServer) /\ ClientTypes'
  BY <1>1, <1>2, TailElements DEF ChannelInv, ClientTypes, ClientUnchanged
<1>7. NothingSentYet'
  BY <1>4, <1>5 DEF NothingSentYet
<1>8. \A e \in Listenable \ lapsed : LineFits(toServer, e, Held, listened)
  BY <1>5 DEF ChannelInv, LineMatches
<1>9. /\ m.type \in {"promise", "listen", "cancel", "dispose"}
      /\ m.type \in {"promise", "cancel"} => m.id \in Call
      /\ m.type \in {"listen", "dispose"} => m.id \in Listenable
      /\ m.type \in {"promise", "listen"} => m \in Asking
      /\ \A e : Starts(m, e) <=> m.type = "listen" /\ m.id = e
      /\ \A e : Ends(m, e) <=> m.type = "dispose" /\ m.id = e
  BY <1>1 DEF ToServer, Asking, Starts, Ends
<1>10. ASSUME m.type \in {"promise", "listen"}, UNCHANGED lapsed,
              ServerTypes', ActiveListens', HeldOnce',
              \A e \in Listenable : e \in Held' <=> e \in Held \/ Starts(m, e)
       PROVE  ChannelInv'
  <2>1. ASSUME NEW e \in Listenable \ lapsed
        PROVE  LineFits(toServer', e, Held', listened)
    <3>1. CASE Starts(m, e)
      BY <1>1, <1>2, <1>8, <1>10, <3>1, FitsTailStart DEF m
    <3>2. CASE ~Starts(m, e)
      <4>1. LineFits(toServer', e, Held, listened)
        BY <1>1, <1>2, <1>8, <1>9, <1>10, <3>2, FitsTailOther DEF m
      <4> QED BY <1>10, <3>2, <4>1, FitsSameSets
    <3> QED BY <3>1, <3>2
  <2>2. LineMatches'
    BY <1>4, <1>10, <2>1 DEF LineMatches
  <2> QED BY <1>4, <1>6, <1>7, <1>10, <2>2 DEF ChannelInv
<1>11. \A e \in Listenable \ lapsed : Starts(m, e) => e \notin Held
  BY <1>1, <1>8, FitsTailStart DEF m
<1>12. CASE m.type \in {"promise", "listen"} /\ registered /\ RunAll(<<m>>)
            /\ UNCHANGED <<pendingRequests, lapsed>>
  <2>1. <<m>> \in Seq(Waits \cup Asking) /\ Len(<<m>>) = 1 /\ <<m>>[1] = m
    BY <1>9, <1>12
  <2>2. \A e : (\E i \in 1 .. Len(<<m>>) : Starts(<<m>>[i], e)) <=> Starts(m, e)
    BY <2>1
  <2>3. \A e : PendsOnce(<<m>>, e)
    BY <2>1 DEF PendsOnce
  <2>4. /\ serving' \in [Call -> {"none", "running", "answered"}]
        /\ subscriptions' \in [Listenable -> Nat]
        /\ activeRequests' \subseteq Call \cup Listenable
        /\ \A e \in Listenable :
             e \in activeRequests' <=> e \in activeRequests \/ Starts(m, e)
        /\ \A e \in Listenable : ~Starts(m, e) => subscriptions'[e] = subscriptions[e]
        /\ \A e \in Listenable : Starts(m, e) => subscriptions'[e] = subscriptions[e] + 1
        /\ ActiveListens'
    BY <1>12, <2>1, <2>2, <2>3, RunAllActs DEF ChannelInv
  <2>5. ServerTypes'
    BY <1>2, <1>12, <2>4 DEF ChannelInv, ServerTypes
  <2>6. \A e \in Listenable : Pends(e)' <=> Pends(e)
    BY <1>12 DEF Pends
  <2>7. \A e \in Listenable : e \in Held' <=> e \in Held \/ Starts(m, e)
    BY <2>4, <2>6 DEF Held
  <2>8. HeldOnce'
    <3>1. ASSUME NEW e \in Listenable \ lapsed
          PROVE  /\ subscriptions'[e] = IF e \in activeRequests' THEN 1 ELSE 0
                 /\ ~(e \in activeRequests' /\ Pends(e))
                 /\ PendsOnce(pendingRequests, e)
      <4>1. /\ subscriptions[e] = IF e \in activeRequests THEN 1 ELSE 0
            /\ ~(e \in activeRequests /\ Pends(e))
            /\ PendsOnce(pendingRequests, e)
        BY DEF ChannelInv, HeldOnce
      <4>2. Starts(m, e) => e \notin activeRequests /\ ~Pends(e)
        BY <1>11 DEF Held
      <4> QED BY <2>4, <4>1, <4>2
    <3> QED BY <1>12, <2>6, <3>1 DEF HeldOnce
  <2> QED BY <1>10, <1>12, <2>4, <2>5, <2>7, <2>8
<1>13. CASE m.type \in {"promise", "listen"} /\ Collect(m)
            /\ UNCHANGED <<serving, subscriptions, activeRequests, lapsed>>
  <2> DEFINE w == [type |-> m.type, id |-> m.id, timedOut |-> FALSE]
  <2>1. pendingRequests' = Append(pendingRequests, w)
    BY <1>13 DEF Collect
  <2>2. w \in Waits /\ \A e : Starts(w, e) <=> Starts(m, e)
    BY <1>9, <1>13 DEF Waits, Starts
  <2> HIDE DEF w
  <2>3. pendingRequests \in Seq(Waits)
    BY DEF ChannelInv, ServerTypes
  <2>4. /\ pendingRequests' \in Seq(Waits)
        /\ Len(pendingRequests) \in Nat
        /\ Len(pendingRequests') = Len(pendingRequests) + 1
        /\ \A i \in 1 .. Len(pendingRequests) : pendingRequests'[i] = pendingRequests[i]
        /\ pendingRequests'[Len(pendingRequests) + 1] = w
    BY <2>1, <2>2, <2>3
  <2>5. ServerTypes'
    BY <1>2, <1>13, <2>4 DEF ChannelInv, ServerTypes
  <2>6. \A e : Pends(e)' <=> Pends(e) \/ Starts(m, e)
    BY <2>2, <2>4 DEF Pends
  <2>7. \A e \in Listenable : e \in Held' <=> e \in Held \/ Starts(m, e)
    BY <1>13, <2>6 DEF Held
  <2>8. HeldOnce'
    <3>1. ASSUME NEW e \in Listenable \ lapsed
          PROVE  /\ subscriptions[e] = IF e \in activeRequests THEN 1 ELSE 0
                 /\ ~(e \in activeRequests /\ Pends(e)')
                 /\ PendsOnce(pendingRequests', e)
      <4>1. /\ subscriptions[e] = IF e \in activeRequests THEN 1 ELSE 0
            /\ ~(e \in activeRequests /\ Pends(e))
            /\ PendsOnce(pendingRequests, e)
        BY DEF ChannelInv, HeldOnce
      <4>2. Starts(m, e) => e \notin activeRequests /\ ~Pends(e)
        BY <1>11 DEF Held
      <4>3. PendsOnce(pendingRequests', e)
        BY <2>2, <2>4, <4>1, <4>2 DEF PendsOnce, Pends
      <4> QED BY <2>6, <4>1, <4>2, <4>3
    <3> QED BY <1>13, <3>1 DEF HeldOnce
  <2>9. ActiveListens'
    BY <1>13 DEF ChannelInv, ActiveListens
  <2> QED BY <1>10, <1>13, <2>5, <2>7, <2>8, <2>9
<1>14. CASE /\ m.type \in {"cancel", "dispose"}
            /\ DisposeActiveRequest(m.id)
            /\ lapsed' = IF m.type = "dispose" /\ m.id \notin activeRequests
                         THEN lapsed \cup {m.id} ELSE lapsed
            /\ UNCHANGED <<serving, pendingRequests>>
  <2>1. /\ activeRequests' = activeRequests \ {m.id}
        /\ subscriptions' = [e \in Listenable |->
             IF e = m.id /\ m.id \in activeRequests THEN subscriptions[e] - 1
                                                     ELSE subscriptions[e]]
    BY <1>14 DEF DisposeActiveRequest
  <2>2. \A e \in Listenable : m.id = e <=> Ends(m, e)
    BY <1>9, <1>14, DistinctIds
  <2>3. \A e \in Listenable \ lapsed' :
          e \in Listenable \ lapsed /\ (Ends(m, e) => e \in activeRequests)
    BY <1>9, <1>14
  <2>4. \A e \in Listenable : Pends(e)' <=> Pends(e)
    BY <1>14 DEF Pends
  <2>5. ASSUME NEW e \in Listenable \ lapsed'
        PROVE  /\ subscriptions'[e] = IF e \in activeRequests' THEN 1 ELSE 0
               /\ ~(e \in activeRequests' /\ Pends(e))
               /\ PendsOnce(pendingRequests, e)
    <3>1. /\ subscriptions[e] = IF e \in activeRequests THEN 1 ELSE 0
          /\ ~(e \in activeRequests /\ Pends(e))
          /\ PendsOnce(pendingRequests, e)
      BY <2>3 DEF ChannelInv, HeldOnce
    <3> QED BY <2>1, <2>5, <3>1
  <2>6. HeldOnce'
    BY <1>14, <2>4, <2>5 DEF HeldOnce
  <2>7. ASSUME NEW e \in Listenable \ lapsed'
        PROVE  LineFits(toServer', e, Held', listened)
    <3>1. CASE Ends(m, e)
      <4>1. e \notin Held'
        BY <2>1, <2>2, <2>3, <2>4, <2>7, <3>1 DEF ChannelInv, HeldOnce, Held
      <4> QED BY <1>1, <1>2, <1>8, <2>3, <2>7, <3>1, <4>1, FitsTailEnd DEF m
    <3>2. CASE ~Ends(m, e)
      <4>1. LineFits(toServer', e, Held, listened)
        BY <1>1, <1>2, <1>8, <1>9, <1>14, <2>3, <2>7, <3>2, FitsTailOther DEF m
      <4>2. e \in Held' <=> e \in Held
        BY <2>1, <2>2, <2>4, <3>2 DEF Held
      <4> QED BY <4>1, <4>2, FitsSameSets
    <3> QED BY <3>1, <3>2
  <2>8. LineMatches'
    BY <1>4, <2>7 DEF LineMatches
  <2>9. ServerTypes'
    <3>1. subscriptions \in [Listenable -> Nat] /\ activeRequests \subseteq Call \cup Listenable
      BY DEF ChannelInv, ServerTypes
    <3>2. subscriptions' \in [Listenable -> Nat]
      BY <2>1, <3>1 DEF ChannelInv, ActiveListens
    <3>3. lapsed' \subseteq Listenable
      BY <1>9, <1>14 DEF ChannelInv, ServerTypes
    <3> QED BY <1>2, <1>14, <2>1, <3>1, <3>2, <3>3 DEF ChannelInv, ServerTypes
  <2>10. ActiveListens'
    BY <2>1 DEF ChannelInv, ActiveListens
  <2> QED BY <1>4, <1>6, <1>7, <2>6, <2>8, <2>9, <2>10 DEF ChannelInv
<1> QED BY <1>3, <1>12, <1>13, <1>14

\* RequestTimesOut keeps the invariant.
LEMMA RequestTimesOutKeeps ==
  ASSUME ChannelInv, NEW n \in DOMAIN pendingRequests, RequestTimesOut(n)
  PROVE  ChannelInv'
<1>1. /\ pendingRequests' = [pendingRequests EXCEPT ![n].timedOut = TRUE]
      /\ ClientUnchanged
      /\ UNCHANGED <<toServer, registered, serving, subscriptions, activeRequests, lapsed>>
  BY DEF RequestTimesOut
<1>2. /\ pendingRequests \in Seq(Waits)
      /\ n \in 1 .. Len(pendingRequests)
  BY DEF ChannelInv, ServerTypes
<1>3. [pendingRequests[n] EXCEPT !.timedOut = TRUE] \in Waits
  <2>1. pendingRequests[n] \in Waits
    BY <1>2
  <2>2. CASE pendingRequests[n] \in [type : {"promise"}, id : Call, timedOut : BOOLEAN]
    BY <2>2 DEF Waits
  <2>3. CASE pendingRequests[n] \in [type : {"listen"}, id : Listenable, timedOut : BOOLEAN]
    BY <2>3 DEF Waits
  <2> QED BY <2>1, <2>2, <2>3 DEF Waits
<1>4. /\ pendingRequests' \in Seq(Waits)
      /\ Len(pendingRequests') = Len(pendingRequests)
  BY <1>1, <1>2, <1>3
<1>5. \A i \in 1 .. Len(pendingRequests) : \A e :
        Starts(pendingRequests'[i], e) <=> Starts(pendingRequests[i], e)
  BY <1>1, <1>2 DEF Waits, Starts
<1>6. \A e : /\ Pends(e)' <=> Pends(e)
             /\ PendsOnce(pendingRequests', e) <=> PendsOnce(pendingRequests, e)
  BY <1>4, <1>5 DEF Pends, PendsOnce
<1>7. Held' = Held
  BY <1>1, <1>6 DEF Held
<1>8. WaitsForInitialize' /\ ClientTypes' /\ UNCHANGED <<state, listened>>
  BY <1>1, ClientFrame
<1>9. ServerTypes'
  BY <1>1, <1>4 DEF ChannelInv, ServerTypes
<1>10. ActiveListens'
  BY <1>1 DEF ChannelInv, ActiveListens
<1>11. HeldOnce'
  BY <1>1, <1>6 DEF ChannelInv, HeldOnce
<1>12. NothingSentYet'
  BY <1>1, <1>7, <1>8 DEF ChannelInv, NothingSentYet
<1>13. LineMatches'
  BY <1>1, <1>7, <1>8 DEF ChannelInv, LineMatches
<1> QED BY <1>8, <1>9, <1>10, <1>11, <1>12, <1>13 DEF ChannelInv

\* RegisterChannel keeps the invariant.
LEMMA RegisterChannelKeeps ==
  ASSUME ChannelInv, RegisterChannel
  PROVE  ChannelInv'
<1>1. /\ registered' = TRUE
      /\ ClientUnchanged
      /\ UNCHANGED <<toServer, pendingRequests, serving, subscriptions, activeRequests, lapsed>>
  BY DEF RegisterChannel
<1>2. Held' = Held
  BY <1>1 DEF Held, Pends
<1>3. WaitsForInitialize' /\ ClientTypes' /\ UNCHANGED <<state, listened>>
  BY <1>1, ClientFrame
<1>4. ServerTypes'
  BY <1>1 DEF ChannelInv, ServerTypes
<1>5. ActiveListens'
  BY <1>1 DEF ChannelInv, ActiveListens
<1>6. HeldOnce'
  BY <1>1 DEF ChannelInv, HeldOnce, Pends
<1>7. NothingSentYet'
  BY <1>1, <1>2, <1>3 DEF ChannelInv, NothingSentYet
<1>8. LineMatches'
  BY <1>1, <1>2, <1>3 DEF ChannelInv, LineMatches
<1> QED BY <1>3, <1>4, <1>5, <1>6, <1>7, <1>8 DEF ChannelInv

\* FlushPendingRequests keeps the invariant.
LEMMA FlushPendingRequestsKeeps ==
  ASSUME ChannelInv, FlushPendingRequests
  PROVE  ChannelInv'
<1>1. /\ RunAll(pendingRequests)
      /\ pendingRequests' = <<>>
      /\ ClientUnchanged
      /\ UNCHANGED <<toServer, registered, lapsed>>
  BY DEF FlushPendingRequests
<1>2. pendingRequests \in Seq(Waits \cup Asking)
  BY DEF ChannelInv, ServerTypes
<1>3. /\ serving' \in [Call -> {"none", "running", "answered"}]
      /\ subscriptions' \in [Listenable -> Nat]
      /\ activeRequests' \subseteq Call \cup Listenable
      /\ ActiveListens'
      /\ \A e \in Listenable : e \in activeRequests' <=> e \in activeRequests \/ Pends(e)
      /\ \A e \in Listenable : ~Pends(e) => subscriptions'[e] = subscriptions[e]
      /\ \A e \in Listenable : PendsOnce(pendingRequests, e) /\ Pends(e) =>
           subscriptions'[e] = subscriptions[e] + 1
  BY <1>1, <1>2, RunAllActs DEF ChannelInv, Pends
<1>4. /\ \A e : ~Pends(e)' /\ PendsOnce(pendingRequests', e)
      /\ pendingRequests' \in Seq(Waits)
  BY <1>1 DEF Pends, PendsOnce
<1>5. Held' = Held
  BY <1>3, <1>4 DEF Held
<1>6. WaitsForInitialize' /\ ClientTypes' /\ UNCHANGED <<state, listened>>
  BY <1>1, ClientFrame
<1>7. ServerTypes'
  BY <1>1, <1>3, <1>4 DEF ChannelInv, ServerTypes
<1>8. HeldOnce'
  <2>1. ASSUME NEW e \in Listenable \ lapsed
        PROVE  subscriptions'[e] = IF e \in activeRequests' THEN 1 ELSE 0
    BY <1>3 DEF ChannelInv, HeldOnce
  <2> QED BY <1>1, <1>4, <2>1 DEF HeldOnce
<1>9. NothingSentYet'
  BY <1>1, <1>5, <1>6 DEF ChannelInv, NothingSentYet
<1>10. LineMatches'
  BY <1>1, <1>5, <1>6 DEF ChannelInv, LineMatches
<1> QED BY <1>3, <1>6, <1>7, <1>8, <1>9, <1>10 DEF ChannelInv

\* Answer keeps the invariant.
LEMMA AnswerKeeps ==
  ASSUME ChannelInv, NEW c \in Call, Answer(c)
  PROVE  ChannelInv'
<1>1. /\ serving' = [serving EXCEPT ![c] = "answered"]
      /\ activeRequests' = activeRequests \ {c}
      /\ ClientUnchanged
      /\ UNCHANGED <<toServer, registered, pendingRequests, subscriptions, lapsed>>
  BY DEF Answer
<1>2. \A e \in Listenable : e \in activeRequests' <=> e \in activeRequests
  BY <1>1, DistinctIds
<1>3. Held' = Held
  BY <1>1, <1>2 DEF Held, Pends
<1>4. WaitsForInitialize' /\ ClientTypes' /\ UNCHANGED <<state, listened>>
  BY <1>1, ClientFrame
<1>5. ServerTypes'
  BY <1>1 DEF ChannelInv, ServerTypes
<1>6. ActiveListens'
  BY <1>1, <1>2 DEF ChannelInv, ActiveListens
<1>7. HeldOnce'
  BY <1>1, <1>2 DEF ChannelInv, HeldOnce, Pends
<1>8. NothingSentYet'
  BY <1>1, <1>3, <1>4 DEF ChannelInv, NothingSentYet
<1>9. LineMatches'
  BY <1>1, <1>3, <1>4 DEF ChannelInv, LineMatches
<1> QED BY <1>4, <1>5, <1>6, <1>7, <1>8, <1>9 DEF ChannelInv

\* EventFires keeps the invariant.
LEMMA EventFiresKeeps ==
  ASSUME ChannelInv, NEW e \in Listenable, EventFires(e)
  PROVE  ChannelInv'
<1>1. ServerUnchanged /\ ClientUnchanged /\ UNCHANGED <<toServer, lapsed>>
  BY DEF EventFires
<1>2. ServerTypes' /\ ActiveListens' /\ HeldOnce' /\ Held' = Held
  BY <1>1, ServerFrame
<1>3. ClientTypes' /\ WaitsForInitialize' /\ UNCHANGED <<state, listened>>
  BY <1>1, ClientFrame
<1>4. NothingSentYet'
  BY <1>1, <1>2, <1>3 DEF ChannelInv, NothingSentYet
<1>5. LineMatches'
  BY <1>1, <1>2, <1>3 DEF ChannelInv, LineMatches
<1> QED BY <1>2, <1>3, <1>4, <1>5 DEF ChannelInv

\* The invariant holds initially.
LEMMA ChannelStarts ==
  ASSUME ChannelInit
  PROVE  ChannelInv
<1>1. /\ state = "uninitialized" /\ listened = {} /\ waiting = <<>> /\ toServer = <<>>
      /\ registered \in BOOLEAN /\ pendingRequests = <<>>
      /\ serving = [c \in Call |-> "none"] /\ subscriptions = [e \in Listenable |-> 0]
      /\ activeRequests = {} /\ lapsed = {}
  BY DEF ChannelInit
<1>2. ClientTypes /\ ServerTypes
  BY <1>1 DEF ClientTypes, ServerTypes
<1>3. Held = {} /\ \A e : ~Pends(e) /\ PendsOnce(pendingRequests, e)
  BY <1>1 DEF Held, Pends, PendsOnce
<1>4. NothingSentYet /\ ActiveListens /\ HeldOnce /\ LineMatches
  BY <1>1, <1>3 DEF NothingSentYet, ActiveListens, HeldOnce, LineMatches
<1>5. WaitsForInitialize
  BY <1>1 DEF WaitsForInitialize, AskedOnce
<1> QED BY <1>2, <1>4, <1>5 DEF ChannelInv

\* Every step keeps the invariant.
LEMMA ChannelSteps ==
  ASSUME ChannelInv, [ChannelNext]_channelVars
  PROVE  ChannelInv'
<1>1. CASE UNCHANGED channelVars
  BY <1>1, ChannelStutters
<1>2. ASSUME NEW c \in Call, RequestPromise(c) \/ Cancel(c) \/ Answer(c)
      PROVE  ChannelInv'
  BY <1>2, RequestPromiseKeeps, CancelKeeps, AnswerKeeps
<1>3. ASSUME NEW e \in Listenable, Listen(e) \/ Unlisten(e) \/ EventFires(e)
      PROVE  ChannelInv'
  BY <1>3, ListenKeeps, UnlistenKeeps, EventFiresKeeps
<1>4. CASE ClientReceives
  BY <1>4, ClientReceivesKeeps
<1>5. CASE ServerReceives
  BY <1>5, ServerReceivesKeeps
<1>6. ASSUME NEW i \in DOMAIN pendingRequests, RequestTimesOut(i)
      PROVE  ChannelInv'
  BY <1>6, RequestTimesOutKeeps
<1>7. CASE RegisterChannel
  BY <1>7, RegisterChannelKeeps
<1>8. CASE FlushPendingRequests
  BY <1>8, FlushPendingRequestsKeeps
<1> QED BY <1>1, <1>2, <1>3, <1>4, <1>5, <1>6, <1>7, <1>8 DEF ChannelNext

\* The inductive invariant of the channels holds, for any number of calls and events.
THEOREM ChannelInvariant == ChannelSpec => []ChannelInv
  BY ChannelStarts, ChannelSteps, PTL DEF ChannelSpec

\* When nothing is under way the server listens once to each event that has a listener at the
\* client, and to no other: ChannelClient.requestEvent and ChannelServer.onEventListen,
\* disposeActiveRequest and flushPendingRequests.
THEOREM OneSubscriptionEachCorrect == ChannelSpec => []OneSubscriptionEach
<1>1. ASSUME ChannelInv, state = "idle", toServer = <<>>, pendingRequests = <<>>,
             NEW e \in Listenable \ lapsed
      PROVE  subscriptions[e] = IF e \in listened THEN 1 ELSE 0
  <2>1. subscriptions[e] = IF e \in activeRequests THEN 1 ELSE 0
    BY <1>1 DEF ChannelInv, HeldOnce
  <2>2. ~Pends(e)
    BY <1>1 DEF Pends
  <2>3. e \in activeRequests <=> e \in Held
    BY <2>2 DEF Held
  <2>4. NoneFits(toServer, e, Held, listened)
    BY <1>1 DEF ChannelInv, LineMatches, LineFits
  <2>5. e \in Held <=> e \in listened
    BY <1>1, <2>4 DEF NoneFits
  <2> QED BY <2>1, <2>3, <2>5
<1>2. ChannelInv => OneSubscriptionEach
  BY <1>1 DEF OneSubscriptionEach
<1> QED BY <1>2, ChannelInvariant, PTL

\* The messages to the client: Initialize, what became of calls, and events.
ToClient ==
  {Initialize} \cup [type : {"answer", "unknownChannel"}, id : Call]
               \cup [type : {"fire"}, id : Listenable]

\* What ChannelInv does not speak of: the calls, the handlers, the counters, and what is on
\* its way to the client.
CallerTypes ==
  /\ call \in [Call -> {"unused", "requested", "cancelled", "answer", "unknownChannel"}]
  /\ listens \in [Listenable -> 0 .. MaxListens]
  /\ handlers \subseteq Call
  /\ toClient \in Seq(ToClient)
  /\ flush \in BOOLEAN
  /\ fired \in 0 .. MaxFired

\* CallerTypes holds initially.
LEMMA CallerTypesStart ==
  ASSUME ChannelInit
  PROVE  CallerTypes
<1>1. Initialize \in ToClient
  BY DEF ToClient
<1>2. toClient \in Seq(ToClient)
  BY <1>1 DEF ChannelInit
<1>3. 0 \in 0 .. MaxListens /\ 0 \in 0 .. MaxFired
  BY BoundsAreNumbers
<1> QED
  BY <1>2, <1>3 DEF ChannelInit, CallerTypes

\* An action that leaves these variables alone keeps it.
LEMMA CallerTypesStay ==
  ASSUME CallerTypes, UNCHANGED <<call, listens, handlers, toClient, flush, fired>>
  PROVE  CallerTypes'
  BY DEF CallerTypes

\* DoRequest only adds a handler.
LEMMA DoRequestHandlers ==
  ASSUME NEW c, NEW type \in {"promise", "listen"}, handlers \subseteq Call,
         type = "promise" => c \in Call, DoRequest(Request(type, c))
  PROVE  handlers' \subseteq Call
  BY DEF DoRequest, Request

\* A message about a call.
LEMMA ToClientAppend ==
  ASSUME NEW m \in ToClient, toClient \in Seq(ToClient), toClient' = Append(toClient, m)
  PROVE  toClient' \in Seq(ToClient)
  OBVIOUS

\* RequestPromise keeps CallerTypes.
LEMMA RequestPromiseTypes ==
  ASSUME CallerTypes, NEW c \in Call, RequestPromise(c)
  PROVE  CallerTypes'
<1>1. call' = [call EXCEPT ![c] = "requested"] /\ UNCHANGED <<listens, toClient, flush, fired>>
  BY DEF RequestPromise, ServerUnchanged
<1>2. handlers' \subseteq Call
  BY DoRequestHandlers DEF RequestPromise, CallerTypes
<1> QED
  BY <1>1, <1>2 DEF CallerTypes

\* Cancel keeps CallerTypes.
LEMMA CancelTypes ==
  ASSUME CallerTypes, NEW c \in Call, Cancel(c)
  PROVE  CallerTypes'
  BY DEF Cancel, ServerUnchanged, CallerTypes

\* Answer keeps CallerTypes.
LEMMA AnswerTypes ==
  ASSUME CallerTypes, NEW c \in Call, Answer(c)
  PROVE  CallerTypes'
<1>1. Request("answer", c) \in ToClient
  BY DEF Request, ToClient
<1>2. /\ toClient' = Append(toClient, Request("answer", c))
      /\ UNCHANGED <<call, listens, handlers, flush, fired>>
  BY DEF Answer, ClientUnchanged
<1>3. toClient' \in Seq(ToClient)
  BY <1>1, <1>2, ToClientAppend DEF CallerTypes
<1> QED
  BY <1>2, <1>3 DEF CallerTypes

\* Listen keeps CallerTypes.
LEMMA ListenTypes ==
  ASSUME CallerTypes, NEW e \in Listenable, Listen(e)
  PROVE  CallerTypes'
<1>1. handlers' \subseteq Call
  BY DoRequestHandlers DEF Listen, CallerTypes
<1>2. listens[e] < MaxListens /\ listens' = [listens EXCEPT ![e] = listens[e] + 1]
  BY DEF Listen
<1>3. listens[e] + 1 \in 0 .. MaxListens
  BY <1>2, BoundsAreNumbers DEF CallerTypes
<1>4. listens' \in [Listenable -> 0 .. MaxListens]
  BY <1>2, <1>3 DEF CallerTypes
<1>5. UNCHANGED <<call, toClient, flush, fired>>
  BY DEF Listen, ServerUnchanged
<1> QED
  BY <1>1, <1>4, <1>5 DEF CallerTypes

\* Unlisten keeps CallerTypes.
LEMMA UnlistenTypes ==
  ASSUME CallerTypes, NEW e \in Listenable, Unlisten(e)
  PROVE  CallerTypes'
  BY DEF Unlisten, ServerUnchanged, CallerTypes

\* EventFires keeps CallerTypes.
LEMMA EventFiresTypes ==
  ASSUME ServerTypes, CallerTypes, NEW e \in Listenable, EventFires(e)
  PROVE  CallerTypes'
<1>1. subscriptions[e] \in Nat
  BY DEF ServerTypes
<1>2. Request("fire", e) \in ToClient
  BY DEF Request, ToClient
<1>3. [i \in 1 .. subscriptions[e] |-> Request("fire", e)] \in Seq(ToClient)
  BY <1>1, <1>2
<1>4. toClient' \in Seq(ToClient)
  BY <1>3 DEF EventFires, CallerTypes
<1>5. fired' \in 0 .. MaxFired
  BY BoundsAreNumbers DEF EventFires, CallerTypes
<1>6. UNCHANGED <<call, listens, handlers, flush>>
  BY DEF EventFires, ClientUnchanged, ServerUnchanged
<1> QED
  BY <1>4, <1>5, <1>6 DEF CallerTypes

\* ClientReceives keeps CallerTypes.  No event has the id of a call, and so no event settles
\* one.
LEMMA ClientReceivesTypes ==
  ASSUME CallerTypes, ClientReceives
  PROVE  CallerTypes'
<1>1. toClient[1] \in ToClient /\ toClient' \in Seq(ToClient)
  BY DEF ClientReceives, CallerTypes
<1>2. UNCHANGED <<listens, flush, fired>>
  BY DEF ClientReceives, ServerUnchanged
<1>3. CASE toClient[1] = Initialize
  BY <1>1, <1>2, <1>3 DEF ClientReceives, CallerTypes
<1>4. CASE toClient[1] # Initialize
  <2>1. toClient[1].id \in handlers => toClient[1].type \in {"answer", "unknownChannel"}
    BY <1>1, <1>4, DistinctIds DEF ToClient, CallerTypes
  <2>2. handlers' \subseteq Call
    BY <1>4 DEF ClientReceives, CallerTypes
  <2>3. call' \in [Call -> {"unused", "requested", "cancelled", "answer", "unknownChannel"}]
    BY <1>4, <2>1 DEF ClientReceives, CallerTypes
  <2> QED
    BY <1>1, <1>2, <2>2, <2>3 DEF CallerTypes
<1> QED
  BY <1>3, <1>4

\* RequestTimesOut keeps CallerTypes.
LEMMA RequestTimesOutTypes ==
  ASSUME ServerTypes, CallerTypes, NEW i \in DOMAIN pendingRequests, RequestTimesOut(i)
  PROVE  CallerTypes'
<1>1. UNCHANGED <<call, listens, handlers, flush, fired>>
  BY DEF RequestTimesOut, ClientUnchanged
<1>2. pendingRequests[i] \in Waits
  BY DEF ServerTypes
<1>3. CASE pendingRequests[i].type = "promise"
  <2>1. Request("unknownChannel", pendingRequests[i].id) \in ToClient
    BY <1>2, <1>3 DEF Waits, Request, ToClient
  <2>2. toClient' \in Seq(ToClient)
    BY <1>3, <2>1, ToClientAppend DEF RequestTimesOut, CallerTypes
  <2> QED
    BY <1>1, <2>2 DEF CallerTypes
<1>4. CASE pendingRequests[i].type # "promise"
  BY <1>1, <1>4, CallerTypesStay DEF RequestTimesOut
<1> QED
  BY <1>3, <1>4

\* Every step keeps CallerTypes.
LEMMA CallerTypesStep ==
  ASSUME ChannelInv, CallerTypes, [ChannelNext]_channelVars
  PROVE  CallerTypes'
<1>1. ServerTypes
  BY DEF ChannelInv
<1>2. CASE UNCHANGED channelVars
  BY <1>2, CallerTypesStay DEF channelVars
<1>3. ASSUME NEW c \in Call, RequestPromise(c) \/ Cancel(c) \/ Answer(c)
      PROVE  CallerTypes'
  BY <1>3, RequestPromiseTypes, CancelTypes, AnswerTypes
<1>4. ASSUME NEW e \in Listenable, Listen(e) \/ Unlisten(e) \/ EventFires(e)
      PROVE  CallerTypes'
  BY <1>1, <1>4, ListenTypes, UnlistenTypes, EventFiresTypes
<1>5. CASE ClientReceives
  BY <1>5, ClientReceivesTypes
<1>6. CASE ServerReceives
  BY <1>6, CallerTypesStay DEF ServerReceives, ClientUnchanged
<1>7. ASSUME NEW i \in DOMAIN pendingRequests, RequestTimesOut(i)
      PROVE  CallerTypes'
  BY <1>1, <1>7, RequestTimesOutTypes
<1>8. CASE RegisterChannel
  BY <1>8 DEF RegisterChannel, ClientUnchanged, CallerTypes
<1>9. CASE FlushPendingRequests
  BY <1>9 DEF FlushPendingRequests, ClientUnchanged, CallerTypes
<1> QED
  BY <1>2, <1>3, <1>4, <1>5, <1>6, <1>7, <1>8, <1>9 DEF ChannelNext

\* A sequence over a set is one over every larger set.
LEMMA WiderSeq ==
  ASSUME NEW S, NEW T, S \subseteq T, NEW s \in Seq(S)
  PROVE  s \in Seq(T)
  OBVIOUS

\* The variables of the client and of the server have their types; no event settles a call.
THEOREM ChannelTypesCorrect == ChannelSpec => []ChannelTypeOK
<1>1. ChannelInit => ChannelInv /\ CallerTypes
  BY ChannelStarts, CallerTypesStart
<1>2. ChannelInv /\ CallerTypes /\ [ChannelNext]_channelVars => (ChannelInv /\ CallerTypes)'
  BY ChannelSteps, CallerTypesStep
<1>3. ChannelInv /\ CallerTypes => ChannelTypeOK
  <2> SUFFICES ASSUME ClientTypes, ServerTypes, CallerTypes
               PROVE  ChannelTypeOK
    BY DEF ChannelInv
  <2>1. waiting \in Seq(MessageOf({"promise", "listen"}))
    <3>1. Asking \subseteq MessageOf({"promise", "listen"})
      BY DEF Asking, MessageOf
    <3> QED
      BY <3>1 DEF ClientTypes
  <2>2. toServer \in Seq(MessageOf({"promise", "listen", "cancel", "dispose"}))
    <3>1. ToServer \subseteq MessageOf({"promise", "listen", "cancel", "dispose"})
      BY DEF ToServer, MessageOf
    <3> QED
      BY <3>1 DEF ClientTypes
  <2>3. toClient \in Seq({Initialize} \cup MessageOf({"answer", "unknownChannel", "fire"}))
    <3>1. ToClient \subseteq {Initialize} \cup MessageOf({"answer", "unknownChannel", "fire"})
      BY DEF ToClient, MessageOf
    <3> QED
      BY <3>1 DEF CallerTypes
  <2>4. pendingRequests \in Seq([type : {"promise", "listen"}, id : Call \cup Listenable,
                                 timedOut : BOOLEAN])
    <3>1. Waits \subseteq [type : {"promise", "listen"}, id : Call \cup Listenable,
                           timedOut : BOOLEAN]
      BY DEF Waits
    <3>2. pendingRequests \in Seq(Waits)
      BY DEF ServerTypes
    <3> QED
      BY <3>1, <3>2, WiderSeq
  <2> QED
    BY <2>1, <2>2, <2>3, <2>4 DEF ClientTypes, ServerTypes, CallerTypes, ChannelTypeOK
<1> QED
  BY <1>1, <1>2, <1>3, PTL DEF ChannelSpec
=============================================================================
