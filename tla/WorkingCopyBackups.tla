------------------------- MODULE WorkingCopyBackups -------------------------
(***************************************************************************)
(* The backup of a working copy that is modified: class                    *)
(* WorkingCopyBackupTracker (with its native subclass, which handles the   *)
(* shutdown) over WorkingCopyBackupServiceImpl, for one working copy.      *)
(*                                                                         *)
(* Contents are numbered as they are typed.  The working copy is what the  *)
(* tracker sees of it: it changes, is saved, reverted, closed and opened.  *)
(* What the file was when the copy last read or wrote it (the meta of a    *)
(* backup) is the content it had.                                          *)
(***************************************************************************)
EXTENDS Naturals, Sequences

CONSTANTS
  MaxTyped,  \* bound: contents that are typed
  MaxEvents    \* bound: closings of the copy, shutdowns, crashes and failures

VARIABLES
  copy,       \* the working copy: registered, modified, content, and the
              \* version that mapWorkingCopyToContentVersion counts
  saved,      \* the content of its file
  pending,    \* the pending backup operation of the tracker
  suspended,  \* suspended
  queue,      \* ioOperationQueues: the first operation is the one that runs
  file,       \* the backup file
  known,      \* the cache of WorkingCopyBackupsModel
  closing,    \* the handling of a shutdown
  window,     \* open, accepted, closing, gone
  typed,      \* the last content that was typed
  events,     \* how many of the bounded events there have been
  lapses,     \* history: what the code lets a backup get out of step by
  atStake     \* history: the content when the shutdown began, if modified

backupVars == <<copy, saved, pending, suspended, queue, file, known, closing, window,
                typed, events, lapses, atStake>>

None == [kind |-> "none"]
Partial == [kind |-> "partial"]
Stored(c, meta) == [kind |-> "stored", content |-> c, meta |-> meta]
Known(v, meta) == [kind |-> "known", version |-> v, meta |-> meta]

Readable(f) == f.kind = "stored"

BackupInit ==
  /\ copy = [registered |-> TRUE, modified |-> FALSE, content |-> 0, version |-> 0]
  /\ saved = 0
  /\ pending = "none"
  /\ suspended = FALSE
  /\ queue = <<>>
  /\ file = None
  /\ known = None
  /\ closing = [stage |-> "none"]
  /\ window = "open"
  /\ typed = 0
  /\ events = 0
  /\ lapses = {}
  /\ atStake = 0

\* What has been asked of an empty queue starts before anything else happens.
HeadStarted == window # "gone" /\ (queue # <<>> => queue[1].started)

Bounded == events < MaxEvents /\ events' = events + 1

(***************************************************************************)
(* The backup service.                                                     *)
(***************************************************************************)
\* WorkingCopyBackupsModel.has
Has(version, meta) == known = Known(version, meta)

BackupOp(owner, version) ==
  [kind |-> "backup", owner |-> owner, content |-> copy.content, version |-> version,
   meta |-> saved, started |-> FALSE]

DiscardOp(owner) ==
  [kind |-> "discard", owner |-> owner, content |-> 0, version |-> 0, meta |-> 0,
   started |-> FALSE]

\* Cancelling the token of an operation: one that has not started does nothing when
\* its turn comes, one that has goes on.
Nothing == [kind |-> "nothing", owner |-> "nobody", content |-> 0, version |-> 0,
            meta |-> 0, started |-> FALSE]

Cancelled(owner) ==
  [i \in DOMAIN queue |->
     IF queue[i].owner # owner THEN queue[i]
     ELSE IF queue[i].started THEN [queue[i] EXCEPT !.owner = "nobody"]
     ELSE Nothing]

\* The promise of an operation settles for who waits for it.
Settles(op, ok) ==
  /\ pending' = IF op.owner = "tracker" THEN "none" ELSE pending
  /\ closing' = IF op.owner = "closing"
                THEN [stage |-> IF ok THEN "done" ELSE "error"] ELSE closing

StartOp ==
  /\ queue # <<>>
  /\ LET op == queue[1]
     IN /\ ~op.started
        /\ IF op.kind = "nothing" \/ (op.kind = "backup" /\ Has(op.version, op.meta))
           THEN /\ queue' = Tail(queue)
                /\ Settles(op, TRUE)
                /\ UNCHANGED file
           ELSE /\ queue' = [queue EXCEPT ![1].started = TRUE]
                /\ file' = IF op.kind = "backup" THEN Partial ELSE file
                /\ UNCHANGED <<pending, closing>>
  /\ UNCHANGED <<copy, saved, suspended, known, window, typed, events, lapses, atStake>>

FinishOp ==
  /\ queue # <<>>
  /\ LET op == queue[1]
     IN /\ op.started
        /\ queue' = Tail(queue)
        /\ \/ /\ file' = IF op.kind = "backup" THEN Stored(op.content, op.meta) ELSE None
              /\ known' = IF op.kind = "backup" THEN Known(op.version, op.meta) ELSE None
              /\ Settles(op, TRUE)
              /\ UNCHANGED <<events, lapses>>
           \/ /\ Bounded
              /\ lapses' = lapses \cup {IF window = "open" THEN "failed" ELSE "failedLate"}
              /\ Settles(op, op.kind = "discard")
              /\ UNCHANGED <<file, known>>
  /\ UNCHANGED <<copy, saved, suspended, window, typed, atStake>>

(***************************************************************************)
(* The tracker.                                                            *)
(***************************************************************************)
\* scheduleBackup and discardBackup, which cancel what is pending.
ScheduleBackup ==
  IF suspended THEN UNCHANGED <<pending, queue>>
  ELSE /\ pending' = "timer"
       /\ queue' = Cancelled("tracker")

\* Mutant of DiscardBackup: only a backup that the cache has is deleted.
DiscardKnownBackup ==
  IF suspended THEN UNCHANGED <<pending, queue>>
  ELSE /\ pending' = IF known = None THEN "none" ELSE "queued"
       /\ queue' = IF known = None THEN Cancelled("tracker")
                   ELSE Append(Cancelled("tracker"), DiscardOp("tracker"))

DiscardBackup ==
  IF suspended THEN UNCHANGED <<pending, queue>>
  ELSE /\ pending' = "queued"
       /\ queue' = Append(Cancelled("tracker"), DiscardOp("tracker"))

\* The timer; a copy that is not modified by now needs no backup.
TimerFires ==
  /\ HeadStarted
  /\ pending = "timer"
  /\ pending' = IF copy.modified THEN "snapshot" ELSE "none"
  /\ UNCHANGED <<copy, saved, suspended, queue, file, known, closing, window, typed,
                 events, lapses, atStake>>

\* The copy has handed out its content.
StoreBackup ==
  /\ HeadStarted
  /\ pending = "snapshot"
  /\ IF ~copy.modified \/ Has(copy.version, saved)
     THEN pending' = "none" /\ UNCHANGED queue
     ELSE pending' = "queued" /\ queue' = Append(queue, BackupOp("tracker", copy.version))
  /\ UNCHANGED <<copy, saved, suspended, file, known, closing, window, typed, events,
                 lapses, atStake>>

(***************************************************************************)
(* The working copy, whose events the tracker handles at once.             *)
(***************************************************************************)
EditCopy ==
  /\ HeadStarted
  /\ copy.registered
  /\ typed < MaxTyped
  /\ typed' = typed + 1
  /\ copy' = [copy EXCEPT !.content = typed', !.modified = TRUE, !.version = @ + 1]
  /\ ScheduleBackup
  /\ UNCHANGED <<saved, suspended, file, known, closing, window, events, lapses, atStake>>

SaveCopy ==
  /\ HeadStarted
  /\ copy.modified
  /\ copy' = [copy EXCEPT !.modified = FALSE]
  /\ saved' = copy.content
  /\ DiscardBackup
  /\ UNCHANGED <<suspended, file, known, closing, window, typed, events, lapses, atStake>>

\* A soft revert leaves the content as it is.
RevertCopy(soft) ==
  /\ HeadStarted
  /\ copy.modified
  /\ copy' = [copy EXCEPT !.modified = FALSE,
                          !.content = IF soft THEN @ ELSE saved,
                          !.version = IF soft THEN @ ELSE @ + 1]
  /\ DiscardBackup
  /\ atStake' = 0
  /\ UNCHANGED <<saved, suspended, file, known, closing, window, typed, events, lapses>>

\* The copy that is opened next starts to count its versions again, also when the
\* cache still has, or is about to get, a version of this one.
CloseCopy ==
  /\ HeadStarted
  /\ Bounded
  /\ copy.registered /\ ~copy.modified
  /\ copy' = [registered |-> FALSE, modified |-> FALSE, content |-> saved, version |-> 0]
  /\ DiscardBackup
  /\ lapses' = IF queue # <<>> \/ known # None \/ closing.stage # "none"
               THEN lapses \cup {"closed"} ELSE lapses
  /\ UNCHANGED <<saved, suspended, file, known, closing, window, typed, atStake>>

OpenCopy ==
  /\ HeadStarted
  /\ ~copy.registered
  /\ copy' = [copy EXCEPT !.registered = TRUE, !.content = saved]
  /\ UNCHANGED <<saved, pending, suspended, queue, file, known, closing, window, typed,
                 events, lapses, atStake>>

(***************************************************************************)
(* Shutdown: onFinalBeforeShutdown.                                        *)
(***************************************************************************)
Stays == <<copy, saved, file, known, typed, events, lapses>>

\* finally: resume
Decide(accept) ==
  /\ suspended' = FALSE
  /\ closing' = [stage |-> "none"]
  /\ window' = IF accept THEN "accepted" ELSE "open"

\* handleModifiedBeforeShutdown: a backup if that is configured for the reason,
\* unless there is one for the version of the content; otherwise a question.
BeginBackup == closing' = [stage |-> "backup"]
BeginConfirm == closing' = [stage |-> "confirm"]
HandleModified == BeginBackup \/ BeginConfirm

\* Files with auto save are saved first; without modified copies every backup is
\* discarded: one by one, or, if there is none to keep, with the folder.
BeforeShutdown ==
  /\ HeadStarted
  /\ Bounded
  /\ window = "open"
  /\ closing.stage = "none"
  /\ suspended' = TRUE
  /\ pending' = "none"
  /\ atStake' = IF copy.modified THEN copy.content ELSE 0
  /\ IF copy.modified
     THEN /\ queue' = Cancelled("tracker")
          /\ closing' = [stage |-> "autoSave"] \/ HandleModified
     ELSE \/ /\ closing' = [stage |-> "folder"]
             /\ queue' = Cancelled("tracker")
          \/ /\ closing' = [stage |-> "discard"]
             /\ queue' = IF known = None THEN Cancelled("tracker")
                         ELSE Append(Cancelled("tracker"), DiscardOp("closing"))
  /\ UNCHANGED <<copy, saved, file, known, window, typed, lapses>>

\* noVeto for the copies that were handled
DiscardHandled ==
  /\ closing' = [stage |-> "discard"]
  /\ queue' = Append(queue, DiscardOp("closing"))

AutoSaved ==
  /\ HeadStarted
  /\ closing.stage = "autoSave"
  /\ IF copy.modified THEN HandleModified /\ UNCHANGED queue ELSE DiscardHandled
  /\ UNCHANGED <<Stays, pending, suspended, window, atStake>>

\* Mutant of BackupExists: a backup of an older version will do.
AnyBackupExists ==
  /\ HeadStarted
  /\ closing.stage = "backup"
  /\ IF known.kind = "known"
     THEN Decide(TRUE)
     ELSE /\ closing' = [stage |-> "snapshot", version |-> copy.version]
          /\ UNCHANGED <<suspended, window>>
  /\ UNCHANGED <<Stays, pending, queue, atStake>>

\* backupBeforeShutdown: the version is read before the content is asked for.
BackupExists ==
  /\ HeadStarted
  /\ closing.stage = "backup"
  /\ IF known.kind = "known" /\ known.version = copy.version
     THEN Decide(TRUE)
     ELSE /\ closing' = [stage |-> "snapshot", version |-> copy.version]
          /\ UNCHANGED <<suspended, window>>
  /\ UNCHANGED <<Stays, pending, queue, atStake>>

BackupAtShutdown ==
  /\ HeadStarted
  /\ closing.stage = "snapshot"
  /\ IF Has(closing.version, saved)
     THEN closing' = [stage |-> "done"] /\ UNCHANGED queue
     ELSE /\ closing' = [stage |-> "storing"]
          /\ queue' = Append(queue, BackupOp("closing", closing.version))
  /\ UNCHANGED <<Stays, pending, suspended, window, atStake>>

\* The progress dialog can be cancelled; a discard goes on without it.
CancelProgress ==
  /\ HeadStarted
  /\ \/ /\ closing.stage \in {"snapshot", "storing"}
        /\ BeginConfirm
        /\ queue' = Cancelled("closing")
        /\ UNCHANGED <<suspended, window>>
     \/ /\ closing.stage = "discard"
        /\ Decide(TRUE)
        /\ queue' = [i \in DOMAIN queue |-> [queue[i] EXCEPT !.owner = "nobody"]]
  /\ UNCHANGED <<Stays, pending, atStake>>

\* discardBackups with nothing to keep: not by way of the queue.
FolderDeleted ==
  /\ HeadStarted
  /\ closing.stage = "folder"
  /\ file' = None
  /\ known' = None
  /\ Decide(TRUE)
  /\ UNCHANGED <<copy, saved, pending, queue, typed, events, lapses, atStake>>

\* A discard with nothing in the queue has nothing to discard.
ShutdownDecided ==
  /\ HeadStarted
  /\ closing.stage = "done" \/ (closing.stage = "discard" /\ \A i \in DOMAIN queue :
                                                              queue[i].owner # "closing")
  /\ Decide(TRUE)
  /\ UNCHANGED <<Stays, pending, queue, atStake>>

\* The answers to the questions.
Veto ==
  /\ HeadStarted
  /\ closing.stage \in {"error", "confirm", "saving"}
  /\ Decide(FALSE)
  /\ lapses' = lapses \cup {"vetoed"}
  /\ atStake' = 0
  /\ UNCHANGED <<copy, saved, pending, queue, file, known, typed, events>>

ShutdownAnyway ==
  /\ HeadStarted
  /\ closing.stage = "error"
  /\ Decide(TRUE)
  /\ atStake' = 0
  /\ UNCHANGED <<Stays, pending, queue>>

ConfirmSave ==
  /\ HeadStarted
  /\ closing.stage = "confirm"
  /\ closing' = [stage |-> "saving"]
  /\ UNCHANGED <<Stays, pending, queue, suspended, window, atStake>>

\* The copy must be saved, or else the shutdown is vetoed.
Saved ==
  /\ HeadStarted
  /\ closing.stage = "saving"
  /\ ~copy.modified
  /\ DiscardHandled
  /\ UNCHANGED <<Stays, pending, suspended, window, atStake>>

DontSave ==
  /\ HeadStarted
  /\ closing.stage = "confirm"
  /\ copy' = [copy EXCEPT !.modified = FALSE]
  /\ DiscardHandled
  /\ atStake' = 0
  /\ UNCHANGED <<saved, pending, suspended, file, known, window, typed, events, lapses>>

\* onWillShutdown; the queue is joined before the window goes.
WillShutdown ==
  /\ HeadStarted
  /\ window = "accepted"
  /\ window' = "closing"
  /\ suspended' = TRUE
  /\ pending' = "none"
  /\ queue' = Cancelled("tracker")
  /\ UNCHANGED <<Stays, closing, atStake>>

WindowGoes ==
  /\ window = "closing"
  /\ queue = <<>>
  /\ window' = "gone"
  /\ UNCHANGED <<Stays, pending, suspended, queue, closing, atStake>>

Crash ==
  /\ window # "gone"
  /\ Bounded
  /\ window' = "gone"
  /\ queue' = <<>>
  /\ pending' = "none"
  /\ closing' = [stage |-> "none"]
  /\ atStake' = 0
  /\ UNCHANGED <<copy, saved, suspended, file, known, typed, lapses>>

\* The next window takes the files it finds for backups of version 0, and restores
\* the copy from a backup that it can read.
Restart ==
  /\ window = "gone"
  /\ window' = "open"
  /\ suspended' = FALSE
  /\ known' = CASE file = None -> None
                [] Readable(file) -> Known(0, file.meta)
                [] OTHER -> Known(0, 0)
  /\ copy' = [registered |-> TRUE, modified |-> Readable(file), version |-> 0,
              content |-> IF Readable(file) THEN file.content ELSE saved]
  /\ pending' = IF Readable(file) THEN "timer" ELSE "none"
  /\ lapses' = {}
  /\ atStake' = 0
  /\ UNCHANGED <<saved, queue, file, closing, typed, events>>

-----------------------------------------------------------------------------
BackupNext ==
  \/ StartOp
  \/ FinishOp
  \/ TimerFires
  \/ StoreBackup
  \/ EditCopy
  \/ SaveCopy
  \/ \E soft \in BOOLEAN : RevertCopy(soft)
  \/ CloseCopy
  \/ OpenCopy
  \/ BeforeShutdown
  \/ AutoSaved
  \/ BackupExists
  \/ BackupAtShutdown
  \/ CancelProgress
  \/ FolderDeleted
  \/ ShutdownDecided
  \/ Veto
  \/ ShutdownAnyway
  \/ ConfirmSave
  \/ Saved
  \/ DontSave
  \/ WillShutdown
  \/ WindowGoes
  \/ Crash
  \/ Restart

BackupSpec == BackupInit /\ [][BackupNext]_backupVars

-----------------------------------------------------------------------------
Op == [kind : {"backup", "discard", "nothing"}, owner : {"tracker", "closing", "nobody"},
       content : Nat, version : Nat, meta : Nat, started : BOOLEAN]

BackupTypeOK ==
  /\ copy \in [registered : BOOLEAN, modified : BOOLEAN, content : Nat, version : Nat]
  /\ saved \in Nat /\ typed \in Nat /\ events \in Nat /\ atStake \in Nat
  /\ pending \in {"none", "timer", "snapshot", "queued"}
  /\ suspended \in BOOLEAN
  /\ queue \in Seq(Op) /\ \A i \in DOMAIN queue : queue[i].started => i = 1
  /\ file \in {None, Partial} \cup [kind : {"stored"}, content : Nat, meta : Nat]
  /\ known \in {None} \cup [kind : {"known"}, version : Nat, meta : Nat]
  /\ closing.stage \in {"none", "autoSave", "backup", "snapshot", "storing", "confirm",
                        "saving", "error", "folder", "discard", "done"}
  /\ window \in {"open", "accepted", "closing", "gone"}
  /\ lapses \subseteq {"closed", "failed", "failedLate", "vetoed"}

(***************************************************************************)
(* When the tracker has nothing left to do, the backup is that of the      *)
(* content of a modified copy, and a copy that is not modified has none:   *)
(* whatever was typed, saved or reverted while backups were created,       *)
(* written and deleted, also in a window that restored the copy.  Three    *)
(* lapses of the code are left out: a failed write is not retried, a veto  *)
(* resumes the tracker but not what it had cancelled, and a copy that is   *)
(* closed while a backup of it is around starts to count versions again.   *)
(***************************************************************************)
BackupFollows ==
  window = "open" /\ ~suspended /\ pending = "none" /\ queue = <<>> /\ lapses = {} =>
    IF copy.modified
    THEN Readable(file) /\ file.content = copy.content
    ELSE ~Readable(file)

(***************************************************************************)
(* A shutdown that goes through loses nothing of what was modified when it *)
(* began: it is in the backup or in the file, unless the user has chosen   *)
(* to lose it.  The lapses of a veto and of a write that fails before the  *)
(* shutdown do not matter here, for the version of the content tells       *)
(* whether the backup is of it.                                            *)
(***************************************************************************)
NothingLost ==
  window = "gone" /\ atStake # 0 /\ lapses \subseteq {"failed", "vetoed"} =>
    \/ Readable(file) /\ file.content >= atStake
    \/ saved >= atStake
=============================================================================
