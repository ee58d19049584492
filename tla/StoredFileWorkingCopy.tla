----------------------- MODULE StoredFileWorkingCopy -----------------------
(***************************************************************************)
(* A file that is edited in a window: class StoredFileWorkingCopy with its *)
(* TaskSequentializer, the part of StoredFileWorkingCopyManager that       *)
(* resolves the copy again, and the file.                                  *)
(*                                                                         *)
(* Contents are numbered as they come up, by an edit or by somebody who    *)
(* writes the file; the version of the model (its alternative version) is  *)
(* its content.  The file's mtime counts its writes, and stands for its    *)
(* etag.  A step ends where the code awaits: the save participants, the    *)
(* snapshot, the write, the read, the update of the model.                 *)
(***************************************************************************)
EXTENDS Naturals, FiniteSets

CONSTANTS
  MaxContent,    \* bound: contents that come up
  MaxWrites,     \* bound: writes of the file
  MaxVersions,   \* bound: changes of the model
  Chances,       \* bound: sets of events of which each may happen once
  SaveOptions    \* the options of save(): a set of records

NoContent == 0
Content == 1 .. MaxContent

\* force, ignoreModifiedSince (or a setting to that effect), and whether
\* there are save participants which the options do not skip.
AllSaveOptions == [force : BOOLEAN, overwrite : BOOLEAN, participants : BOOLEAN]

ASSUME CopyAssumption ==
  /\ MaxContent \in Nat \ {0, 1}
  /\ MaxWrites \in Nat
  /\ MaxVersions \in Nat
  /\ Chances \subseteq SUBSET {"revert", "cancel", "failed load", "foreign write"}
  /\ SaveOptions \subseteq AllSaveOptions

VARIABLES
  disk,         \* the file: its content and mtime
  model,        \* the content of the model, and what undo or redo returns to
  versionId,    \* versionId
  dirty,        \* dirty
  savedVersion, \* savedVersionId
  mode,         \* inConflictMode and inErrorMode
  stat,         \* the mtime of lastResolvedFileStat
  resolving,    \* the pending resolve, if any
  reverting,    \* the pending revert, if any
  reloads,      \* length of the queue of reloads
  fileEvent,    \* a change of the file of which the watcher has not told yet
  saves,        \* the calls of doSaveSequential under way
  running,      \* TaskSequentializer._running
  queued,       \* TaskSequentializer._queued
  fresh,        \* the last content that came up
  chances,      \* bound: the events that may still happen
  kept          \* history: contents that the file has had, or that were given up

copyVars == <<disk, model, versionId, dirty, savedVersion, mode, stat, resolving,
              reverting, reloads, fileEvent, saves, running, queued, fresh, chances,
              kept>>

NoResolve == [stage |-> "none"]
NoRevert == [stage |-> "none"]
NoSave == [stage |-> "none"]
NoRun == [slot |-> 0]
NotQueued == [queued |-> FALSE]

\* There is one save under way, and room for a second one that ought not to be.
Slot == {1, 2}

SaveUnderWay == running # NoRun
InParticipants == \E i \in Slot : saves[i].stage = "participants"

\* The copy was resolved from the file, or from a backup while the file has
\* changed since the backup.
CopyInit ==
  /\ \E restored \in BOOLEAN :
       /\ disk = [content |-> 1, mtime |-> IF restored THEN 1 ELSE 0]
       /\ model = [content |-> IF restored THEN 2 ELSE 1, undo |-> NoContent]
       /\ dirty = restored
       /\ savedVersion = IF restored THEN NoContent ELSE 1
       /\ fresh = IF restored THEN 2 ELSE 1
  /\ chances \in Chances
  /\ kept = {1}
  /\ versionId = 0
  /\ mode = [conflict |-> FALSE, error |-> FALSE]
  /\ stat = 0
  /\ resolving = NoResolve
  /\ reverting = NoRevert
  /\ reloads = 0
  /\ fileEvent = FALSE
  /\ saves = [i \in Slot |-> NoSave]
  /\ running = NoRun
  /\ queued = NotQueued

Happens(event) ==
  /\ event \in chances
  /\ chances' = chances \ {event}

(***************************************************************************)
(* Dirty state and edits.                                                  *)
(***************************************************************************)
BecomeClean ==
  /\ dirty' = FALSE
  /\ mode' = [conflict |-> FALSE, error |-> FALSE]
  /\ savedVersion' = model'.content

BecomeDirty ==
  /\ dirty' = TRUE
  /\ UNCHANGED <<mode, savedVersion>>

\* ignoreDirtyOnModelContentChange: while the model is updated from the file its
\* changes do not count.
Updating == resolving.stage \in {"updating", "parsing"}

OnModelContentChanged ==
  /\ versionId' = versionId + 1
  /\ IF Updating THEN UNCHANGED <<dirty, mode, savedVersion>>
     ELSE IF model'.content = savedVersion THEN BecomeClean
     ELSE BecomeDirty

\* By the user, or by a save participant.
Edit ==
  /\ fresh < MaxContent
  /\ versionId < MaxVersions
  /\ fresh' = fresh + 1
  /\ model' = [content |-> fresh', undo |-> model.content]
  /\ OnModelContentChanged
  /\ kept' = IF Updating THEN kept \cup {fresh'} ELSE kept
  /\ UNCHANGED <<disk, stat, resolving, reverting, reloads, fileEvent, saves, running,
                 queued, chances>>

UndoOrRedo ==
  /\ model.undo # NoContent
  /\ versionId < MaxVersions
  /\ model' = [content |-> model.undo, undo |-> model.content]
  /\ OnModelContentChanged
  /\ kept' = IF Updating THEN kept \cup {model.undo} ELSE kept
  /\ UNCHANGED <<disk, stat, resolving, reverting, reloads, fileEvent, saves, running,
                 queued, fresh, chances>>

(***************************************************************************)
(* Saving.  doSaveSequential runs a task within a task: the outer one, with*)
(* the version at the time of the request, until the participants are done,*)
(* the inner one with the version that will be written.                    *)
(***************************************************************************)
\* A save that begins: without participants it goes on to its snapshot at once,
\* and takes the stat that it will hand to the file service.
Begun(o, v) ==
  [stage |-> IF o.participants THEN "participants" ELSE "snapshot",
   outer |-> v, inner |-> v, overwrite |-> o.overwrite, cancelled |-> FALSE,
   content |-> model'.content, mtime |-> stat']

Begin(i, o) ==
  /\ saves' = [saves EXCEPT ![i] = Begun(o, versionId)]
  /\ running' = [slot |-> i, id |-> versionId]
  /\ mode' = [mode EXCEPT !.error = o.participants /\ @]

\* doSave, after its early returns.  A save for this version that is running
\* is what the caller waits for; any other one is cancelled, and the request
\* takes the place in the queue.
DoSave(o) ==
  /\ ~InParticipants
  /\ o.force \/ dirty
  /\ IF SaveUnderWay
     THEN /\ running.id # versionId
          /\ saves' = [saves EXCEPT ![running.slot].cancelled = TRUE]
          /\ queued' = [queued |-> TRUE, options |-> o]
          /\ UNCHANGED <<running, mode>>
     ELSE /\ \E i \in Slot :
               /\ saves[i] = NoSave
               /\ \A j \in Slot : saves[j] = NoSave => i <= j
               /\ Begin(i, o)
          /\ UNCHANGED queued

\* save: an explicit request.  An auto save is the same, but refused in conflict or
\* error mode, so that it adds no step.
Save(o) ==
  /\ UNCHANGED <<disk, model, versionId, dirty, savedVersion, stat, resolving, reverting,
                 reloads, fileEvent, fresh, kept, chances>>
  /\ DoSave(o)

\* The progress notification of a save has a button to cancel it.
CancelSave(i) ==
  /\ Happens("cancel")
  /\ saves[i].stage \in {"participants", "snapshot"}
  /\ ~saves[i].cancelled
  /\ saves' = [saves EXCEPT ![i].cancelled = TRUE]
  /\ UNCHANGED <<disk, model, versionId, dirty, savedVersion, mode, stat, resolving,
                 reverting, reloads, fileEvent, running, queued, fresh, kept>>

ParticipantsDone(i) ==
  /\ saves[i].stage = "participants"
  /\ ~saves[i].cancelled
  /\ saves' = [saves EXCEPT ![i].stage = "snapshot", ![i].inner = versionId,
                            ![i].content = model.content, ![i].mtime = stat]
  /\ running' = [slot |-> i, id |-> versionId]
  /\ mode' = [mode EXCEPT !.error = FALSE]
  /\ UNCHANGED <<disk, model, versionId, dirty, savedVersion, stat, resolving, reverting,
                 reloads, fileEvent, queued, fresh, kept, chances>>

\* The snapshot shows the model as it was or as it has become meanwhile.
SnapshotDone(i) ==
  /\ saves[i].stage = "snapshot"
  /\ ~saves[i].cancelled
  /\ \E c \in {saves[i].content, model.content} :
       saves' = [saves EXCEPT ![i].stage = "writing", ![i].content = c]
  /\ UNCHANGED <<disk, model, versionId, dirty, savedVersion, mode, stat, resolving,
                 reverting, reloads, fileEvent, running, queued, fresh, kept, chances>>

\* The file service refuses to replace a file that is newer than the stat which
\* the save took, unless its size is the same, and otherwise writes it or fails.
WriteFile(i) ==
  /\ saves[i].stage = "writing"
  /\ \/ /\ disk.mtime < MaxWrites
        /\ disk' = [content |-> saves[i].content, mtime |-> disk.mtime + 1]
        /\ kept' = kept \cup {saves[i].content}
        /\ saves' = [saves EXCEPT ![i].stage = "written", ![i].mtime = disk.mtime + 1]
        /\ fileEvent' = TRUE
     \/ /\ ~saves[i].overwrite /\ disk.mtime > saves[i].mtime
        /\ saves' = [saves EXCEPT ![i].stage = "conflict"]
        /\ UNCHANGED <<disk, kept, fileEvent>>
     \/ /\ saves' = [saves EXCEPT ![i].stage = "failed"]
        /\ UNCHANGED <<disk, kept, fileEvent>>
  /\ UNCHANGED <<model, versionId, dirty, savedVersion, mode, stat, resolving, reverting,
                 reloads, running, queued, fresh, chances>>

\* Mutant of SaveEnds: the outer task is done with whatever runs.
SaveEndsForAll(i, m) ==
  LET done == SaveUnderWay /\ running.id \in {saves[i].inner, saves[i].outer}
      next == done /\ queued.queued /\ (queued.options.force \/ dirty')
  IN /\ saves' = [saves EXCEPT ![i] = IF next THEN Begun(queued.options, versionId) ELSE NoSave]
     /\ running' = IF done THEN NoRun ELSE running
     /\ queued' = IF done THEN NotQueued ELSE queued
     /\ mode' = [m EXCEPT !.error = @ /\ ~(next /\ ~queued.options.participants)]

\* Mutant of SaveEnds: only the outer task is ever done.
SaveEndsOuterOnly(i, m) ==
  LET done == SaveUnderWay /\ running.id = saves[i].outer
      next == done /\ queued.queued /\ (queued.options.force \/ dirty')
  IN /\ saves' = [saves EXCEPT ![i] = IF next THEN Begun(queued.options, versionId) ELSE NoSave]
     /\ running' = IF ~done THEN running
                   ELSE IF next /\ versionId # saves[i].outer THEN [slot |-> i, id |-> versionId]
                   ELSE NoRun
     /\ queued' = IF done THEN NotQueued ELSE queued
     /\ mode' = [m EXCEPT !.error = @ /\ ~(next /\ ~queued.options.participants)]

\* doneRunning for the inner and for the outer task: the task that is running
\* is done only if its id is the same.  What is queued starts then, unless the
\* copy is clean by now; m are the modes that this save leaves.
SaveEnds(i, m) ==
  LET done == SaveUnderWay /\ running.id \in {saves[i].inner, saves[i].outer}
      next == done /\ queued.queued /\ (queued.options.force \/ dirty')
  IN /\ saves' = [saves EXCEPT ![i] = IF next THEN Begun(queued.options, versionId) ELSE NoSave]
     /\ running' = IF ~done THEN running
                   ELSE IF next /\ versionId # saves[i].outer THEN [slot |-> i, id |-> versionId]
                   ELSE NoRun
     /\ queued' = IF done THEN NotQueued ELSE queued
     /\ mode' = [m EXCEPT !.error = @ /\ ~(next /\ ~queued.options.participants)]

CancelledSaveEnds(i) ==
  /\ saves[i].stage \in {"participants", "snapshot"}
  /\ saves[i].cancelled
  /\ UNCHANGED <<disk, model, versionId, dirty, savedVersion, stat, resolving, reverting,
                 reloads, fileEvent, fresh, kept, chances>>
  /\ SaveEnds(i, mode)

\* A stat is taken unless it is older.
Newer(mtime) == IF stat <= mtime THEN mtime ELSE stat

\* Mutant of HandleSaveSuccess: clean whatever was typed during the save.
HandleSaveSuccessAnyVersion(i) ==
  /\ saves[i].stage = "written"
  /\ stat' = Newer(saves[i].mtime)
  /\ LET clean == TRUE
     IN /\ dirty' = (dirty /\ ~clean)
        /\ savedVersion' = IF clean THEN model.content ELSE savedVersion
        /\ UNCHANGED <<disk, model, versionId, resolving, reverting, reloads, fileEvent,
                       fresh, kept, chances>>
        /\ SaveEnds(i, [conflict |-> mode.conflict /\ ~clean, error |-> mode.error /\ ~clean])

HandleSaveSuccess(i) ==
  /\ saves[i].stage = "written"
  /\ stat' = Newer(saves[i].mtime)
  /\ LET clean == saves[i].inner = versionId
     IN /\ dirty' = (dirty /\ ~clean)
        /\ savedVersion' = IF clean THEN model.content ELSE savedVersion
        /\ UNCHANGED <<disk, model, versionId, resolving, reverting, reloads, fileEvent,
                       fresh, kept, chances>>
        /\ SaveEnds(i, [conflict |-> mode.conflict /\ ~clean, error |-> mode.error /\ ~clean])

HandleSaveError(i) ==
  /\ saves[i].stage \in {"conflict", "failed"}
  /\ dirty' = TRUE
  /\ UNCHANGED <<disk, model, versionId, savedVersion, stat, resolving, reverting, reloads,
                 fileEvent, fresh, kept, chances>>
  /\ SaveEnds(i, [conflict |-> mode.conflict \/ saves[i].stage = "conflict", error |-> TRUE])

(***************************************************************************)
(* Resolving again from the file, for a reload or for a revert.  The       *)
(* manager lets one of them wait for the other.  The read passes the etag  *)
(* of the copy, also for a revert: the manager does not hand the           *)
(* forceReadFromFile of the copy on.                                       *)
(***************************************************************************)
MayResolve == resolving = NoResolve /\ ~dirty' /\ ~SaveUnderWay

StartRead(why) ==
  resolving' = [stage |-> "reading", why |-> why, etag |-> stat, version |-> versionId,
                content |-> NoContent]

\* The watcher tells of a change.  At most one reload runs and one waits.
FileChanged ==
  /\ fileEvent
  /\ fileEvent' = FALSE
  /\ reloads' = IF ~dirty /\ reloads <= 1 THEN reloads + 1 ELSE reloads
  /\ UNCHANGED <<disk, model, versionId, dirty, savedVersion, mode, stat, resolving,
                 reverting, saves, running, queued, fresh, kept, chances>>

\* The next reload of the queue, after any pending resolve and what waits for it.
Reload ==
  /\ reloads > 0
  /\ resolving = NoResolve
  /\ reverting.stage # "waiting"
  /\ UNCHANGED dirty
  /\ IF MayResolve THEN StartRead("reload") /\ UNCHANGED reloads
     ELSE reloads' = reloads - 1 /\ UNCHANGED resolving
  /\ UNCHANGED <<disk, model, versionId, savedVersion, mode, stat, reverting, fileEvent,
                 saves, running, queued, fresh, kept, chances>>

\* revert: the flags are cleared at once.  It is over at once when it is soft,
\* or when a save runs, for then the copy is not resolved.  Bound: one revert
\* at a time.
Revert(soft) ==
  /\ Happens("revert")
  /\ dirty
  /\ reverting = NoRevert
  /\ UNCHANGED <<disk, model, versionId, stat, reloads, fileEvent, saves, running, queued,
                 fresh>>
  /\ BecomeClean
  /\ kept' = kept \cup {model.content}
  /\ LET undo == [dirty |-> dirty, mode |-> mode, savedVersion |-> savedVersion]
     IN reverting' = IF soft \/ (SaveUnderWay /\ resolving = NoResolve) THEN NoRevert
                     ELSE IF MayResolve THEN [stage |-> "resolving", undo |-> undo]
                     ELSE [stage |-> "waiting", undo |-> undo]
  /\ IF ~soft /\ MayResolve THEN StartRead("revert") ELSE UNCHANGED resolving

\* The resolve for which a revert waited is over.
RevertResolves ==
  /\ reverting.stage = "waiting"
  /\ resolving = NoResolve
  /\ UNCHANGED dirty
  /\ IF MayResolve
     THEN StartRead("revert") /\ reverting' = [reverting EXCEPT !.stage = "resolving"]
     ELSE reverting' = NoRevert /\ UNCHANGED resolving
  /\ UNCHANGED <<disk, model, versionId, savedVersion, mode, stat, reloads, fileEvent,
                 saves, running, queued, fresh, kept, chances>>

ResolveEnds ==
  /\ resolving' = NoResolve
  /\ IF resolving.why = "revert" THEN reverting' = NoRevert /\ UNCHANGED reloads
     ELSE reloads' = reloads - 1 /\ UNCHANGED reverting

\* The file service has the stat of the file.  Nothing is loaded if it is the
\* stat of the copy, or if the model has changed meanwhile.
StatRead ==
  /\ resolving.stage = "reading"
  /\ IF disk.mtime = resolving.etag
     THEN stat' = Newer(disk.mtime) /\ ResolveEnds
     ELSE IF versionId # resolving.version
     THEN UNCHANGED stat /\ ResolveEnds
     ELSE /\ stat' = Newer(disk.mtime)
          /\ resolving' = [resolving EXCEPT !.stage = "updating"]
          /\ UNCHANGED <<reverting, reloads>>
  /\ UNCHANGED <<disk, model, versionId, dirty, savedVersion, mode, fileEvent, saves,
                 running, queued, fresh, kept, chances>>

\* The content follows, which the model then parses.
ContentRead ==
  /\ resolving.stage = "updating"
  /\ resolving' = [resolving EXCEPT !.stage = "parsing", !.content = disk.content]
  /\ UNCHANGED <<disk, model, versionId, dirty, savedVersion, mode, stat, reverting,
                 reloads, fileEvent, saves, running, queued, fresh, kept, chances>>

\* The model has the content of the file: the copy is clean.
ModelUpdated ==
  /\ resolving.stage = "parsing"
  /\ model' = [content |-> resolving.content, undo |-> NoContent]
  /\ versionId' = versionId + 1
  /\ BecomeClean
  /\ ResolveEnds
  /\ UNCHANGED <<disk, stat, fileEvent, saves, running, queued, fresh, kept, chances>>

\* The stat, the content or the update fails.  A revert sets the flags back.
ResolveFails ==
  /\ Happens("failed load")
  /\ resolving # NoResolve
  /\ IF resolving.why = "revert"
     THEN /\ dirty' = reverting.undo.dirty
          /\ mode' = reverting.undo.mode
          /\ savedVersion' = reverting.undo.savedVersion
     ELSE UNCHANGED <<dirty, mode, savedVersion>>
  /\ ResolveEnds
  /\ UNCHANGED <<disk, model, versionId, stat, fileEvent, saves, running, queued, fresh,
                 kept>>

\* Somebody else writes the file.
ForeignWrite ==
  /\ Happens("foreign write")
  /\ fresh < MaxContent
  /\ disk.mtime < MaxWrites
  /\ fresh' = fresh + 1
  /\ disk' = [content |-> fresh', mtime |-> disk.mtime + 1]
  /\ kept' = kept \cup {fresh'}
  /\ fileEvent' = TRUE
  /\ UNCHANGED <<model, versionId, dirty, savedVersion, mode, stat, resolving, reverting,
                 reloads, saves, running, queued>>

-----------------------------------------------------------------------------
SaveStep ==
  \E i \in Slot :
    \/ ParticipantsDone(i)
    \/ SnapshotDone(i)
    \/ CancelledSaveEnds(i)
    \/ WriteFile(i)
    \/ HandleSaveSuccess(i)
    \/ HandleSaveError(i)

CopyNext ==
  \/ Edit
  \/ UndoOrRedo
  \/ \E o \in SaveOptions : Save(o)
  \/ \E i \in Slot : CancelSave(i)
  \/ SaveStep
  \/ FileChanged
  \/ Reload
  \/ \E soft \in BOOLEAN : Revert(soft)
  \/ RevertResolves
  \/ StatRead
  \/ ContentRead
  \/ ModelUpdated
  \/ ResolveFails
  \/ ForeignWrite

\* Participants end, the file service answers and promises settle; nothing
\* makes anybody edit, save, revert or write the file.
CopyFairness == WF_copyVars(SaveStep)

CopySpec == CopyInit /\ [][CopyNext]_copyVars
FairCopySpec == CopySpec /\ CopyFairness

-----------------------------------------------------------------------------
Modes == [conflict : BOOLEAN, error : BOOLEAN]

Saving ==
  [stage : {"participants", "snapshot", "writing", "written", "conflict", "failed"},
   outer : Nat, inner : Nat, overwrite : BOOLEAN, cancelled : BOOLEAN,
   content : Content, mtime : Nat]

Resolving ==
  [stage : {"reading", "updating", "parsing"}, why : {"reload", "revert"},
   etag : Nat, version : Nat, content : Content \cup {NoContent}]

Reverting ==
  [stage : {"waiting", "resolving"},
   undo : [dirty : BOOLEAN, mode : Modes, savedVersion : Content \cup {NoContent}]]

CopyTypeOK ==
  /\ disk \in [content : Content, mtime : Nat]
  /\ model \in [content : Content, undo : Content \cup {NoContent}]
  /\ versionId \in Nat /\ fresh \in Content /\ stat \in Nat /\ reloads \in 0 .. 2
  /\ dirty \in BOOLEAN /\ fileEvent \in BOOLEAN
  /\ savedVersion \in Content \cup {NoContent}
  /\ mode \in Modes
  /\ kept \subseteq Content
  /\ resolving \in {NoResolve} \cup Resolving
  /\ reverting \in {NoRevert} \cup Reverting
  /\ saves \in [Slot -> {NoSave} \cup Saving]
  /\ running \in {NoRun} \cup [slot : Slot, id : Nat]
  /\ queued \in {NotQueued} \cup [queued : {TRUE}, options : SaveOptions]

(***************************************************************************)
(* "Never ever must 2 saves execute at the same time": doSave asks the     *)
(* sequentializer, which forgets a task when one with the same id is done, *)
(* and a save runs two tasks whose ids are versions.  Two saves never run, *)
(* and the task that the sequentializer takes for running is the save.     *)
(***************************************************************************)
NeverTwoSaves ==
  \A i \in Slot : saves[i] # NoSave => SaveUnderWay /\ running.slot = i

(***************************************************************************)
(* What a copy shows while it is not dirty is not lost when it is closed:  *)
(* it has been in the file, or its user has given it up, by a revert or by *)
(* typing while the model was updated from the file.                       *)
(***************************************************************************)
CleanMeansStored ==
  ~dirty => model.content \in kept

(***************************************************************************)
(* The saves end, whatever is requested, edited or cancelled meanwhile, and*)
(* what waits in the queue has its turn and ends as well.  (Edits do end   *)
(* here; who edits and saves for ever may always have a save under way.)   *)
(***************************************************************************)
SavesEnd == SaveUnderWay ~> ~SaveUnderWay

(***************************************************************************)
(* "Force read from disk unless reverting soft" (revert): a revert that    *)
(* does not fail leaves the copy with what is in the file, unless the      *)
(* watcher has yet to tell of a change.                                    *)
(***************************************************************************)
RevertReadsFile ==
  [][reverting.stage = "resolving" /\ reverting' = NoRevert /\ ~dirty' =>
       model'.content = disk'.content \/ fileEvent']_copyVars
=============================================================================
