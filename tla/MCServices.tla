----------------------------- MODULE MCServices -----------------------------
(***************************************************************************)
(* Small instances of services of a window side by side: the backup of a   *)
(* working copy, undo and redo, the calls to the extension host, a channel *)
(* to another process, an emitter, and the changes of files that a watcher *)
(* tells.  They share nothing, so one of them acts and the others are as   *)
(* they were made.                                                         *)
(***************************************************************************)
EXTENDS WorkingCopyBackups, MCUndoRedo, RPCProtocol, Channels, Emitter

CONSTANT MaxChanges   \* EventCoalescer

VARIABLES
  part,   \* the one that acts
  tree, reader, coalesced, latest, early, changes

watcherVars == <<tree, reader, coalesced, latest, early, changes>>
serviceVars == <<part, backupVars, undoVars, rpcVars, channelVars, emitterVars,
                 watcherVars>>

\* A file and a folder with a file, on a platform that ignores the case of names.
Lowercase(name) == IF name = "F" THEN "f" ELSE name
Paths == {<<"f">>, <<"F">>, <<"f", "x">>, <<"F", "x">>}
Watcher == INSTANCE EventCoalescer WITH Path <- Paths, Lower <- Lowercase

\* A part that does not act has but one initial state.  The two sides of the calls to the
\* extension host are alike, so one of the calls is made by the window.
ServiceInit ==
  /\ part \in {"backup", "undo", "rpc", "channel", "emitter", "watcher"}
  /\ BackupInit /\ UndoInit /\ RpcInit /\ ChannelInit
  /\ EmitterInit /\ Watcher!CoalescerInit
  /\ part # "undo" => plan = <<Typing(file1), Typing(file1)>>
  /\ caller[CHOOSE r \in RemoteCalls : TRUE] = "window"
  /\ part # "rpc" => \A r \in RemoteCalls :
                        caller[r] = "window" /\ token[r] = "none"
  /\ part # "channel" => registered
  /\ part # "watcher" => \A p \in Paths : tree[p] = Watcher!Absent

Backing(A) ==
  /\ part = "backup" /\ A
  /\ UNCHANGED <<part, undoVars, rpcVars, channelVars, emitterVars, watcherVars>>
Undoing(A) ==
  /\ part = "undo" /\ A
  /\ UNCHANGED <<part, backupVars, rpcVars, channelVars, emitterVars, watcherVars>>
Remote(A) ==
  /\ part = "rpc" /\ A
  /\ UNCHANGED <<part, backupVars, undoVars, channelVars, emitterVars, watcherVars>>
Calling(A) ==
  /\ part = "channel" /\ A
  /\ UNCHANGED <<part, backupVars, undoVars, rpcVars, emitterVars, watcherVars>>
Emitting(A) ==
  /\ part = "emitter" /\ A
  /\ UNCHANGED <<part, backupVars, undoVars, rpcVars, channelVars, watcherVars>>
Watching(A) ==
  /\ part = "watcher" /\ A
  /\ UNCHANGED <<part, backupVars, undoVars, rpcVars, channelVars, emitterVars>>

\* The next-state relations, action by action.
BackupsNext ==
  \/ Backing(StartOp) \/ Backing(FinishOp)
  \/ Backing(TimerFires) \/ Backing(StoreBackup)
  \/ Backing(EditCopy) \/ Backing(SaveCopy)
  \/ \E soft \in BOOLEAN : Backing(RevertCopy(soft))
  \/ Backing(CloseCopy) \/ Backing(OpenCopy)
  \/ Backing(BeforeShutdown) \/ Backing(AutoSaved)
  \/ Backing(BackupExists) \/ Backing(BackupAtShutdown) \/ Backing(CancelProgress)
  \/ Backing(FolderDeleted) \/ Backing(ShutdownDecided)
  \/ Backing(Veto) \/ Backing(ShutdownAnyway)
  \/ Backing(ConfirmSave) \/ Backing(Saved) \/ Backing(DontSave)
  \/ Backing(WillShutdown) \/ Backing(WindowGoes)
  \/ Backing(Crash) \/ Backing(Restart)

UndosNext ==
  \/ Undoing(Push)
  \/ \E m \in Model :
       \/ Undoing(SetValue(m))
       \/ \E evicted \in SUBSET Model : Undoing(CloseMaintained(m, evicted))
       \/ Undoing(CloseDropped(m)) \/ Undoing(Reopen(m)) \/ Undoing(ReopenOther(m))
       \/ \E side \in {"past", "future"} : Undoing(Ask(side, m))
  \/ \E side \in {"past", "future"} : Undoing(AskSource(side, 1))
  \/ Undoing(CallNothing) \/ Undoing(CallInGroup) \/ Undoing(CallConfirm)
  \/ Undoing(CallResource) \/ Undoing(CallResourceInvalid) \/ Undoing(CallWorkspace)
  \/ \E f \in DOMAIN flows :
       \/ \E yes \in BOOLEAN : Undoing(ConfirmAnswered(f, yes))
       \/ Undoing(PromptCancelled(f)) \/ Undoing(PromptAnsweredThis(f))
       \/ Undoing(PromptAnsweredAll(f))
       \/ Undoing(AllPrepared(f)) \/ Undoing(Prepared(f))
       \/ Undoing(FilesDone(f)) \/ Undoing(FilesFail(f))

RemoteNext ==
  \/ \E c \in RemoteCalls :
       \/ Remote(RemoteCall(c)) \/ Remote(RemoteCallOfNothing(c)) \/ Remote(CancelToken(c))
  \/ \E s \in Side :
       \/ Remote(ReceiveRequest(s)) \/ Remote(ReceiveCancel(s)) \/ Remote(ReceiveAck(s))
       \/ Remote(ReceiveReply(s)) \/ Remote(ReceiveDisposed(s))
       \/ \E how \in {"ok", "error"} : Remote(HandlerEnds(s, how))
       \/ Remote(TimePasses(s)) \/ Remote(CheckUnresponsive(s)) \/ Remote(DisposeSide(s))

ChannelsNext ==
  \/ \E c \in Call :
       \/ Calling(RequestPromise(c)) \/ Calling(Cancel(c)) \/ Calling(Answer(c))
  \/ \E e \in Listenable :
       \/ Calling(Listen(e)) \/ Calling(Unlisten(e)) \/ Calling(EventFires(e))
  \/ Calling(ClientReceives) \/ Calling(ServerReceives)
  \/ \E i \in DOMAIN pendingRequests : Calling(RequestTimesOut(i))
  \/ Calling(RegisterChannel) \/ Calling(FlushPendingRequests)

EmittersNext ==
  \/ \E l \in Listener : Emitting(Add(l)) \/ Emitting(RemoveListener(l))
  \/ Emitting(DisposeEmitter) \/ Emitting(FireEvent)
  \/ Emitting(Deliver) \/ Emitting(Return)

WatcherNext ==
  \/ \E p \in Paths :
       \/ Watching(Watcher!Create(p)) \/ Watching(Watcher!Write(p))
       \/ Watching(Watcher!Delete(p))
  \/ \E p, q \in Paths : Watching(Watcher!RenameCase(p, q))
  \/ Watching(Watcher!Deliver)

ServiceNext ==
  \/ BackupsNext \/ UndosNext \/ RemoteNext \/ ChannelsNext \/ EmittersNext \/ WatcherNext

\* The fairness of each part.
ServiceSpec ==
  /\ ServiceInit /\ [][ServiceNext]_serviceVars
  /\ RpcFairness
  /\ WF_serviceVars(Calling(ChannelProgress))

-----------------------------------------------------------------------------
\* Every variable of the part that acts has its type.
ServiceTypesOK ==
  /\ part = "backup" => BackupTypeOK
  /\ part = "undo" => UndoTypeOK
  /\ part = "rpc" => RpcTypeOK
  /\ part = "channel" => ChannelTypeOK
  /\ part = "emitter" => EmitterTypeOK
  /\ part = "watcher" => Watcher!CoalescerTypeOK

\* A client that is told the coalesced changes has the tree as it is.
SameTree == part = "watcher" => Watcher!SameTree

\* Every call on the channel that acts settles.
CallsSettle == part = "channel" => CallsEnd

\* Every call to or from the extension host that acts settles.
RemoteCallsSettle == part = "rpc" => RemoteCallsEnd
=============================================================================
