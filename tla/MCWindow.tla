------------------------------ MODULE MCWindow ------------------------------
(***************************************************************************)
(* Small instances of two parts of a window side by side: its connections  *)
(* to the server, and a file that is edited in it.  They share nothing, so *)
(* one of them acts and the other one is as it was made.                   *)
(***************************************************************************)
EXTENDS MCPersistentConnection, MCStoredFileWorkingCopy

VARIABLE part   \* the part that acts

windowVars == <<part, vars, copyVars>>

\* What may happen to the file that is edited, besides saving it.
CopyChances ==
  {{"revert", "failed load"}, {"foreign write"}, {"cancel"}}

\* A part that does not act has but one initial state.
WindowInit ==
  /\ part \in {"connections", "copy"}
  /\ Init /\ CopyInit
  /\ part # "copy" => ~dirty /\ chances = {"cancel"}

Connections(A) == part = "connections" /\ A /\ UNCHANGED <<part, copyVars>>
Copy(A) == part = "copy" /\ A /\ UNCHANGED <<part, vars>>

\* Next and CopyNext, action by action.
WindowNext ==
  \/ \E c \in Connection :
       \/ Connections(Connect(c))
       \/ Connections(ConnectFails(c))
       \/ Connections(SocketLost(c))
       \/ Connections(WaitOver(c))
       \/ Connections(AddressResolved(c))
       \/ Connections(SocketCreated(c))
       \/ Connections(Answered(c))
       \/ Connections(AttemptFailsForGood(c))
       \/ Connections(AttemptFails(c))
       \/ Connections(Dispose(c))
  \/ \E i \in Slot :
       \/ Copy(CancelSave(i))
       \/ Copy(ParticipantsDone(i))
       \/ Copy(SnapshotDone(i))
       \/ Copy(CancelledSaveEnds(i))
       \/ Copy(WriteFile(i))
       \/ Copy(HandleSaveSuccess(i))
       \/ Copy(HandleSaveError(i))
  \/ \E o \in SaveOptions : Copy(Save(o))
  \/ \E soft \in BOOLEAN : Copy(Revert(soft))
  \/ Copy(Edit)
  \/ Copy(UndoOrRedo)
  \/ Copy(FileChanged)
  \/ Copy(Reload)
  \/ Copy(RevertResolves)
  \/ Copy(StatRead)
  \/ Copy(ContentRead)
  \/ Copy(ModelUpdated)
  \/ Copy(ResolveFails)
  \/ Copy(ForeignWrite)

WindowSpec == WindowInit /\ [][WindowNext]_windowVars /\ Fairness /\ CopyFairness

=============================================================================
