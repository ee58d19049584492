---------------------- MODULE MCStoredFileWorkingCopy ----------------------
(***************************************************************************)
(* Bounds for TLC: a plain save, one that runs participants, and a forced  *)
(* one that overwrites a newer file.                                       *)
(***************************************************************************)
EXTENDS StoredFileWorkingCopy

MCSaveOptions ==
  {[force |-> f, overwrite |-> f, participants |-> p] :
     <<f, p>> \in {<<FALSE, FALSE>>, <<FALSE, TRUE>>, <<TRUE, FALSE>>}}

\* One revert, and nothing else that goes wrong.
RevertOnly == {{"revert"}}
=============================================================================
