---------------------- MODULE MCExtensionHostConnection ----------------------
(* Small instances of ExtensionHostConnection. *)
EXTENDS ExtensionHostConnection
=============================================================================
