---------------------- MODULE MCPersistentConnection ----------------------
(* Small instances of PersistentConnection. *)
EXTENDS PersistentConnection

CONSTANTS management, extensionHost

BothConnections == {management, extensionHost}
ManagementIsFatal == {management}
=============================================================================
