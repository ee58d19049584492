----------------------- MODULE MCPersistentProtocol -----------------------
(***************************************************************************)
(* Small instances of PersistentProtocol.                                  *)
(***************************************************************************)
EXTENDS PersistentProtocol

CONSTANTS a, b, x, y

MCData == {a, b, x, y}

\* Two messages, of the client or of the server only: enough for a gap.
MCClientScript == [e \in Ends |-> IF e = Client THEN <<a, b>> ELSE << >>]
MCServerScript == [e \in Ends |-> IF e = Client THEN << >> ELSE <<x, y>>]
=============================================================================
