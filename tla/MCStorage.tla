----------------------------- MODULE MCStorage -----------------------------
(* Small instances of Storage. *)
EXTENDS Storage

CONSTANTS k1, k2, v1, v2

MCKey == {k1, k2}
MCValue == {v1, v2}
OneValue == {v1}
=============================================================================
