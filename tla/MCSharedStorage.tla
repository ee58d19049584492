-------------------------- MODULE MCSharedStorage --------------------------
(* Small instances of SharedStorage. *)
EXTENDS SharedStorage

CONSTANTS w1, w2, k1, k2, v1, v2

MCWindow == {w1, w2}
OneWindow == {w1}
OneKey == {k1}
TwoValues == {v1, v2}
=============================================================================
