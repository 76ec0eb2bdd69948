------------------------------- MODULE MCSync -------------------------------
(***************************************************************************)
(* Instance of Sync for TLC: three exports, a worker that can be off, or   *)
(* on with one of two export paths.                                        *)
(***************************************************************************)
EXTENDS Sync

CONSTANTS off, wide, narrow

MCConfig == {off, wide, narrow}
MCUnder == [c \in MCConfig |-> IF c = narrow THEN {1} ELSE Node]
=============================================================================
