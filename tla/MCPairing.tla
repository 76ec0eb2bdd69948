------------------------------ MODULE MCPairing ------------------------------
(***************************************************************************)
(* An instance of Pairing for TLC: one pairing, and two administrators     *)
(* whose rotations can run side by side.                                   *)
(***************************************************************************)
EXTENDS Pairing

CONSTANTS a1, a2, p1

MCPairing == {p1}
MCAdmin == {a1, a2}
=============================================================================
