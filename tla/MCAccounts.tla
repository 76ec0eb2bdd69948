------------------------------ MODULE MCAccounts ------------------------------
(***************************************************************************)
(* An instance of Tokens (and so of Accounts) for TLC.  Each behaviour has *)
(* one family of operations on offer, so that the families add up instead  *)
(* of multiplying: administrators against each other, passwords against    *)
(* sessions, the second factor, tokens, and a burst of logins.             *)
(***************************************************************************)
EXTENDS Tokens, TLC

CONSTANTS c1, c2, b1, b2

MCUser == 1 .. 2
MCClient == {c1, c2}
MCBoot == {b1, b2}

Family(ops, requests, ticks, mishaps0) ==
    [ops |-> ops, requests |-> requests, ticks |-> ticks, mishaps |-> mishaps0]

MCMixes ==
    {Family({"first admin", "login", "create", "disable", "reenable", "promote", "demote"}, 6, 1, 1),
     Family({"first admin", "login", "logout", "revoke", "forgot", "confirm", "reset"}, 5, 3, 1),
     Family({"first admin", "login", "setup", "enable", "challenge", "disable factor", "reset"}, 6, 2, 1),
     Family({"first admin", "create", "mint", "retire", "disable", "demote", "boot"}, 5, 1, 2),
     Family({"wrong login"}, 5, 3, 1)}

Symmetry == Permutations(MCClient) \cup Permutations(MCBoot)
=============================================================================
