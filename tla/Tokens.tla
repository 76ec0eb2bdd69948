------------------------------- MODULE Tokens -------------------------------
(***************************************************************************)
(* Personal access tokens and the bootstrap token (internal/auth/pat.go,   *)
(* internal/httpapi/pats.go) on top of the accounts.                       *)
(*                                                                         *)
(* At start-up RunBootstrapPAT mints a token for the service account and   *)
(* leaves it in a file: it takes a lock on the data directory, claims the  *)
(* file by creating it empty, commits the token's row, writes the file and *)
(* syncs it.  A write or sync that fails is undone: the row is revoked,    *)
(* then the file is removed, and either can fail too.  Two servers can     *)
(* start over the same directory, and one can stop between any two steps.  *)
(* A token is its row's number; scopes and optional ends are left out.     *)
(***************************************************************************)
EXTENDS Accounts

CONSTANTS Boot,     \* the servers that start with the bootstrap setting
          MaxPat    \* bound: tokens minted

VARIABLES pats, file, boot

tokenVars == <<pats, file, boot>>
allVars == <<vars, tokenVars>>

Absent == 0 - 1
Empty == 0
Torn == 0 - 2       \* a part of a token
NotBooting == [step |-> "off", pat |-> None]

TokensInit ==
    /\ Init
    /\ pats = <<>> /\ file = Absent
    /\ boot = [b \in Boot |-> NotBooting]

-----------------------------------------------------------------------------
\* dropped: revoked by hand; abandoned: a start that had to undo it did not
\* get to remove the file (both are history).
NewPat(u, name) ==
    [owner |-> u, name |-> name, revoked |-> FALSE, dropped |-> FALSE, abandoned |-> FALSE]

RevokeUserPAT(t, owner) ==
    IF pats[t].owner = owner /\ ~pats[t].revoked
    THEN [pats EXCEPT ![t].revoked = TRUE, ![t].dropped = TRUE] ELSE pats
RevokeUserPATByHash(t) == [pats EXCEPT ![t].revoked = TRUE]

\* EnsureBootstrapUser and PromoteBootstrapUserToAdmin: live and admin again.
BootstrapUser == [users EXCEPT ![Service] = [state |-> "live", admin |-> TRUE, password |-> 0]]

LiveBootstrap == {t \in DOMAIN pats : pats[t].name = "bootstrap" /\ ~pats[t].revoked}

LiveAdmin(u) == Live(u) /\ users[u].admin

\* GetUserPATByHash: the row, and its owner a live admin now.
Accepted(t) == t \in DOMAIN pats /\ ~pats[t].revoked /\ LiveAdmin(pats[t].owner)

\* RequirePAT: the token stands for its owner, as a verified admin.
EnterByPAT(c, t, op, u) ==
    LET own == pats[t].owner
    IN  /\ Offered(op) /\ Free(c) /\ Accepted(t)
        /\ op \in AdminOps \cup TokenOps
        /\ op \in NotSelf => u # own
        /\ op \in TokenOps => u = own
        /\ op \in {"create", "reset"} => u \in User
        /\ op # "create" => users[u].state # "none"
        /\ Begin(c, [NoRequest EXCEPT !.op = op, !.step = "act", !.of = u, !.own = own])
        /\ UNCHANGED <<accountVars, limiter, clock, made, mix, spent, mishaps, tokenVars>>

\* Mint looks at the owner again, in the transaction that inserts.
Mint(u) == IF LiveAdmin(u) THEN Append(pats, NewPat(u, "other")) ELSE pats

MintPAT(c) ==
    /\ Acting(c, "mint") /\ Len(pats) < MaxPat
    /\ pats' = Mint(req[c].own)
    /\ Finish(c)
    /\ UNCHANGED <<accountVars, limiter, clock, made, mix, spent, mishaps, file, boot>>

\* Revoke, of the caller's own tokens.
RevokePAT(c, t) ==
    /\ Acting(c, "retire") /\ t \in DOMAIN pats
    /\ pats' = RevokeUserPAT(t, req[c].own)
    /\ Finish(c)
    /\ UNCHANGED <<accountVars, limiter, clock, made, mix, spent, mishaps, file, boot>>

-----------------------------------------------------------------------------
(* RunBootstrapPAT.                                                        *)

Booting(b, step) == boot[b].step = step

BootStep(b, step, pat) ==
    /\ boot' = [boot EXCEPT ![b] = [step |-> step, pat |-> pat]]
    /\ UNCHANGED <<sessions, resets, jobs, factor, pending, codes, req, limiter, clock, made, mix, spent>>

\* flockExclusive; a server that waits too long gives up and does not start.
BootLock(b) ==
    /\ Offered("boot") /\ Booting(b, "off")
    /\ \A other \in Boot : Booting(other, "off")
    /\ left' = left - 1
    /\ BootStep(b, "claim", None)
    /\ UNCHANGED <<users, pats, file, mishaps>>

\* The file is created, or a claim that a crash left empty is taken over; a
\* file with a token in it ends the bootstrap.
BootClaim(b) ==
    /\ Booting(b, "claim")
    /\ IF file \in {Absent, Empty}
       THEN file' = Empty /\ BootStep(b, "mint", None)
       ELSE file' = file /\ BootStep(b, "off", None)
    /\ UNCHANGED <<users, pats, left, mishaps>>

\* Mutant: the tokens of earlier claims stay live.
KeepBootstrapPATs == pats
RevokeLiveBootstrapPATs ==
    [t \in DOMAIN pats |-> IF t \in LiveBootstrap THEN [pats[t] EXCEPT !.revoked = TRUE] ELSE pats[t]]

\* One transaction: the account, live and admin again, its earlier tokens
\* revoked, the new one inserted.
BootMint(b) ==
    /\ Booting(b, "mint") /\ Len(pats) < MaxPat
    /\ users' = BootstrapUser
    /\ pats' = Append(RevokeLiveBootstrapPATs, NewPat(Service, "bootstrap"))
    /\ BootStep(b, "write", Len(pats'))
    /\ UNCHANGED <<file, left, mishaps>>

\* WriteString; the name of the file was claimed, but an operator may have
\* removed it.
BootWrite(b) ==
    /\ Booting(b, "write")
    /\ file' = IF file = Empty THEN boot[b].pat ELSE file
    /\ BootStep(b, "sync", boot[b].pat)
    /\ UNCHANGED <<users, pats, left, mishaps>>

\* Sync and Close succeed.
BootSync(b) ==
    /\ Booting(b, "sync") /\ BootStep(b, "off", None)
    /\ UNCHANGED <<users, pats, file, left, mishaps>>

\* One step fails: the claim (the empty file may be gone), the transaction,
\* the write (a part of the token may be in the file), or Sync or Close (all
\* of it is).
BootFails(b) ==
    /\ mishaps < mix.mishaps /\ mishaps' = mishaps + 1
    /\ \/ /\ Booting(b, "claim") /\ BootStep(b, "off", None)
          /\ file' \in {file} \cup (IF file = Empty THEN {Absent} ELSE {})
       \/ /\ Booting(b, "mint") /\ BootStep(b, "remove", None)
          /\ file' = file
       \/ /\ Booting(b, "write") /\ BootStep(b, "revoke", boot[b].pat)
          /\ file' \in {file} \cup (IF file = Empty THEN {Torn} ELSE {})
       \/ /\ Booting(b, "sync") /\ BootStep(b, "revoke", boot[b].pat)
          /\ file' = file
    /\ UNCHANGED <<users, pats, left>>

\* fail: the token is revoked in a transaction of its own, whose error is
\* only logged.
BootRevoke(b) ==
    /\ Booting(b, "revoke") /\ BootStep(b, "remove", boot[b].pat)
    /\ \/ pats' = RevokeUserPATByHash(boot[b].pat) /\ mishaps' = mishaps
       \/ pats' = pats /\ mishaps < mix.mishaps /\ mishaps' = mishaps + 1
    /\ UNCHANGED <<users, file, left>>

Abandon(t) == IF t = None THEN pats ELSE [pats EXCEPT ![t].abandoned = TRUE]

\* The deferred Close and Remove; the error of neither is looked at.
BootRemove(b) ==
    /\ Booting(b, "remove") /\ BootStep(b, "off", None)
    /\ \/ file' = Absent /\ UNCHANGED <<pats, mishaps>>
       \/ /\ mishaps < mix.mishaps /\ mishaps' = mishaps + 1
          /\ pats' = Abandon(boot[b].pat) /\ file' = file
    /\ UNCHANGED <<users, left>>

\* The starting server dies, or the machine does, before what was written is
\* on the disk; the lock goes with it.
BootDies(b) ==
    /\ ~Booting(b, "off") /\ mishaps < mix.mishaps
    /\ mishaps' = mishaps + 1
    /\ file' \in {file} \cup (IF Booting(b, "sync") /\ file > 0 THEN {Empty, Torn} ELSE {})
    /\ pats' = IF Booting(b, "remove") THEN Abandon(boot[b].pat) ELSE pats
    /\ BootStep(b, "off", None)
    /\ UNCHANGED <<users, left>>

\* An operator removes the file, to have another token minted.
RemoveFile ==
    /\ Offered("boot") /\ file # Absent
    /\ file' = Absent /\ left' = left - 1
    /\ UNCHANGED <<accountVars, req, limiter, clock, made, mix, spent, mishaps, pats, boot>>

TokensNext ==
    \/ AccountsNext /\ UNCHANGED tokenVars
    \/ \E c \in Client :
        \/ \E t \in DOMAIN pats : RevokePAT(c, t)
                                  \/ \E op \in mix.ops, u \in Account : EnterByPAT(c, t, op, u)
        \/ MintPAT(c)
    \/ \E b \in Boot : BootLock(b) \/ BootClaim(b) \/ BootMint(b) \/ BootWrite(b) \/ BootSync(b)
                       \/ BootFails(b) \/ BootRevoke(b) \/ BootRemove(b) \/ BootDies(b)
    \/ RemoveFile

Spec == TokensInit /\ [][TokensNext]_allVars

-----------------------------------------------------------------------------
(* Properties.                                                             *)

\* Whatever starts of two servers are cut short or undone, and wherever they
\* stop, one bootstrap token at most is live, and a whole token in the file is
\* it.  It is not only when it was revoked by hand, while the start that
\* revokes it is about to remove the file, or when that start died there or
\* could not remove it, which no later start makes up for (RunBootstrapPAT).
BootstrapTrue ==
    /\ Cardinality(LiveBootstrap) <= 1
    /\ file > 0 => \/ LiveBootstrap = {file}
                   \/ pats[file].dropped \/ pats[file].abandoned
                   \/ \E b \in Boot : Booting(b, "remove") /\ boot[b].pat = file
=============================================================================
