------------------------------- MODULE Accounts -------------------------------
(***************************************************************************)
(* Local accounts: users, sessions, password resets and the second factor  *)
(* (internal/httpapi/local_auth.go, password_reset.go, mfa_handlers.go,    *)
(* mfa_gate.go, settings.go; internal/auth/users, session and mfa).        *)
(*                                                                         *)
(* A request reads on the reader pool, computes a while, and then writes   *)
(* in a transaction of its own; every such gap is a state here, and the    *)
(* requests of several clients interleave in it.  A handler that only      *)
(* writes is one step after the middleware let it in.                      *)
(*                                                                         *)
(* A password is the number of times it was set; a TOTP code is the secret *)
(* and the time step it was computed for; a recovery code is the salt it   *)
(* was hashed with (one per enrolment here, eight in the code).  The       *)
(* service account of the bootstrap token is a user without a password.    *)
(***************************************************************************)
EXTENDS Limiter, Sequences

CONSTANTS
    User,           \* the local users, 1 .. n
    Client,         \* the clients whose requests run side by side
    Idle, Absolute, \* a session's idle and absolute timeouts
    TouchEvery,     \* how often its idle timeout is pushed back
    TokenTTL, PendingTTL,
    ResetSlots,     \* how many reset requests are worked on at a time
    Drift,          \* DriftTolerance
    Mixes,          \* bounds: the operations on offer together, how many requests
                    \* are made, the last tick, failed transactions and restarts
    MaxMade         \* bound: secrets and salts

ASSUME AccountsAssumption ==
    /\ User \subseteq Nat \ {0} /\ IsFiniteSet(User) /\ IsFiniteSet(Client)
    /\ {Idle, Absolute, TouchEvery, TokenTTL, PendingTTL, Drift, ResetSlots, MaxMade} \subseteq Nat
    /\ \A m \in Mixes : {m.requests, m.ticks, m.mishaps} \subseteq Nat

Service == 0                        \* ansible-bootstrap
Account == User \cup {Service}
None == 0

VARIABLES
    users,      \* users: state, is_admin, which password
    sessions,   \* sessions, in the order of their ids
    resets,     \* password_reset_tokens
    jobs,       \* reset requests being worked on
    factor,     \* mfa_credentials
    pending,    \* users.mfa_pending_secret and its time
    codes,      \* mfa_recovery_codes
    req,        \* a client's request between its steps
    limiter,    \* the limiters of login, reset, challenge and disable
    clock,
    made,       \* secrets and salts handed out
    mix, left,  \* the operations on offer; requests still to come
    spent,      \* history: secrets enrolled, codes accepted; twice, both
    mishaps

accountVars == <<users, sessions, resets, jobs, factor, pending, codes>>
vars == <<accountVars, req, limiter, clock, made, mix, left, spent, mishaps>>

NoRequest == [op |-> "none", step |-> "none", by |-> None, of |-> None, own |-> None,
              key |-> None, at |-> 0]
NoFactor == [secret |-> None, used |-> 0, salt |-> None]
NoSecret == [secret |-> None, at |-> 0]
Kinds == {"login", "reset", "challenge", "disable"}

Init ==
    /\ users = [u \in Account |-> [state |-> "none", admin |-> FALSE, password |-> 0]]
    /\ sessions = <<>> /\ resets = <<>> /\ jobs = {}
    /\ factor = [u \in User |-> NoFactor]
    /\ pending = [u \in User |-> NoSecret]
    /\ codes = <<>>
    /\ req = [c \in Client |-> NoRequest]
    /\ limiter = [k \in Kinds |-> Fresh]
    /\ clock = 1 /\ made = 0
    /\ mix \in Mixes /\ left = mix.requests
    /\ spent = [secrets |-> {}, again |-> {}, once |-> {}, twice |-> {}]
    /\ mishaps = 0

-----------------------------------------------------------------------------
(* The statements.                                                         *)

Local(u) == u \in User /\ users[u].state # "none"
Live(u) == users[u].state = "live"

\* CountUsers: rows with auth_provider 'system' do not count.
CountUsers == Cardinality({u \in User : users[u].state # "none"})

\* Mutant: disabled admins count too.
CountOtherLocalAdmins(u) == Cardinality({v \in User \ {u} : users[v].admin})

CountOtherActiveLocalAdmins(u) ==
    Cardinality({v \in User \ {u} : Live(v) /\ users[v].admin})

\* guardLastLocalAdmin passes; read in the transaction that writes.
Spare(u) == \/ ~(u \in User /\ Live(u) /\ users[u].admin)
            \/ CountOtherActiveLocalAdmins(u) > 0

NewUser(admin) == [state |-> "live", admin |-> admin, password |-> 1]

\* The service's transactions on users; a name that is taken is refused.
CreateLocalUser(u, admin) ==
    IF Local(u) THEN users ELSE [users EXCEPT ![u] = NewUser(admin)]

Disabled(u) ==
    IF Live(u) /\ Spare(u) THEN [users EXCEPT ![u].state = "disabled"] ELSE users

Reenabled(u) ==
    IF users[u].state = "disabled" THEN [users EXCEPT ![u].state = "live"] ELSE users

\* Only a demotion asks the guard.
AdminSet(u, admin) ==
    IF users[u].state = "none" \/ (~admin /\ ~Spare(u)) THEN users
    ELSE [users EXCEPT ![u].admin = admin]

UpdateUserPasswordHash(u) == [users EXCEPT ![u].password = @ + 1]

NewSession(u, password, now) ==
    [user |-> u, password |-> password, late |-> users[u].password # password,
     revoked |-> FALSE, mfa |-> FALSE, seen |-> now, idle |-> now + Idle, ends |-> now + Absolute]

RevokeSession(s) == [sessions EXCEPT ![s].revoked = TRUE]

TouchSession(s) ==
    IF sessions[s].revoked THEN sessions
    ELSE [sessions EXCEPT ![s].seen = clock, ![s].idle = clock + Idle]

SetSessionMFAVerified(s) == [sessions EXCEPT ![s].mfa = TRUE]

NewReset(u) == [user |-> u, ends |-> clock + TokenTTL, used |-> FALSE]

\* ConsumePasswordResetToken matches.
Consumable(t) == ~resets[t].used /\ clock < resets[t].ends

\* Mutant: every session but the first of the user is revoked.
RevokeLaterSessions(u) ==
    [s \in DOMAIN sessions |->
        IF sessions[s].user = u /\ \E r \in 1 .. s - 1 : sessions[r].user = u
        THEN [sessions[s] EXCEPT !.revoked = TRUE] ELSE sessions[s]]

RevokeAllUserSessions(u) ==
    [s \in DOMAIN sessions |->
        IF sessions[s].user = u THEN [sessions[s] EXCEPT !.revoked = TRUE] ELSE sessions[s]]

\* Mutant: the rows of an enrolment that ends are left.
KeepRecoveryCodes(u) == codes

\* DeleteRecoveryCodes: a deleted row stays in the sequence, blank.
Deleted == [user |-> None, salt |-> None, used |-> TRUE, stray |-> FALSE]
DeleteRecoveryCodes(u) ==
    [i \in DOMAIN codes |-> IF codes[i].user = u THEN Deleted ELSE codes[i]]

UpsertMFACredentials(u, secret, salt) ==
    [factor EXCEPT ![u] = [secret |-> secret, used |-> 0, salt |-> salt]]
DeleteMFACredentials(u) == [factor EXCEPT ![u] = NoFactor]

SetMFAPendingSecret(u, secret) == [pending EXCEPT ![u] = [secret |-> secret, at |-> clock]]
ClearMFAPendingSecret(u) == [pending EXCEPT ![u] = NoSecret]

\* InsertRecoveryCodes
NewCode(u, salt) == [user |-> u, salt |-> salt, used |-> FALSE, stray |-> FALSE]

\* Mutant: the step only has to be no older than the last one used.
AgainUsedStep(u, step) == factor[u].secret # None /\ factor[u].used <= step

\* UpdateLastUsedStep matches: by user, whichever enrolment is there now.
UpdateLastUsedStep(u, step) == factor[u].secret # None /\ factor[u].used < step

\* acceptTOTP, on the credentials read: the step is recent and not yet used.
acceptTOTP(creds, code) ==
    /\ code.secret = creds.secret
    /\ code.step \in clock - Drift .. clock + Drift
    /\ code.step > creds.used

-----------------------------------------------------------------------------
(* Requests.                                                               *)

Offered(op) == op \in mix.ops /\ left > 0
Free(c) == req[c] = NoRequest

Begin(c, r) == req' = [req EXCEPT ![c] = r] /\ left' = left - 1
Continue(c, r) == req' = [req EXCEPT ![c] = r] /\ left' = left
Finish(c) == Continue(c, NoRequest)

Failed(k) == limiter' = [limiter EXCEPT ![k] = Released(RecordFailure(@, clock))]
Succeeded(k) == limiter' = [limiter EXCEPT ![k] = Released(@)]

\* Session middleware: the cookie's row, then its user's.
Signed(s) ==
    /\ s \in DOMAIN sessions
    /\ ~sessions[s].revoked /\ clock < sessions[s].ends /\ clock < sessions[s].idle
    /\ Live(sessions[s].user)

MFAOps == {"setup", "enable", "disable factor", "challenge", "logout"}
AdminOps == {"create", "disable", "reenable", "promote", "demote", "revoke", "reset"}
TokenOps == {"mint", "retire"}
NotSelf == {"disable", "promote", "demote", "revoke"}

\* MFAGate: an enrolled user's session must be verified, for these paths not.
Gate(s, op) ==
    sessions[s].mfa \/ factor[sessions[s].user].secret = None \/ op \in MFAOps

\* The sliding idle timeout, pushed back at most every TouchEvery.
Touched(s) ==
    IF clock - sessions[s].seen < TouchEvery THEN sessions
    ELSE TouchSession(s)

\* The request passes the middleware and the handler's checks; from here on
\* the handler knows the user as it was then.
Enter(c, s, op, u) ==
    LET own == sessions[s].user
    IN  /\ op \in MFAOps \cup AdminOps \cup TokenOps
        /\ Offered(op) /\ Free(c) /\ Signed(s) /\ Gate(s, op)
        /\ op \in AdminOps \cup TokenOps => users[own].admin
        /\ op \in NotSelf => u # own
        /\ op \notin AdminOps => u = own
        /\ op \in {"create", "reset"} => u \in User
        /\ op # "create" => users[u].state # "none"
        /\ op = "challenge" => ~sessions[s].mfa
        /\ op = "setup" => factor[own].secret = None
        /\ IF op \in {"challenge", "disable factor"}
           THEN LET k == IF op = "challenge" THEN "challenge" ELSE "disable"
                IN  /\ Allowed(limiter[k], clock)
                    /\ limiter' = [limiter EXCEPT ![k] = Begun(@, clock)]
           ELSE limiter' = limiter
        /\ Begin(c, [NoRequest EXCEPT !.op = op, !.step = "act", !.by = s, !.of = u, !.own = own])
        /\ sessions' = Touched(s)
        /\ UNCHANGED <<users, resets, jobs, factor, pending, codes, clock, made, mix, spent, mishaps>>

Acting(c, op) == req[c].op = op /\ req[c].step = "act"

-----------------------------------------------------------------------------
(* First-run setup and login.                                              *)

\* handleSetupAdmin: the count and the row in one transaction.
SetupAdmin(c) ==
    /\ Offered("first admin") /\ Free(c) /\ CountUsers = 0
    /\ \E u \in User :
        /\ \A v \in User : u <= v
        /\ users' = [users EXCEPT ![u] = NewUser(TRUE)]
        /\ Begin(c, [NoRequest EXCEPT !.op = "login", !.step = "open", !.of = u, !.key = 1])
    /\ UNCHANGED <<sessions, resets, jobs, factor, pending, codes, limiter, clock, made, mix, spent, mishaps>>

\* handleLogin reads the row once; the hash it verifies against, and whether
\* the account is disabled, are what that read said.  A wrong password, an
\* unknown or a disabled user all count as one failure.
handleLogin(c, u, password) ==
    /\ Offered(IF password = 0 THEN "wrong login" ELSE "login")
    /\ Free(c) /\ Allowed(limiter["login"], clock)
    /\ limiter' = [limiter EXCEPT !["login"] = Begun(@, clock)]
    /\ LET good == Local(u) /\ Live(u) /\ password = users[u].password
       IN  Begin(c, [NoRequest EXCEPT !.op = "login", !.step = IF good THEN "slot" ELSE "refused",
                                      !.of = u, !.key = password])
    /\ UNCHANGED <<accountVars, clock, made, mix, spent, mishaps>>

LoginRefused(c) ==
    /\ req[c].op = "login" /\ req[c].step = "refused"
    /\ Failed("login") /\ Finish(c)
    /\ UNCHANGED <<accountVars, clock, made, mix, spent, mishaps>>

\* CreateSession: a transaction of its own, which looks at nothing else.
CreateSession(c) ==
    /\ req[c].op = "login" /\ req[c].step \in {"open", "slot"}
    /\ sessions' = Append(sessions, NewSession(req[c].of, req[c].key, clock))
    /\ IF req[c].step = "slot" THEN Succeeded("login") ELSE limiter' = limiter
    /\ Finish(c)
    /\ UNCHANGED <<users, resets, jobs, factor, pending, codes, clock, made, mix, spent, mishaps>>

\* handleLogout
Logout(c) ==
    /\ Acting(c, "logout")
    /\ sessions' = RevokeSession(req[c].by)
    /\ Finish(c)
    /\ UNCHANGED <<users, resets, jobs, factor, pending, codes, limiter, clock, made, mix, spent, mishaps>>

-----------------------------------------------------------------------------
(* The administrators' handlers: the write that ends each of them.         *)

Administered(c) ==
    /\ Finish(c)
    /\ UNCHANGED <<resets, jobs, pending, limiter, clock, made, mix, spent, mishaps>>

CreateUser(c) ==
    /\ Acting(c, "create")
    /\ \E admin \in BOOLEAN : users' = CreateLocalUser(req[c].of, admin)
    /\ Administered(c) /\ UNCHANGED <<sessions, factor, codes>>

DisableUser(c) ==
    /\ Acting(c, "disable")
    /\ users' = Disabled(req[c].of)
    /\ Administered(c) /\ UNCHANGED <<sessions, factor, codes>>

EnableUser(c) ==
    /\ Acting(c, "reenable")
    /\ users' = Reenabled(req[c].of)
    /\ Administered(c) /\ UNCHANGED <<sessions, factor, codes>>

UpdateUser(c) ==
    /\ Acting(c, "promote") \/ Acting(c, "demote")
    /\ users' = AdminSet(req[c].of, req[c].op = "promote")
    /\ Administered(c) /\ UNCHANGED <<sessions, factor, codes>>

RevokeSessions(c) ==
    /\ Acting(c, "revoke")
    /\ sessions' = RevokeAllUserSessions(req[c].of)
    /\ Administered(c) /\ UNCHANGED <<users, factor, codes>>

\* AdminResetPassword: the hash, the sessions and the second factor in one
\* transaction; a pending enrolment and reset tokens stay.
AdminResetPassword(u) ==
    /\ users' = UpdateUserPasswordHash(u)
    /\ sessions' = RevokeAllUserSessions(u)
    /\ factor' = DeleteMFACredentials(u)
    /\ codes' = DeleteRecoveryCodes(u)

ResetPassword(c) ==
    /\ Acting(c, "reset")
    /\ \/ Local(req[c].of) /\ AdminResetPassword(req[c].of)
       \/ ~Local(req[c].of) /\ UNCHANGED <<users, sessions, factor, codes>>
    /\ Administered(c)

-----------------------------------------------------------------------------
(* Password resets by mail.                                                *)

\* handlePasswordResetRequest: every request counts as a failure, and one
\* that finds no slot is dropped behind the same answer.
RequestReset(u) ==
    /\ Offered("forgot") /\ Allowed(limiter["reset"], clock)
    /\ limiter' = [limiter EXCEPT !["reset"] = Released(RecordFailure(Begun(@, clock), clock))]
    /\ jobs' = IF Cardinality(jobs) < ResetSlots THEN jobs \cup {u} ELSE jobs
    /\ left' = left - 1
    /\ UNCHANGED <<users, sessions, resets, factor, pending, codes, req, clock, made, mix, spent, mishaps>>

\* RequestPasswordReset, behind the answer: only for a live local user.
IssueReset(u) ==
    /\ u \in jobs
    /\ jobs' = jobs \ {u}
    /\ resets' = IF Live(u) THEN Append(resets, NewReset(u)) ELSE resets
    /\ UNCHANGED <<users, sessions, factor, pending, codes, req, limiter, clock, made, mix, left, spent, mishaps>>

\* ConfirmPasswordReset: the token, the hash and the sessions in one
\* transaction; the second factor stays.
ConfirmPasswordReset(t) ==
    /\ resets' = [resets EXCEPT ![t].used = TRUE]
    /\ users' = UpdateUserPasswordHash(resets[t].user)
    /\ sessions' = RevokeAllUserSessions(resets[t].user)

ConfirmReset(t) ==
    /\ Offered("confirm") /\ t \in DOMAIN resets /\ Allowed(limiter["reset"], clock)
    /\ left' = left - 1
    /\ \/ /\ Consumable(t) /\ ConfirmPasswordReset(t)
          /\ limiter' = [limiter EXCEPT !["reset"] = Released(Begun(@, clock))]
       \/ /\ ~Consumable(t) /\ UNCHANGED <<resets, users, sessions>>
          /\ limiter' = [limiter EXCEPT !["reset"] = Released(RecordFailure(Begun(@, clock), clock))]
    /\ UNCHANGED <<jobs, factor, pending, codes, req, clock, made, mix, spent, mishaps>>

-----------------------------------------------------------------------------
(* The second factor.                                                      *)

\* Setup: a new secret replaces the one that was pending.
SetupFactor(c) ==
    /\ Acting(c, "setup") /\ made < MaxMade
    /\ made' = made + 1
    /\ pending' = SetMFAPendingSecret(req[c].of, made')
    /\ Finish(c)
    /\ UNCHANGED <<users, sessions, resets, jobs, factor, codes, limiter, clock, mix, spent, mishaps>>

\* Enable's reads: no enrolment yet, and a code of the pending secret; one
\* that waited too long is cleared, one the code does not fit is left.
ReadPending(c) ==
    /\ Acting(c, "enable")
    /\ LET p == pending[req[c].of]
           asked == factor[req[c].of].secret = None /\ p.secret # None
       IN  /\ \/ /\ asked /\ clock - p.at <= PendingTTL
                 /\ Continue(c, [req[c] EXCEPT !.step = "commit", !.key = p.secret])
              \/ Finish(c)      \* refused, or the code does not fit
           /\ pending' = IF asked /\ clock - p.at > PendingTTL
                         THEN ClearMFAPendingSecret(req[c].of) ELSE pending
    /\ UNCHANGED <<users, sessions, resets, jobs, factor, codes, limiter, clock, made, mix, spent, mishaps>>

\* Enable's transaction upserts: whoever enrolled meanwhile is overwritten,
\* and the codes of that enrolment stay behind under a salt nobody hashes
\* with any more.
EnableFactor(c) ==
    /\ req[c].op = "enable" /\ req[c].step = "commit" /\ made < MaxMade
    /\ made' = made + 1
    /\ LET u == req[c].of
           kept == [i \in DOMAIN codes |->
                       IF codes[i].user = u THEN [codes[i] EXCEPT !.stray = TRUE] ELSE codes[i]]
       IN  /\ factor' = UpsertMFACredentials(u, req[c].key, made')
           /\ pending' = ClearMFAPendingSecret(u)
           /\ codes' = Append(IF factor[u].secret = None THEN codes ELSE kept,
                              NewCode(u, made'))
    /\ spent' = IF req[c].key \in spent.secrets THEN [spent EXCEPT !.again = @ \cup {req[c].key}]
                ELSE [spent EXCEPT !.secrets = @ \cup {req[c].key}]
    /\ Continue(c, [req[c] EXCEPT !.step = "verified"])
    /\ UNCHANGED <<users, sessions, resets, jobs, limiter, clock, mix, mishaps>>

\* SetSessionMFAVerified: by the row's id, after the code was accepted.
MarkVerified(c) ==
    /\ req[c].step = "verified"
    /\ sessions' = SetSessionMFAVerified(req[c].by)
    /\ Finish(c)
    /\ UNCHANGED <<users, resets, jobs, factor, pending, codes, limiter, clock, made, mix, spent, mishaps>>

\* The codes a person can have at hand: of any secret shown, or a recovery
\* code, told apart by its salt.
TOTPCode == [secret : 1 .. made, step : clock - Drift .. clock + Drift]
Recovery(u) == {i \in DOMAIN codes : codes[i].user = u}

\* ValidateTOTPCode and Disable read the credentials on the reader pool.
ReadFactor(c, code) ==
    /\ Acting(c, "challenge") \/ Acting(c, "disable factor")
    /\ IF factor[req[c].of].secret # None /\ acceptTOTP(factor[req[c].of], code)
       THEN Continue(c, [req[c] EXCEPT !.step = "commit", !.at = code.step, !.key = code.secret])
       ELSE Continue(c, [req[c] EXCEPT !.step = "refused"])
    /\ UNCHANGED <<accountVars, limiter, clock, made, mix, spent, mishaps>>

\* ValidateRecoveryCode: the salt and the unused row are read first.
ReadRecovery(c, i) ==
    /\ Acting(c, "challenge")
    /\ IF factor[req[c].of].salt = codes[i].salt /\ ~codes[i].used
       THEN Continue(c, [req[c] EXCEPT !.step = "recover", !.key = i])
       ELSE Continue(c, [req[c] EXCEPT !.step = "refused"])
    /\ UNCHANGED <<accountVars, limiter, clock, made, mix, spent, mishaps>>

\* A code that was accepted, by the enrolment of the secret it is for or by
\* one that took its place since the credentials were read.
Accept(code, own) ==
    spent' = IF code \in spent.once /\ own /\ code[1] \notin spent.again THEN [spent EXCEPT !.twice = @ \cup {code}]
             ELSE [spent EXCEPT !.once = @ \cup {code}]

\* The conditional update decides; a code used meanwhile is refused.
SpendCode(c) ==
    /\ req[c].op = "challenge" /\ req[c].step = "commit"
    /\ LET u == req[c].of
       IN  IF UpdateLastUsedStep(u, req[c].at)
           THEN /\ factor' = [factor EXCEPT ![u].used = req[c].at]
                /\ Accept(<<req[c].key, req[c].at>>, req[c].key = factor[u].secret)
                /\ Succeeded("challenge")
                /\ Continue(c, [req[c] EXCEPT !.step = "verified"])
           ELSE /\ Continue(c, [req[c] EXCEPT !.step = "refused"])
                /\ UNCHANGED <<factor, spent, limiter>>
    /\ UNCHANGED <<users, sessions, resets, jobs, pending, codes, clock, made, mix, mishaps>>

\* MarkRecoveryCodeUsed matches.
MarkRecoveryCodeUsed(i) == codes[i].user # None /\ ~codes[i].used

SpendRecovery(c) ==
    /\ req[c].step = "recover"
    /\ IF MarkRecoveryCodeUsed(req[c].key)
       THEN /\ codes' = [codes EXCEPT ![req[c].key].used = TRUE]
            /\ Accept(<<None, req[c].key>>, TRUE)
            /\ Succeeded("challenge")
            /\ Continue(c, [req[c] EXCEPT !.step = "verified"])
       ELSE /\ Continue(c, [req[c] EXCEPT !.step = "refused"])
            /\ UNCHANGED <<codes, spent, limiter>>
    /\ UNCHANGED <<users, sessions, resets, jobs, factor, pending, clock, made, mix, mishaps>>

\* Disable's transaction: the same conditional update, then both deletions.
DisableFactor(c) ==
    /\ req[c].op = "disable factor" /\ req[c].step = "commit"
    /\ LET u == req[c].of
       IN  IF UpdateLastUsedStep(u, req[c].at)
           THEN /\ factor' = DeleteMFACredentials(u)
                /\ codes' = DeleteRecoveryCodes(u)
                /\ Accept(<<req[c].key, req[c].at>>, req[c].key = factor[u].secret)
                /\ Succeeded("disable")
                /\ Finish(c)
           ELSE /\ Continue(c, [req[c] EXCEPT !.step = "refused"])
                /\ UNCHANGED <<factor, codes, spent, limiter>>
    /\ UNCHANGED <<users, sessions, resets, jobs, pending, clock, made, mix, mishaps>>

\* handleMFAChallenge and handleMFADisable count a refused code as a failure.
ChallengeRefused(c) ==
    /\ req[c].op = "challenge" /\ req[c].step = "refused"
    /\ Failed("challenge") /\ Finish(c)
    /\ UNCHANGED <<accountVars, clock, made, mix, spent, mishaps>>

DisableRefused(c) ==
    /\ req[c].op = "disable factor" /\ req[c].step = "refused"
    /\ Failed("disable") /\ Finish(c)
    /\ UNCHANGED <<accountVars, clock, made, mix, spent, mishaps>>

-----------------------------------------------------------------------------
Tick ==
    /\ clock < mix.ticks
    /\ clock' = clock + 1
    /\ UNCHANGED <<accountVars, req, limiter, made, mix, left, spent, mishaps>>

\* The limiter whose slot a request holds, to be freed when it ends (release).
SlotOf(r) ==
    CASE r.op = "login" /\ r.step # "open" -> "login"
      [] r.op = "challenge" /\ r.step # "verified" -> "challenge"
      [] r.op = "disable factor" -> "disable"
      [] OTHER -> "none"

\* A transaction fails, or the client goes away before it: nothing of it is
\* kept, and the limiter's slot is freed.
RequestFails(c) ==
    /\ ~Free(c) /\ mishaps < mix.mishaps
    /\ mishaps' = mishaps + 1
    /\ LET k == SlotOf(req[c])
       IN  limiter' = IF k = "none" THEN limiter ELSE [limiter EXCEPT ![k] = Released(@)]
    /\ Finish(c)
    /\ UNCHANGED <<accountVars, clock, made, mix, spent>>

\* The server stops: requests, reset jobs and limiters are gone.
Restart ==
    /\ mishaps < mix.mishaps
    /\ mishaps' = mishaps + 1
    /\ req' = [c \in Client |-> NoRequest]
    /\ jobs' = {}
    /\ limiter' = [k \in Kinds |-> Fresh]
    /\ UNCHANGED <<users, sessions, resets, factor, pending, codes, clock, made, mix, left, spent>>

AdminStep(c) ==
    CreateUser(c) \/ DisableUser(c) \/ EnableUser(c) \/ UpdateUser(c)
    \/ RevokeSessions(c) \/ ResetPassword(c)

FactorStep(c) ==
    \/ SetupFactor(c) \/ ReadPending(c) \/ EnableFactor(c) \/ MarkVerified(c)
    \/ \E code \in TOTPCode : ReadFactor(c, code)
    \/ \E i \in Recovery(req[c].of) : ReadRecovery(c, i)
    \/ SpendCode(c) \/ SpendRecovery(c) \/ DisableFactor(c)
    \/ ChallengeRefused(c) \/ DisableRefused(c)

AccountsNext ==
    \/ \E c \in Client :
        \/ SetupAdmin(c)
        \/ \E u \in User : \E p \in {0, users[u].password} : handleLogin(c, u, p)
        \/ LoginRefused(c) \/ CreateSession(c)
        \/ \E s \in DOMAIN sessions, op \in mix.ops, u \in Account : Enter(c, s, op, u)
        \/ Logout(c) \/ AdminStep(c) \/ FactorStep(c) \/ RequestFails(c)
    \/ \E u \in User : RequestReset(u) \/ IssueReset(u)
    \/ \E t \in DOMAIN resets : ConfirmReset(t)
    \/ Tick
    \/ Restart

-----------------------------------------------------------------------------
(* Properties.                                                             *)

\* Every variable has its type.
TypeOK ==
    /\ users \in [Account -> [state : {"none", "live", "disabled"}, admin : BOOLEAN, password : Nat]]
    /\ \A s \in DOMAIN sessions : sessions[s].user \in User /\ sessions[s].seen \in 1 .. clock
    /\ jobs \subseteq User
    /\ \A u \in User : factor[u].secret \in 0 .. made /\ pending[u].secret \in 0 .. made
    /\ \A i \in DOMAIN codes : codes[i].user \in User \cup {None} /\ codes[i].salt \in 0 .. made
    /\ \A c \in Client : req[c].of \in Account /\ req[c].by \in 0 .. Len(sessions)
    /\ clock \in 1 .. mix.ticks /\ made \in 0 .. MaxMade /\ mishaps \in 0 .. mix.mishaps

\* Once there is a live local admin there always is one, however the
\* administrators' requests to disable and demote each other interleave
\* (guardLastLocalAdmin).  (A bootstrap token can create a user without
\* rights first, and then set-up is closed before there is an admin.)
HasLocalAdmin == \E u \in User : Live(u) /\ users[u].admin
LastAdminStays == [][HasLocalAdmin => HasLocalAdmin']_users

\* A session that can be used was opened with the password its user has now:
\* a reset by mail or by an administrator ends all others (ConfirmPasswordReset,
\* AdminResetPassword).  The exception is a login that had verified the old
\* password when the reset committed: its session comes after.
PasswordEndsSessions ==
    \A s \in DOMAIN sessions :
        ~sessions[s].revoked /\ ~sessions[s].late
            => sessions[s].password = users[sessions[s].user].password

\* No TOTP code and no recovery code is accepted twice by the enrolment it
\* belongs to, whatever challenges and disablings run side by side.  The
\* exception is a secret that two overlapping Enables enrolled: the later one
\* starts again from step 0.
CodesSpendOnce == spent.twice = {}

\* The recovery codes on file are those of the enrolment on file, and there
\* are none without one; only codes of an enrolment that a concurrent one
\* overwrote stay behind (Enable reads before its transaction).
CodesMatch ==
    \A i \in DOMAIN codes :
        codes[i].user # None /\ ~codes[i].stray => codes[i].salt = factor[codes[i].user].salt

\* However attempts from one address overlap, no more failures than the
\* limit are recorded in one fast window (Begin counts attempts under way).
BurstBounded ==
    \A k \in Kinds : countWithin(limiter[k].failures, clock, FastWindow) <= MaxFast
=============================================================================
