--------------------------- MODULE Accounts_proofs ---------------------------
(***************************************************************************)
(* Proofs about Accounts and Tokens for any number of users, of clients    *)
(* with requests side by side, of servers that start and of sessions,      *)
(* codes and tokens.                                                       *)
(***************************************************************************)
EXTENDS Tokens, FiniteSetTheorems, SequenceTheorems, TLAPS

LEMMA Numbers ==
    /\ User \subseteq Nat \ {0} /\ IsFiniteSet(User) /\ 0 \notin User
    /\ Account \subseteq Nat /\ User \subseteq Account /\ Service \in Account
    /\ Service \notin User
    /\ Idle \in Nat /\ Absolute \in Nat /\ TokenTTL \in Nat /\ PendingTTL \in Nat
    /\ Drift \in Nat /\ MaxMade \in Nat
BY AccountsAssumption DEF Account, Service

----------------------------------------------------------------------------
\* Sequences.

LEMMA ElementAt ==
    ASSUME NEW S, NEW s \in Seq(S), NEW i \in DOMAIN s
    PROVE  s[i] \in S
<1>1. i \in 1 .. Len(s)
    BY LenProperties
<1>2. QED
    BY <1>1, ElementOfSeq

\* A function over the indices of a sequence is a sequence.
LEMMA Replaced ==
    ASSUME NEW S, NEW s \in Seq(S), NEW f \in [DOMAIN s -> S]
    PROVE  f \in Seq(S) /\ Len(f) = Len(s) /\ DOMAIN f = DOMAIN s
<1>1. Len(s) \in Nat /\ DOMAIN s = 1 .. Len(s)
    BY LenProperties
<1>2. f \in [1 .. Len(s) -> S]
    BY <1>1
<1>3. QED
    BY <1>1, <1>2

LEMMA Appended ==
    ASSUME NEW S, NEW s \in Seq(S), NEW e \in S
    PROVE  /\ Append(s, e) \in Seq(S)
           /\ Len(s) \in Nat /\ DOMAIN s = 1 .. Len(s)
           /\ DOMAIN Append(s, e) = 1 .. Len(s) + 1
           /\ \A i \in DOMAIN s : Append(s, e)[i] = s[i]
           /\ Append(s, e)[Len(s) + 1] = e
<1>1. Append(s, e) \in Seq(S) /\ Len(Append(s, e)) = Len(s) + 1
    BY AppendProperties
<1>2. Len(s) \in Nat /\ DOMAIN s = 1 .. Len(s)
    BY LenProperties
<1>3. DOMAIN Append(s, e) = 1 .. Len(s) + 1
    BY <1>1, LenProperties
<1>4. QED
    BY <1>1, <1>2, <1>3, AppendProperties

----------------------------------------------------------------------------
\* Types.

UserRow == [state : {"none", "live", "disabled"}, admin : BOOLEAN, password : Nat]

SessionRow == [user : User, password : Nat, late : BOOLEAN, revoked : BOOLEAN,
               mfa : BOOLEAN, seen : Nat, idle : Nat, ends : Nat]

ResetRow == [user : User, ends : Nat, used : BOOLEAN]

FactorRow == [secret : Nat, used : Int, salt : Nat]

PendingRow == [secret : Nat, at : Nat]

CodeRow == [user : User \cup {None}, salt : Nat, used : BOOLEAN, stray : BOOLEAN]

Ops == {"none", "login"} \cup MFAOps \cup AdminOps \cup TokenOps

Steps == {"none", "act", "open", "slot", "refused", "commit", "verified", "recover"}

RequestRow == [op : Ops, step : Steps, by : Nat, of : Account, own : Account,
               key : Nat, at : Int]

PatRow == [owner : Account, name : {"other", "bootstrap"}, revoked : BOOLEAN,
           dropped : BOOLEAN, abandoned : BOOLEAN]

BootSteps == {"off", "claim", "mint", "write", "sync", "revoke", "remove"}
BootRow == [step : BootSteps, pat : Nat]

Rows ==
    /\ users \in [Account -> UserRow]
    /\ sessions \in Seq(SessionRow)
    /\ resets \in Seq(ResetRow)
    /\ jobs \subseteq User
    /\ factor \in [User -> FactorRow]
    /\ pending \in [User -> PendingRow]
    /\ codes \in Seq(CodeRow)
    /\ req \in [Client -> RequestRow]
    /\ clock \in Nat /\ made \in Nat
    /\ pats \in Seq(PatRow) /\ file \in Int
    /\ boot \in [Boot -> BootRow]

----------------------------------------------------------------------------
\* The steps, in groups.

Login(c) ==
    \/ SetupAdmin(c)
    \/ \E u \in User : \E p \in {0, users[u].password} : handleLogin(c, u, p)
    \/ LoginRefused(c) \/ CreateSession(c)
    \/ \E s \in DOMAIN sessions, op \in mix.ops, u \in Account : Enter(c, s, op, u)
    \/ Logout(c) \/ RequestFails(c)

Mail ==
    \/ \E u \in User : RequestReset(u) \/ IssueReset(u)
    \/ \E t \in DOMAIN resets : ConfirmReset(t)
    \/ Tick

Token(c) ==
    \/ \E t \in DOMAIN pats : RevokePAT(c, t)
                              \/ \E op \in mix.ops, u \in Account : EnterByPAT(c, t, op, u)
    \/ MintPAT(c)

Booted(b) ==
    \/ BootLock(b) \/ BootClaim(b) \/ BootMint(b) \/ BootWrite(b) \/ BootSync(b)
    \/ BootFails(b) \/ BootRevoke(b) \/ BootRemove(b) \/ BootDies(b)

LEMMA Groups ==
    ASSUME [TokensNext]_allVars
    PROVE  \/ \E c \in Client : (Login(c) \/ AdminStep(c) \/ FactorStep(c))
                                /\ UNCHANGED tokenVars
           \/ (Mail \/ Restart) /\ UNCHANGED tokenVars
           \/ \E c \in Client : Token(c)
           \/ \E b \in Boot : Booted(b)
           \/ RemoveFile
           \/ UNCHANGED allVars
BY DEF TokensNext, AccountsNext, Login, Mail, Token, Booted

----------------------------------------------------------------------------
\* How each table moves.

PasswordReset(u) == users' = UpdateUserPasswordHash(u) /\ sessions' = RevokeAllUserSessions(u)

LEMMA UsersMove ==
    ASSUME Rows, [TokensNext]_allVars
    PROVE  \/ UNCHANGED users
           \/ /\ \A u \in User : users[u].state = "none"
              /\ \E u \in User : users' = [users EXCEPT ![u] = NewUser(TRUE)]
              /\ UNCHANGED sessions
           \/ \E c \in Client, admin \in BOOLEAN :
                req[c].op = "create" /\ users' = CreateLocalUser(req[c].of, admin)
                /\ UNCHANGED sessions
           \/ \E u \in Account : /\ \/ users' = Disabled(u) \/ users' = Reenabled(u)
                                    \/ \E admin \in BOOLEAN : users' = AdminSet(u, admin)
                                 /\ UNCHANGED sessions
           \/ \E u \in User : PasswordReset(u)
           \/ users' = BootstrapUser /\ UNCHANGED sessions
<1> USE DEF accountVars, vars, allVars
<1>1. ASSUME NEW c \in Client, Login(c)
      PROVE  \/ UNCHANGED users
             \/ /\ \A u \in User : users[u].state = "none"
                /\ \E u \in User : users' = [users EXCEPT ![u] = NewUser(TRUE)]
                /\ UNCHANGED sessions
  <2>1. CASE SetupAdmin(c)
    <3>1. CountUsers = 0
        BY <2>1 DEF SetupAdmin
    <3>2. {u \in User : users[u].state # "none"} = {}
      <4>1. IsFiniteSet({u \in User : users[u].state # "none"})
        BY Numbers, FS_Subset
      <4>2. QED
        BY <3>1, <4>1, FS_EmptySet DEF CountUsers
    <3>3. QED
        BY <2>1, <3>2 DEF SetupAdmin
  <2>2. QED
    BY <1>1, <2>1 DEF Login, handleLogin, LoginRefused, CreateSession, Enter, Logout, RequestFails
<1>2. ASSUME NEW c \in Client, AdminStep(c)
      PROVE  \/ UNCHANGED users
             \/ \E admin \in BOOLEAN :
                  req[c].op = "create" /\ users' = CreateLocalUser(req[c].of, admin)
                  /\ UNCHANGED sessions
             \/ \E u \in Account : /\ \/ users' = Disabled(u) \/ users' = Reenabled(u)
                                      \/ \E admin \in BOOLEAN : users' = AdminSet(u, admin)
                                   /\ UNCHANGED sessions
             \/ \E u \in User : PasswordReset(u)
  <2>1. req[c].of \in Account
    BY DEF Rows, RequestRow
  <2>2. CASE CreateUser(c)
    BY <2>2 DEF CreateUser, Acting
  <2>3. CASE DisableUser(c) \/ EnableUser(c)
    BY <2>1, <2>3 DEF DisableUser, EnableUser
  <2>4. CASE UpdateUser(c)
    <3>1. (req[c].op = "promote") \in BOOLEAN
        OBVIOUS
    <3>2. QED
        BY <2>1, <2>4, <3>1 DEF UpdateUser
  <2>5. CASE RevokeSessions(c)
    BY <2>5 DEF RevokeSessions
  <2>6. CASE ResetPassword(c)
    <3>1. CASE Local(req[c].of) /\ AdminResetPassword(req[c].of)
        <4>1. req[c].of \in User /\ PasswordReset(req[c].of)
            BY <3>1 DEF Local, AdminResetPassword, PasswordReset
        <4>2. QED
            BY <4>1
    <3>2. CASE UNCHANGED users
        BY <3>2
    <3>3. QED
        BY <2>6, <3>1, <3>2 DEF ResetPassword
  <2>7. QED
    BY <1>2, <2>2, <2>3, <2>4, <2>5, <2>6 DEF AdminStep
<1>3. ASSUME NEW c \in Client, FactorStep(c) PROVE UNCHANGED users
    BY <1>3 DEF FactorStep, SetupFactor, ReadPending, EnableFactor, MarkVerified, ReadFactor,
                ReadRecovery, SpendCode, SpendRecovery, DisableFactor, ChallengeRefused,
                DisableRefused
<1>4. ASSUME Mail PROVE UNCHANGED users \/ \E u \in User : PasswordReset(u)
  <2>1. \A t \in DOMAIN resets : resets[t].user \in User
    <3>1. resets \in Seq(ResetRow)
        BY DEF Rows
    <3>2. \A t \in DOMAIN resets : resets[t] \in ResetRow
        BY <3>1, ElementAt
    <3>3. QED
        BY <3>2 DEF ResetRow
  <2>2. ASSUME NEW t \in DOMAIN resets, ConfirmReset(t)
        PROVE  UNCHANGED users \/ \E u \in User : PasswordReset(u)
    BY <2>1, <2>2 DEF ConfirmReset, ConfirmPasswordReset, PasswordReset
  <2>3. QED
    BY <1>4, <2>2 DEF Mail, RequestReset, IssueReset, Tick
<1>5. ASSUME NEW c \in Client, Token(c) PROVE UNCHANGED users
    BY <1>5 DEF Token, RevokePAT, EnterByPAT, MintPAT
<1>6. ASSUME NEW b \in Boot, Booted(b)
      PROVE  UNCHANGED users \/ (users' = BootstrapUser /\ UNCHANGED sessions)
    BY <1>6 DEF Booted, BootLock, BootClaim, BootMint, BootWrite, BootSync, BootFails,
              BootRevoke, BootRemove, BootDies, BootStep
<1>7. CASE Restart \/ RemoveFile \/ UNCHANGED allVars
    BY <1>7 DEF Restart, RemoveFile
<1>8. QED
    BY <1>1, <1>2, <1>3, <1>4, <1>5, <1>6, <1>7, Groups

\* A session's row keeps whose it is and the password it was opened with, and
\* stays revoked.
Kept(r, q) ==
    /\ q \in SessionRow
    /\ q.user = r.user /\ q.password = r.password /\ q.late = r.late
    /\ r.revoked => q.revoked

SessionsKept ==
    /\ sessions' \in Seq(SessionRow) /\ DOMAIN sessions' = DOMAIN sessions
    /\ \A s \in DOMAIN sessions : Kept(sessions[s], sessions'[s])

LEMMA SessionAt ==
    ASSUME Rows, NEW s \in DOMAIN sessions
    PROVE  /\ sessions[s] \in SessionRow
           /\ sessions[s].user \in User /\ sessions[s].seen \in Nat
<1>1. sessions \in Seq(SessionRow)
    BY DEF Rows
<1>2. sessions[s] \in SessionRow
    BY <1>1, ElementAt
<1>3. QED
    BY <1>2 DEF SessionRow

LEMMA SessionsFunction ==
    ASSUME Rows, NEW f \in [DOMAIN sessions -> SessionRow], sessions' = f,
           \A s \in DOMAIN sessions : Kept(sessions[s], f[s])
    PROVE  SessionsKept
<1>1. sessions \in Seq(SessionRow)
    BY DEF Rows
<1>2. f \in Seq(SessionRow) /\ DOMAIN f = DOMAIN sessions
    BY <1>1, Replaced
<1>3. QED
    BY <1>2 DEF SessionsKept

LEMMA SameSessions == ASSUME Rows, UNCHANGED sessions PROVE SessionsKept
BY SessionAt DEF SessionsKept, Kept, Rows

LEMMA SessionStatements ==
    ASSUME Rows, NEW i, NEW u,
           sessions' \in {RevokeSession(i), Touched(i), SetSessionMFAVerified(i),
                         RevokeAllUserSessions(u)}
    PROVE  SessionsKept
<1>1. \A s \in DOMAIN sessions : sessions[s] \in SessionRow
    BY SessionAt
<1>2. sessions \in [DOMAIN sessions -> SessionRow] /\ clock \in Nat /\ clock + Idle \in Nat
  <2>1. sessions \in Seq(SessionRow)
    BY DEF Rows
  <2>2. QED
    BY <2>1, Numbers, LenProperties DEF Rows
<1>3. CASE sessions' = RevokeSession(i)
  <2>1. RevokeSession(i) \in [DOMAIN sessions -> SessionRow]
    BY <1>1, <1>2 DEF RevokeSession, SessionRow
  <2>2. \A s \in DOMAIN sessions : Kept(sessions[s], RevokeSession(i)[s])
    BY <1>1, <1>2, <2>1 DEF RevokeSession, Kept, SessionRow
  <2>3. QED
    BY <1>3, <2>1, <2>2, SessionsFunction
<1>4. CASE sessions' = SetSessionMFAVerified(i)
  <2>1. SetSessionMFAVerified(i) \in [DOMAIN sessions -> SessionRow]
    BY <1>1, <1>2 DEF SetSessionMFAVerified, SessionRow
  <2>2. \A s \in DOMAIN sessions : Kept(sessions[s], SetSessionMFAVerified(i)[s])
    BY <1>1, <1>2, <2>1 DEF SetSessionMFAVerified, Kept, SessionRow
  <2>3. QED
    BY <1>4, <2>1, <2>2, SessionsFunction
<1>5. CASE sessions' = Touched(i)
  <2> DEFINE f == [sessions EXCEPT ![i].seen = clock, ![i].idle = clock + Idle]
  <2>1. f \in [DOMAIN sessions -> SessionRow]
    BY <1>1, <1>2 DEF SessionRow
  <2>2. \A s \in DOMAIN sessions : Kept(sessions[s], f[s])
    BY <1>1, <1>2, <2>1 DEF Kept, SessionRow
  <2>3. CASE sessions' = f
    BY <2>1, <2>2, <2>3, SessionsFunction
  <2>4. CASE sessions' = sessions
    BY <2>4, SameSessions
  <2>5. QED
    BY <1>5, <2>3, <2>4 DEF Touched, TouchSession
<1>6. CASE sessions' = RevokeAllUserSessions(u)
  <2>1. \A s \in DOMAIN sessions : [sessions[s] EXCEPT !.revoked = TRUE] \in SessionRow
    BY <1>1 DEF SessionRow
  <2>2. RevokeAllUserSessions(u) \in [DOMAIN sessions -> SessionRow]
    BY <1>1, <2>1 DEF RevokeAllUserSessions
  <2>3. \A s \in DOMAIN sessions : Kept(sessions[s], RevokeAllUserSessions(u)[s])
    BY <1>1, <2>1 DEF RevokeAllUserSessions, Kept, SessionRow
  <2>4. QED
    BY <1>6, <2>2, <2>3, SessionsFunction
<1>7. QED
    BY <1>3, <1>4, <1>5, <1>6

\* A login opens a session at the end; every other step keeps them all.
Opened(c) ==
    /\ req[c].op = "login" /\ req[c].step \in {"open", "slot"}
    /\ sessions' = Append(sessions, NewSession(req[c].of, req[c].key, clock))
    /\ UNCHANGED users

LEMMA SessionsMove ==
    ASSUME Rows, [TokensNext]_allVars
    PROVE  SessionsKept \/ \E c \in Client : Opened(c)
<1> USE DEF accountVars, vars, allVars
<1>1. ASSUME NEW c \in Client, Login(c) PROVE SessionsKept \/ Opened(c)
  <2>1. CASE CreateSession(c)
    BY <2>1 DEF CreateSession, Opened
  <2>2. CASE Logout(c)
    <3>1. sessions' = RevokeSession(req[c].by)
        BY <2>2 DEF Logout
    <3>2. QED
        BY <3>1, SessionStatements
  <2>3. ASSUME NEW s \in DOMAIN sessions, NEW op, NEW u, Enter(c, s, op, u) PROVE SessionsKept
    <3>1. sessions' = Touched(s)
        BY <2>3 DEF Enter
    <3>2. QED
        BY <3>1, SessionStatements
  <2>4. CASE UNCHANGED sessions
    BY <2>4, SameSessions
  <2>5. QED
    BY <1>1, <2>1, <2>2, <2>3, <2>4 DEF Login, SetupAdmin, handleLogin, LoginRefused, RequestFails
<1>2. ASSUME NEW c \in Client, AdminStep(c) PROVE SessionsKept
  <2>1. CASE sessions' = RevokeAllUserSessions(req[c].of)
    BY <2>1, SessionStatements
  <2>2. CASE UNCHANGED sessions
    BY <2>2, SameSessions
  <2>3. QED
    BY <1>2, <2>1, <2>2 DEF AdminStep, CreateUser, DisableUser, EnableUser, UpdateUser,
                            RevokeSessions, ResetPassword, AdminResetPassword
<1>3. ASSUME NEW c \in Client, FactorStep(c) PROVE SessionsKept
  <2>1. CASE MarkVerified(c)
    <3>1. sessions' = SetSessionMFAVerified(req[c].by)
        BY <2>1 DEF MarkVerified
    <3>2. QED
        BY <3>1, SessionStatements
  <2>2. CASE UNCHANGED sessions
    BY <2>2, SameSessions
  <2>3. QED
    BY <1>3, <2>1, <2>2 DEF FactorStep, SetupFactor, ReadPending, EnableFactor, ReadFactor,
                ReadRecovery, SpendCode, SpendRecovery, DisableFactor, ChallengeRefused,
                DisableRefused
<1>4. ASSUME Mail PROVE SessionsKept
  <2>1. ASSUME NEW t \in DOMAIN resets, ConfirmReset(t) PROVE SessionsKept
    <3>1. CASE sessions' = RevokeAllUserSessions(resets[t].user)
        BY <3>1, SessionStatements
    <3>2. CASE UNCHANGED sessions
        BY <3>2, SameSessions
    <3>3. QED
        BY <2>1, <3>1, <3>2 DEF ConfirmReset, ConfirmPasswordReset
  <2>2. CASE UNCHANGED sessions
    BY <2>2, SameSessions
  <2>3. QED
    BY <1>4, <2>1, <2>2 DEF Mail, RequestReset, IssueReset, Tick
<1>5. CASE UNCHANGED sessions
  BY <1>5, SameSessions
<1>6. ASSUME NEW c \in Client, Token(c) PROVE UNCHANGED sessions
  BY <1>6 DEF Token, RevokePAT, EnterByPAT, MintPAT
<1>7. ASSUME NEW b \in Boot, Booted(b) PROVE UNCHANGED sessions
  BY <1>7 DEF Booted, BootLock, BootClaim, BootMint, BootWrite, BootSync, BootFails,
            BootRevoke, BootRemove, BootDies, BootStep
<1>8. CASE Restart \/ RemoveFile \/ UNCHANGED allVars
  BY <1>5, <1>8 DEF Restart, RemoveFile
<1>9. QED
  BY <1>1, <1>2, <1>3, <1>4, <1>5, <1>6, <1>7, <1>8, Groups

----------------------------------------------------------------------------
\* Users: their type, and what no step undoes.

LEMMA UserAt == ASSUME Rows, NEW u \in Account PROVE users[u] \in UserRow
BY DEF Rows

\* guardLastLocalAdmin: whoever may go leaves another live admin, if there is one.
LEMMA OtherAdmin ==
    ASSUME NEW u, Spare(u), HasLocalAdmin
    PROVE  \E v \in User \ {u} : Live(v) /\ users[v].admin
<1>1. CASE ~(u \in User /\ Live(u) /\ users[u].admin)
    BY <1>1 DEF HasLocalAdmin
<1>2. CASE CountOtherActiveLocalAdmins(u) > 0
    <2> DEFINE others == {v \in User \ {u} : Live(v) /\ users[v].admin}
    <2>1. others # {}
        BY <1>2, FS_EmptySet DEF CountOtherActiveLocalAdmins
    <2>2. QED
        BY <2>1
<1>3. QED
    BY <1>1, <1>2 DEF Spare

LEMMA UserSteps ==
    ASSUME Rows, [TokensNext]_allVars
    PROVE  /\ users' \in [Account -> UserRow]
           /\ \A u \in Account : users[u].state # "none" => users'[u].state # "none"
           /\ HasLocalAdmin => HasLocalAdmin'
<1> USE Numbers
<1>1. users \in [Account -> UserRow] /\ \A u \in Account : users[u] \in UserRow
    BY DEF Rows
<1>2. CASE UNCHANGED users
    BY <1>1, <1>2 DEF HasLocalAdmin, Live
<1>3. ASSUME NEW u \in User, users' = [users EXCEPT ![u] = NewUser(TRUE)]
      PROVE  /\ users' \in [Account -> UserRow]
             /\ \A v \in Account : users[v].state # "none" => users'[v].state # "none"
             /\ HasLocalAdmin'
  <2>1. NewUser(TRUE) \in UserRow
    BY DEF NewUser, UserRow
  <2>2. users' \in [Account -> UserRow]
    BY <1>1, <1>3, <2>1
  <2>3. users'[u].state = "live" /\ users'[u].admin
    BY <1>1, <1>3 DEF NewUser
  <2>4. QED
    BY <1>1, <1>3, <2>2, <2>3 DEF HasLocalAdmin, Live, NewUser
<1>4. ASSUME NEW u, NEW admin \in BOOLEAN, users' = CreateLocalUser(u, admin)
      PROVE  /\ users' \in [Account -> UserRow]
             /\ \A v \in Account : users[v].state # "none" => users'[v].state # "none"
             /\ HasLocalAdmin => HasLocalAdmin'
  <2>1. NewUser(admin) \in UserRow
    BY DEF NewUser, UserRow
  <2>2. users' \in [Account -> UserRow]
    BY <1>1, <1>4, <2>1 DEF CreateLocalUser
  <2>3. \A v \in User : users[v].state # "none" => users'[v] = users[v]
    BY <1>1, <1>4 DEF CreateLocalUser, Local
  <2>4. \A v \in Account : users[v].state # "none" => users'[v].state # "none"
    BY <1>1, <1>4 DEF CreateLocalUser, NewUser
  <2>5. QED
    BY <2>2, <2>3, <2>4 DEF HasLocalAdmin, Live
<1>5. ASSUME NEW u \in Account, users' = Disabled(u)
      PROVE  /\ users' \in [Account -> UserRow]
             /\ \A v \in Account : users[v].state # "none" => users'[v].state # "none"
             /\ HasLocalAdmin => HasLocalAdmin'
  <2>1. CASE Live(u) /\ Spare(u)
    <3>1. users' = [users EXCEPT ![u].state = "disabled"]
        BY <1>5, <2>1 DEF Disabled
    <3>2. users' \in [Account -> UserRow]
        BY <1>1, <3>1 DEF UserRow
    <3>3. ASSUME HasLocalAdmin
          PROVE  \E v \in User \ {u} : users[v].state = "live" /\ users[v].admin
        BY <2>1, <3>3, OtherAdmin DEF HasLocalAdmin, Live
    <3>4. QED
        BY <1>1, <3>1, <3>2, <3>3 DEF HasLocalAdmin, Live
  <2>2. QED
    BY <1>2, <1>5, <2>1, <1>1 DEF Disabled
<1>6. ASSUME NEW u \in Account, users' = Reenabled(u)
      PROVE  /\ users' \in [Account -> UserRow]
             /\ \A v \in Account : users[v].state # "none" => users'[v].state # "none"
             /\ HasLocalAdmin => HasLocalAdmin'
  <2>1. CASE users[u].state = "disabled"
    <3>1. users' = [users EXCEPT ![u].state = "live"]
        BY <1>6, <2>1 DEF Reenabled
    <3>2. users' \in [Account -> UserRow]
        BY <1>1, <3>1 DEF UserRow
    <3>3. QED
        BY <1>1, <3>1, <3>2 DEF HasLocalAdmin, Live
  <2>2. QED
    BY <1>2, <1>6, <2>1, <1>1 DEF Reenabled
<1>7. ASSUME NEW u \in Account, NEW admin \in BOOLEAN, users' = AdminSet(u, admin)
      PROVE  /\ users' \in [Account -> UserRow]
             /\ \A v \in Account : users[v].state # "none" => users'[v].state # "none"
             /\ HasLocalAdmin => HasLocalAdmin'
  <2>1. CASE users[u].state # "none" /\ (admin \/ Spare(u))
    <3>1. users' = [users EXCEPT ![u].admin = admin]
        BY <1>7, <2>1 DEF AdminSet
    <3>2. users' \in [Account -> UserRow]
        BY <1>1, <3>1 DEF UserRow
    <3>3. \A v \in Account : users[v].state # "none" => users'[v].state # "none"
        BY <1>1, <3>1
    <3>4. ASSUME HasLocalAdmin PROVE HasLocalAdmin'
        <4>1. CASE admin
            BY <1>1, <3>1, <3>4, <4>1 DEF HasLocalAdmin, Live
        <4>2. CASE ~admin
            <5>1. \E v \in User \ {u} : users[v].state = "live" /\ users[v].admin
                BY <2>1, <3>4, <4>2, OtherAdmin DEF HasLocalAdmin, Live
            <5>2. QED
                BY <1>1, <3>1, <5>1 DEF HasLocalAdmin, Live
        <4>3. QED
            BY <4>1, <4>2
    <3>5. QED
        BY <3>2, <3>3, <3>4
  <2>2. QED
    BY <1>2, <1>7, <2>1, <1>1 DEF AdminSet
<1>8. ASSUME NEW u \in User, PasswordReset(u)
      PROVE  /\ users' \in [Account -> UserRow]
             /\ \A v \in Account : users[v].state # "none" => users'[v].state # "none"
             /\ HasLocalAdmin => HasLocalAdmin'
  <2>1. users' = [users EXCEPT ![u].password = @ + 1]
    BY <1>8 DEF PasswordReset, UpdateUserPasswordHash
  <2>2. users' \in [Account -> UserRow]
    BY <1>1, <2>1 DEF UserRow
  <2>3. QED
    BY <1>1, <2>1, <2>2 DEF HasLocalAdmin, Live
<1>9. ASSUME users' = BootstrapUser
      PROVE  /\ users' \in [Account -> UserRow]
             /\ \A v \in Account : users[v].state # "none" => users'[v].state # "none"
             /\ HasLocalAdmin => HasLocalAdmin'
  <2>1. [state |-> "live", admin |-> TRUE, password |-> 0] \in UserRow
    BY DEF UserRow
  <2>2. users' \in [Account -> UserRow]
    BY <1>1, <1>9, <2>1 DEF BootstrapUser
  <2>3. \A v \in User : users'[v] = users[v]
    BY <1>1, <1>9 DEF BootstrapUser
  <2>4. users'[Service].state = "live"
    BY <1>1, <1>9 DEF BootstrapUser
  <2>5. QED
    BY <2>2, <2>3, <2>4 DEF HasLocalAdmin, Live, Account
<1>10. QED
  BY <1>1, <1>2, <1>3, <1>4, <1>5, <1>6, <1>7, <1>8, <1>9, UsersMove

----------------------------------------------------------------------------
\* Requests: whose account one is about.

Named(r) ==
    /\ r.op \in {"create", "reset"} \cup MFAOps => r.of \in User
    /\ r.op = "login" /\ r.step \in {"open", "slot"}
         => r.of \in User /\ users[r.of].state # "none"

NamedNext(r) ==
    /\ r.op \in {"create", "reset"} \cup MFAOps => r.of \in User
    /\ r.op = "login" /\ r.step \in {"open", "slot"}
         => r.of \in User /\ users'[r.of].state # "none"

\* It is about to write with a secret or a recovery code it was shown.
Shown(r) == r.step \in {"commit", "recover"}

Requests == \A c \in Client : Named(req[c])

LEMMA RequestAt ==
    ASSUME Rows, NEW c \in Client
    PROVE  /\ req[c] \in RequestRow /\ NoRequest \in RequestRow /\ Named(NoRequest)
           /\ req[c].of \in Account
<1>1. "none" \in Ops /\ "none" \in Steps /\ None \in Nat /\ None \in Account /\ 0 \in Int
    BY DEF Ops, Steps, None, Account, Service
<1>2. NoRequest \in RequestRow
    BY <1>1 DEF NoRequest, RequestRow
<1>3. Named(NoRequest)
    BY DEF Named, NoRequest, MFAOps
<1>4. req[c] \in RequestRow
    BY DEF Rows
<1>5. QED
    BY <1>2, <1>3, <1>4 DEF RequestRow

\* One request goes on as r, or ends; the others wait.
RequestOf(c, r) == req' = [req EXCEPT ![c] = r]

Answered(c) ==
    \/ RequestOf(c, NoRequest)
    \/ RequestOf(c, [req[c] EXCEPT !.step = "refused"])
    \/ RequestOf(c, [req[c] EXCEPT !.step = "verified"])

Asked(c) ==
    \/ \E u \in User : /\ RequestOf(c, [NoRequest EXCEPT !.op = "login", !.step = "open", !.of = u, !.key = 1])
                       /\ users'[u].state # "none"
    \/ \E u \in User, step \in {"slot", "refused"}, p \in Nat :
          /\ RequestOf(c, [NoRequest EXCEPT !.op = "login", !.step = step, !.of = u, !.key = p])
          /\ step = "slot" => users'[u].state # "none"
    \/ \E op \in MFAOps \cup AdminOps \cup TokenOps, u, own \in Account :
          /\ \/ RequestOf(c, [NoRequest EXCEPT !.op = op, !.step = "act", !.of = u, !.own = own])
             \/ \E s \in Nat : RequestOf(c, [NoRequest EXCEPT !.op = op, !.step = "act", !.by = s,
                                                             !.of = u, !.own = own])
          /\ op \in MFAOps \cup {"create", "reset"} => u \in User

\* With the secret of the user's pending or enrolled factor, or with a code.
Reading(c) ==
    \/ /\ req[c].op = "enable" /\ pending[req[c].of].secret # None
       /\ RequestOf(c, [req[c] EXCEPT !.step = "commit", !.key = pending[req[c].of].secret])
    \/ \E at \in Int :
         /\ req[c].op \in {"challenge", "disable factor"} /\ factor[req[c].of].secret # None
         /\ RequestOf(c, [req[c] EXCEPT !.step = "commit", !.at = at, !.key = factor[req[c].of].secret])
    \/ \E i \in DOMAIN codes :
         /\ req[c].op = "challenge"
         /\ RequestOf(c, [req[c] EXCEPT !.step = "recover", !.key = i])

Reads(c) ==
    \/ ReadPending(c)
    \/ \E code \in TOTPCode : ReadFactor(c, code)
    \/ \E i \in Recovery(req[c].of) : ReadRecovery(c, i)

LEMMA ReadsMove ==
    ASSUME Rows, NEW c \in Client, Reads(c)
    PROVE  Answered(c) \/ Reading(c)
<1>1. CASE ReadPending(c)
    BY <1>1 DEF ReadPending, Acting, Reading, Answered, Finish, Continue, RequestOf
<1>2. ASSUME NEW code \in TOTPCode, ReadFactor(c, code) PROVE Answered(c) \/ Reading(c)
  <2>1. code.step \in Int
    BY Numbers DEF TOTPCode, Rows
  <2>2. CASE factor[req[c].of].secret # None /\ acceptTOTP(factor[req[c].of], code)
    <3>1. code.secret = factor[req[c].of].secret
        BY <2>2 DEF acceptTOTP
    <3>2. RequestOf(c, [req[c] EXCEPT !.step = "commit", !.at = code.step, !.key = code.secret])
        BY <1>2, <2>2 DEF ReadFactor, Continue, RequestOf
    <3>3. req[c].op \in {"challenge", "disable factor"}
        BY <1>2 DEF ReadFactor, Acting
    <3>4. QED
        BY <2>1, <2>2, <3>1, <3>2, <3>3 DEF Reading
  <2>3. CASE ~(factor[req[c].of].secret # None /\ acceptTOTP(factor[req[c].of], code))
    BY <1>2, <2>3 DEF ReadFactor, Continue, RequestOf, Answered
  <2>4. QED
    BY <2>2, <2>3
<1>3. ASSUME NEW i \in Recovery(req[c].of), ReadRecovery(c, i) PROVE Answered(c) \/ Reading(c)
  <2>1. i \in DOMAIN codes
    BY DEF Recovery
  <2>2. QED
    BY <1>3, <2>1 DEF ReadRecovery, Acting, Reading, Answered, Continue, RequestOf
<1>4. QED
    BY <1>1, <1>2, <1>3 DEF Reads

LEMMA RequestSteps ==
    ASSUME Rows, [TokensNext]_allVars
    PROVE  \/ UNCHANGED req \/ req' = [c \in Client |-> NoRequest]
           \/ \E c \in Client : Answered(c) \/ Asked(c)
           \/ \E c \in Client : Reading(c) /\ Reads(c)
<1> USE DEF accountVars, vars, allVars
<1>1. ASSUME NEW c \in Client, Login(c) PROVE Answered(c) \/ Asked(c)
  <2>1. CASE SetupAdmin(c)
    <3>1. PICK u \in User :
             /\ users' = [users EXCEPT ![u] = NewUser(TRUE)]
             /\ RequestOf(c, [NoRequest EXCEPT !.op = "login", !.step = "open", !.of = u, !.key = 1])
        BY <2>1 DEF SetupAdmin, Begin, RequestOf
    <3>2. users'[u].state # "none"
        BY <3>1, Numbers DEF Rows, NewUser
    <3>3. QED
        BY <3>1, <3>2 DEF Asked
  <2>2. ASSUME NEW u \in User, NEW p \in {0, users[u].password}, handleLogin(c, u, p) PROVE Asked(c)
    <3>1. p \in Nat
        BY UserAt, Numbers DEF UserRow
    <3> DEFINE good == Local(u) /\ Live(u) /\ p = users[u].password
               step == IF good THEN "slot" ELSE "refused"
    <3>2. RequestOf(c, [NoRequest EXCEPT !.op = "login", !.step = step, !.of = u, !.key = p])
        BY <2>2 DEF handleLogin, Begin, RequestOf
    <3>3. step \in {"slot", "refused"} /\ (step = "slot" => users'[u].state # "none")
        BY <2>2 DEF handleLogin, Live
    <3> HIDE DEF step
    <3>4. QED
        BY <3>1, <3>2, <3>3 DEF Asked
  <2>3. ASSUME NEW s \in DOMAIN sessions, NEW op, NEW u \in Account, Enter(c, s, op, u) PROVE Asked(c)
    <3> DEFINE own == sessions[s].user
    <3>1. own \in User /\ own \in Account /\ s \in Nat
      <4>1. sessions \in Seq(SessionRow)
        BY DEF Rows
      <4>2. Len(sessions) \in Nat /\ s \in 1 .. Len(sessions)
        BY <4>1, LenProperties
      <4>3. s \in Nat
        BY <4>2
      <4>4. QED
        BY <4>3, SessionAt, Numbers
    <3>2. /\ op \in MFAOps \cup AdminOps \cup TokenOps
          /\ op \notin AdminOps => u = own
          /\ op \in {"create", "reset"} => u \in User
          /\ RequestOf(c, [NoRequest EXCEPT !.op = op, !.step = "act", !.by = s, !.of = u, !.own = own])
        BY <2>3 DEF Enter, Begin, RequestOf
    <3>3. op \in MFAOps \cup {"create", "reset"} => u \in User
        BY <3>1, <3>2 DEF MFAOps, AdminOps
    <3> HIDE DEF own
    <3>4. QED
        BY <3>1, <3>2, <3>3 DEF Asked
  <2>4. CASE LoginRefused(c) \/ CreateSession(c) \/ Logout(c) \/ RequestFails(c)
    BY <2>4 DEF LoginRefused, CreateSession, Logout, RequestFails, Finish, Continue, Answered, RequestOf
  <2>5. QED
    BY <1>1, <2>1, <2>2, <2>3, <2>4, Numbers DEF Login
<1>2. ASSUME NEW c \in Client, AdminStep(c) PROVE Answered(c)
  BY <1>2 DEF AdminStep, CreateUser, DisableUser, EnableUser, UpdateUser, RevokeSessions,
              ResetPassword, Administered, Finish, Continue, Answered, RequestOf
<1>3. ASSUME NEW c \in Client, FactorStep(c)
      PROVE  Answered(c) \/ (Reading(c) /\ Reads(c))
  <2>1. CASE Reads(c)
    BY <2>1, ReadsMove
  <2>2. CASE SetupFactor(c) \/ EnableFactor(c) \/ MarkVerified(c) \/ SpendCode(c) \/ SpendRecovery(c)
             \/ DisableFactor(c) \/ ChallengeRefused(c) \/ DisableRefused(c)
    BY <2>2 DEF SetupFactor, EnableFactor, MarkVerified, SpendCode, SpendRecovery, DisableFactor,
                ChallengeRefused, DisableRefused, Finish, Continue, Answered, RequestOf
  <2>3. QED
    BY <1>3, <2>1, <2>2 DEF FactorStep, Reads
<1>4. ASSUME Mail \/ Restart \/ RemoveFile \/ UNCHANGED allVars
      PROVE  UNCHANGED req \/ req' = [c \in Client |-> NoRequest]
  BY <1>4 DEF Mail, RequestReset, IssueReset, ConfirmReset, Tick, Restart, RemoveFile
<1>5. ASSUME NEW c \in Client, Token(c) PROVE Answered(c) \/ Asked(c)
  <2>1. ASSUME NEW t \in DOMAIN pats, NEW op, NEW u \in Account, EnterByPAT(c, t, op, u) PROVE Asked(c)
    <3>1. pats[t].owner \in Account
      <4>1. pats \in Seq(PatRow)
        BY DEF Rows
      <4>2. pats[t] \in PatRow
        BY <4>1, ElementAt
      <4>3. QED
        BY <4>2 DEF PatRow
    <3>2. RequestOf(c, [NoRequest EXCEPT !.op = op, !.step = "act", !.of = u, !.own = pats[t].owner])
        BY <2>1 DEF EnterByPAT, Begin, RequestOf
    <3>3. /\ op \in MFAOps \cup AdminOps \cup TokenOps
          /\ op \in MFAOps \cup {"create", "reset"} => u \in User
        BY <2>1 DEF EnterByPAT, MFAOps, AdminOps, TokenOps
    <3>4. QED
        BY <3>1, <3>2, <3>3 DEF Asked
  <2>2. QED
    BY <1>5, <2>1 DEF Token, RevokePAT, MintPAT, Finish, Continue, Answered, RequestOf
<1>6. ASSUME NEW b \in Boot, Booted(b) PROVE UNCHANGED req
  BY <1>6 DEF Booted, BootLock, BootClaim, BootMint, BootWrite, BootSync, BootFails,
            BootRevoke, BootRemove, BootDies, BootStep
<1>7. QED
  BY <1>1, <1>2, <1>3, <1>4, <1>5, <1>6, Groups

LEMMA FactorAt ==
    ASSUME Rows, NEW u
    PROVE  /\ u \in User => /\ factor[u] \in FactorRow /\ pending[u] \in PendingRow
                            /\ factor[u].secret \in Nat /\ factor[u].used \in Int
                            /\ factor[u].salt \in Nat
                            /\ pending[u].secret \in Nat /\ pending[u].at \in Nat
BY DEF Rows, FactorRow, PendingRow

\* The middle of a request keeps its name, and a new one has one.
LEMMA RequestNamed ==
    ASSUME Rows, Requests, [TokensNext]_allVars
    PROVE  req' \in [Client -> RequestRow] /\ Requests'
<1> USE RequestAt
<1>1. \A r : Named(r) => NamedNext(r)
    BY UserSteps, Numbers DEF Named, NamedNext
<1>2. \A c \in Client : \A r : RequestOf(c, r) /\ r \in RequestRow /\ NamedNext(r)
                            => req' \in [Client -> RequestRow] /\ Requests'
  <2>1. SUFFICES ASSUME NEW c \in Client, NEW r, RequestOf(c, r), r \in RequestRow, NamedNext(r)
                 PROVE  req' \in [Client -> RequestRow] /\ Requests'
    OBVIOUS
  <2>2. req' \in [Client -> RequestRow] /\ req'[c] = r /\ \A d \in Client \ {c} : req'[d] = req[d]
    BY <2>1 DEF RequestOf, Rows
  <2>3. ASSUME NEW d \in Client PROVE Named(req[d])'
    <3>1. CASE d = c
        BY <2>1, <2>2, <3>1 DEF Named, NamedNext
    <3>2. CASE d # c
      <4>1. Named(req[d]) /\ req'[d] = req[d]
        BY <2>2, <3>2 DEF Requests
      <4>2. QED
        BY <1>1, <4>1 DEF Named, NamedNext
    <3>3. QED
        BY <3>1, <3>2
  <2>4. QED
    BY <2>2, <2>3 DEF Requests
<1>3. CASE UNCHANGED req
  <2>1. ASSUME NEW d \in Client PROVE Named(req[d])'
    <3>1. Named(req[d]) /\ req'[d] = req[d]
        BY <1>3 DEF Requests
    <3>2. QED
        BY <1>1, <3>1 DEF Named, NamedNext
  <2>2. QED
    BY <1>3, <2>1 DEF Requests, Rows
<1>4. CASE req' = [c \in Client |-> NoRequest]
    BY <1>4 DEF Requests, Named, NoRequest, MFAOps
<1>5. ASSUME NEW c \in Client, NEW st \in {"refused", "verified"}
      PROVE  LET r == [req[c] EXCEPT !.step = st] IN r \in RequestRow /\ NamedNext(r)
    BY <1>5 DEF RequestRow, Steps, Requests, Named, NamedNext
<1>6. ASSUME NEW c \in Client, Answered(c) PROVE req' \in [Client -> RequestRow] /\ Requests'
  <2>1. CASE RequestOf(c, NoRequest)
    <3>1. NamedNext(NoRequest)
        BY DEF NamedNext, NoRequest, MFAOps
    <3>2. QED
        BY <1>2, <2>1, <3>1
  <2>2. CASE \E st \in {"refused", "verified"} : RequestOf(c, [req[c] EXCEPT !.step = st])
    BY <1>2, <1>5, <2>2
  <2>3. QED
    BY <1>6, <2>1, <2>2 DEF Answered
<1>7. ASSUME NEW c \in Client, Asked(c) PROVE req' \in [Client -> RequestRow] /\ Requests'
  <2>1. ASSUME NEW u \in User, NEW st \in {"open", "slot", "refused"}, NEW p \in Nat,
               st # "refused" => users'[u].state # "none",
               RequestOf(c, [NoRequest EXCEPT !.op = "login", !.step = st, !.of = u, !.key = p])
        PROVE  req' \in [Client -> RequestRow] /\ Requests'
    <3> DEFINE r == [NoRequest EXCEPT !.op = "login", !.step = st, !.of = u, !.key = p]
    <3>1. r \in RequestRow
        BY Numbers DEF RequestRow, NoRequest, Ops, Steps
    <3>2. NamedNext(r)
        BY <2>1 DEF NamedNext, NoRequest, MFAOps
    <3>3. QED
        BY <1>2, <2>1, <3>1, <3>2
  <2>2. ASSUME NEW op \in MFAOps \cup AdminOps \cup TokenOps, NEW u \in Account, NEW own \in Account,
               NEW r \in {[NoRequest EXCEPT !.op = op, !.step = "act", !.of = u, !.own = own]}
                        \cup {[NoRequest EXCEPT !.op = op, !.step = "act", !.by = s, !.of = u,
                                               !.own = own] : s \in Nat},
               op \in MFAOps \cup {"create", "reset"} => u \in User,
               RequestOf(c, r)
        PROVE  req' \in [Client -> RequestRow] /\ Requests'
    <3>1. op \in Ops /\ "act" \in Steps
        BY DEF Ops, Steps
    <3>2. r \in RequestRow
        BY <3>1, ZenonT(60) DEF RequestRow, NoRequest
    <3>3. r.op = op /\ r.of = u /\ r.step = "act"
        BY DEF NoRequest
    <3>4. NamedNext(r)
        BY <2>2, <3>3 DEF NamedNext
    <3>5. QED
        BY <1>2, <2>2, <3>2, <3>4
  <2>3. QED
    BY <1>7, <2>1, <2>2, ZenonT(60) DEF Asked
<1>8. ASSUME NEW c \in Client, Reading(c) PROVE req' \in [Client -> RequestRow] /\ Requests'
  <2> DEFINE u == req[c].of
  <2>1. req[c].op \in MFAOps => u \in User
    BY DEF Requests, Named
  <2>2. ASSUME NEW k \in Nat, RequestOf(c, [req[c] EXCEPT !.step = "commit", !.key = k])
        PROVE  req' \in [Client -> RequestRow] /\ Requests'
    <3> DEFINE r == [req[c] EXCEPT !.step = "commit", !.key = k]
    <3>1. r \in RequestRow /\ NamedNext(r)
        BY DEF RequestRow, Steps, Requests, Named, NamedNext
    <3>2. QED
        BY <1>2, <2>2, <3>1
  <2>3. ASSUME NEW k \in Nat, NEW at \in Int,
               RequestOf(c, [req[c] EXCEPT !.step = "commit", !.at = at, !.key = k])
        PROVE  req' \in [Client -> RequestRow] /\ Requests'
    <3> DEFINE r == [req[c] EXCEPT !.step = "commit", !.at = at, !.key = k]
    <3>1. r \in RequestRow /\ NamedNext(r)
        BY DEF RequestRow, Steps, Requests, Named, NamedNext
    <3>2. QED
        BY <1>2, <2>3, <3>1
  <2>4. ASSUME NEW k \in Nat, RequestOf(c, [req[c] EXCEPT !.step = "recover", !.key = k])
        PROVE  req' \in [Client -> RequestRow] /\ Requests'
    <3> DEFINE r == [req[c] EXCEPT !.step = "recover", !.key = k]
    <3>1. r \in RequestRow /\ NamedNext(r)
        BY DEF RequestRow, Steps, Requests, Named, NamedNext
    <3>2. QED
        BY <1>2, <2>4, <3>1
  <2>5. \A i \in DOMAIN codes : i \in Nat
    <3>1. codes \in Seq(CodeRow)
        BY DEF Rows
    <3>2. QED
        BY <3>1, LenProperties
  <2>6. QED
    BY <1>8, <2>1, <2>2, <2>3, <2>4, <2>5, FactorAt DEF Reading, MFAOps
<1>9. QED
    BY <1>3, <1>4, <1>6, <1>7, <1>8, RequestSteps

----------------------------------------------------------------------------
\* Sessions.

\* A session's user has an account: none is ever deleted.
SessionUsers == \A s \in DOMAIN sessions : users[sessions[s].user].state # "none"

\* The password that a user with an account has now changes in one statement
\* only, with all of that user's sessions revoked.
LEMMA PasswordSteps ==
    ASSUME Rows, [TokensNext]_allVars, NEW u \in User, users[u].state # "none"
    PROVE  \/ users'[u].password = users[u].password
           \/ sessions' = RevokeAllUserSessions(u)
<1> USE Numbers
<1>1. users \in [Account -> UserRow] /\ u \in Account /\ users[u] \in UserRow
    BY DEF Rows
<1>2. ASSUME NEW v, NEW admin, users' = CreateLocalUser(v, admin)
      PROVE  users'[u].password = users[u].password
    BY <1>1, <1>2 DEF CreateLocalUser, Local
<1>3. ASSUME NEW v \in Account, NEW admin \in BOOLEAN,
             users' \in {Disabled(v), Reenabled(v), AdminSet(v, admin)}
      PROVE  users'[u].password = users[u].password
  <2>1. CASE users' = Disabled(v)
    BY <1>1, <2>1 DEF Disabled
  <2>2. CASE users' = Reenabled(v)
    BY <1>1, <2>2 DEF Reenabled
  <2>3. CASE users' = AdminSet(v, admin)
    BY <1>1, <2>3 DEF AdminSet
  <2>4. QED
    BY <1>3, <2>1, <2>2, <2>3
<1>4. ASSUME NEW v \in User, PasswordReset(v)
      PROVE  \/ users'[u].password = users[u].password
             \/ sessions' = RevokeAllUserSessions(u)
    BY <1>1, <1>4 DEF PasswordReset, UpdateUserPasswordHash
<1>5. ASSUME users' = BootstrapUser PROVE users'[u].password = users[u].password
    BY <1>1, <1>5 DEF BootstrapUser
<1>6. QED
    BY <1>2, <1>3, <1>4, <1>5, UsersMove

LEMMA SessionSteps ==
    ASSUME Rows, Requests, SessionUsers, PasswordEndsSessions, [TokensNext]_allVars
    PROVE  sessions' \in Seq(SessionRow) /\ SessionUsers' /\ PasswordEndsSessions'
<1>1. CASE SessionsKept
  <2>1. ASSUME NEW s \in DOMAIN sessions'
        PROVE  /\ users'[sessions'[s].user].state # "none"
               /\ ~sessions'[s].revoked /\ ~sessions'[s].late
                    => sessions'[s].password = users'[sessions'[s].user].password
    <3> DEFINE u == sessions[s].user
    <3>1. s \in DOMAIN sessions /\ Kept(sessions[s], sessions'[s])
        BY <1>1, <2>1 DEF SessionsKept
    <3>2. u \in User /\ u \in Account /\ users[u].state # "none" /\ sessions'[s].user = u
        BY <3>1, SessionAt, Numbers DEF SessionUsers, Kept
    <3>3. CASE users'[u].password = users[u].password
        BY <3>1, <3>2, <3>3, UserSteps DEF Kept, PasswordEndsSessions
    <3>4. CASE sessions' = RevokeAllUserSessions(u)
      <4>1. sessions'[s].revoked
        BY <3>1, <3>4, SessionAt DEF RevokeAllUserSessions, SessionRow
      <4>2. QED
        BY <3>2, <4>1, UserSteps
    <3>5. QED
        BY <3>2, <3>3, <3>4, PasswordSteps
  <2>2. QED
    BY <1>1, <2>1 DEF SessionsKept, SessionUsers, PasswordEndsSessions
<1>2. ASSUME NEW c \in Client, Opened(c)
      PROVE  sessions' \in Seq(SessionRow) /\ SessionUsers' /\ PasswordEndsSessions'
  <2> DEFINE new == NewSession(req[c].of, req[c].key, clock)
  <2>1. req[c].of \in User /\ users[req[c].of].state # "none" /\ UNCHANGED users
    BY <1>2 DEF Opened, Requests, Named
  <2>2. sessions \in Seq(SessionRow) /\ sessions' = Append(sessions, new)
    BY <1>2 DEF Rows, Opened
  <2>3. new \in SessionRow /\ new.user = req[c].of
        /\ (~new.late => new.password = users[new.user].password)
    <3>1. req[c].key \in Nat /\ clock \in Nat /\ clock + Idle \in Nat /\ clock + Absolute \in Nat
        BY RequestAt, Numbers DEF RequestRow, Rows
    <3>2. QED
        BY <2>1, <3>1 DEF NewSession, SessionRow
  <2> HIDE DEF new
  <2>4. /\ sessions' \in Seq(SessionRow)
        /\ DOMAIN sessions' = DOMAIN sessions \cup {Len(sessions) + 1}
        /\ \A s \in DOMAIN sessions : sessions'[s] = sessions[s]
        /\ sessions'[Len(sessions) + 1] = new
    BY <2>2, <2>3, Appended
  <2>5. QED
    BY <2>1, <2>3, <2>4 DEF SessionUsers, PasswordEndsSessions
<1>3. QED
    BY <1>1, <1>2, SessionsMove

----------------------------------------------------------------------------
\* Resets by mail and the clock: types only.

LEMMA MailSteps ==
    ASSUME Rows, [TokensNext]_allVars
    PROVE  resets' \in Seq(ResetRow) /\ jobs' \subseteq User /\ clock' \in Nat
<1> USE DEF accountVars, vars, allVars
<1>1. resets \in Seq(ResetRow) /\ jobs \subseteq User /\ clock \in Nat
    BY DEF Rows
<1>2. CASE UNCHANGED <<resets, jobs, clock>>
    BY <1>1, <1>2
<1>3. ASSUME NEW u \in User, RequestReset(u) \/ IssueReset(u)
      PROVE  resets' \in Seq(ResetRow) /\ jobs' \subseteq User /\ clock' \in Nat
  <2>1. NewReset(u) \in ResetRow
    BY <1>1, Numbers DEF NewReset, ResetRow
  <2>2. Append(resets, NewReset(u)) \in Seq(ResetRow)
    BY <1>1, <2>1, Appended
  <2>3. QED
    BY <1>1, <1>3, <2>2 DEF RequestReset, IssueReset
<1>4. ASSUME NEW t \in DOMAIN resets, ConfirmReset(t)
      PROVE  resets' \in Seq(ResetRow) /\ jobs' \subseteq User /\ clock' \in Nat
  <2>1. \A r \in DOMAIN resets : resets[r] \in ResetRow
    BY <1>1, ElementAt
  <2> DEFINE used == [resets EXCEPT ![t].used = TRUE]
  <2>2. used \in [DOMAIN resets -> ResetRow]
    <3>1. resets \in [DOMAIN resets -> ResetRow]
        BY <1>1, <2>1, LenProperties
    <3>2. QED
        BY <2>1, <3>1 DEF ResetRow
  <2>3. used \in Seq(ResetRow)
    BY <1>1, <2>2, Replaced
  <2>4. QED
    BY <1>1, <1>4, <2>3 DEF ConfirmReset, ConfirmPasswordReset
<1>5. CASE Tick
    BY <1>1, <1>5 DEF Tick
<1>6. CASE Restart
    BY <1>1, <1>6 DEF Restart
<1>7. ASSUME NEW c \in Client, Login(c) \/ AdminStep(c) PROVE UNCHANGED <<resets, jobs, clock>>
    BY <1>7, ZenonT(60) DEF Login, SetupAdmin, handleLogin, LoginRefused, CreateSession, Enter, Logout,
                RequestFails, AdminStep, CreateUser, DisableUser, EnableUser, UpdateUser,
                RevokeSessions, ResetPassword, Administered
<1>8. ASSUME NEW c \in Client, FactorStep(c) PROVE UNCHANGED <<resets, jobs, clock>>
    BY <1>8 DEF FactorStep, SetupFactor, ReadPending, EnableFactor, MarkVerified, ReadFactor,
                ReadRecovery, SpendCode, SpendRecovery, DisableFactor, ChallengeRefused,
                DisableRefused
<1>9. ASSUME NEW c \in Client, Token(c) PROVE UNCHANGED <<resets, jobs, clock>>
    BY <1>9 DEF Token, RevokePAT, EnterByPAT, MintPAT
<1>10. ASSUME NEW b \in Boot, Booted(b) PROVE UNCHANGED <<resets, jobs, clock>>
    BY <1>10 DEF Booted, BootLock, BootClaim, BootMint, BootWrite, BootSync, BootFails,
              BootRevoke, BootRemove, BootDies, BootStep
<1>11. CASE RemoveFile \/ UNCHANGED allVars
    BY <1>2, <1>11 DEF RemoveFile
<1>12. QED
    BY <1>2, <1>3, <1>4, <1>5, <1>6, <1>7, <1>8, <1>9, <1>10, <1>11, Groups DEF Mail

----------------------------------------------------------------------------
\* Tokens and the bootstrap.

\* The lock: one server at a time is between its claim and its end.
OneBoots == \A a, b \in Boot : boot[a].step # "off" /\ boot[b].step # "off" => a = b

\* A token an operator can use, or knows why not.
Told(t) == t \in DOMAIN pats /\ (pats[t].dropped \/ pats[t].abandoned \/ LiveBootstrap = {t})

\* What a start at a step, with its token, knows of the file and of the token.
Filed(step, pat) ==
    /\ step \in {"mint", "write"} => ~(file > 0)
    /\ step \in {"sync", "revoke", "remove"} /\ file > 0 => file = pat
    /\ step \in {"write", "sync", "revoke"} => Told(pat)
    /\ step = "remove" => pat = 0 \/ pat \in DOMAIN pats

Bootstraps ==
    /\ OneBoots
    /\ \A s, t \in LiveBootstrap : s = t
    /\ file > 0 => \/ Told(file)
                   \/ \E b \in Boot : boot[b].step = "remove" /\ boot[b].pat = file
    /\ \A b \in Boot : Filed(boot[b].step, boot[b].pat)

PatsKept ==
    /\ pats' \in Seq(PatRow) /\ DOMAIN pats \subseteq DOMAIN pats'
    /\ \A s, t \in LiveBootstrap' : s = t
    /\ \A t : Told(t) => Told(t)'

LEMMA PatAt == ASSUME Rows, NEW t \in DOMAIN pats PROVE pats[t] \in PatRow
<1>1. pats \in Seq(PatRow)
    BY DEF Rows
<1>2. QED
    BY <1>1, ElementAt

LEMMA SamePats == ASSUME Rows, Bootstraps, UNCHANGED pats PROVE PatsKept
BY DEF Rows, Bootstraps, PatsKept, Told, LiveBootstrap

LEMMA MintedPat ==
    ASSUME Rows, Bootstraps, NEW u \in Account, pats' = Append(pats, NewPat(u, "other"))
    PROVE  PatsKept
<1> DEFINE new == NewPat(u, "other")
<1>1. new \in PatRow /\ new.name = "other"
    BY DEF NewPat, PatRow
<1> HIDE DEF new
<1>2. pats \in Seq(PatRow) /\ pats' = Append(pats, new)
    BY DEF Rows, new
<1>3. /\ pats' \in Seq(PatRow) /\ Len(pats) \in Nat
      /\ DOMAIN pats = 1 .. Len(pats) /\ DOMAIN pats' = 1 .. Len(pats) + 1
      /\ \A t \in DOMAIN pats : pats'[t] = pats[t]
      /\ pats'[Len(pats) + 1] = new
    BY <1>1, <1>2, Appended
<1>4. DOMAIN pats' = DOMAIN pats \cup {Len(pats) + 1}
    BY <1>3
<1>5. LiveBootstrap' = LiveBootstrap
    BY <1>1, <1>3, <1>4 DEF LiveBootstrap
<1>6. QED
    BY <1>3, <1>4, <1>5 DEF Bootstraps, PatsKept, Told

LEMMA RevokedPat ==
    ASSUME Rows, Bootstraps, NEW t, NEW owner, pats' = RevokeUserPAT(t, owner), t \in DOMAIN pats
    PROVE  PatsKept
<1>1. pats \in Seq(PatRow) /\ pats \in [DOMAIN pats -> PatRow]
    BY PatAt, LenProperties DEF Rows
<1>2. CASE UNCHANGED pats
    BY <1>2, SamePats
<1>3. CASE pats' = [pats EXCEPT ![t].revoked = TRUE, ![t].dropped = TRUE]
  <2>1. pats' \in [DOMAIN pats -> PatRow]
    BY <1>1, <1>3 DEF PatRow
  <2>2. pats' \in Seq(PatRow) /\ DOMAIN pats' = DOMAIN pats
    BY <1>1, <2>1, Replaced
  <2>3. pats'[t].revoked /\ pats'[t].dropped /\ \A s \in DOMAIN pats : s # t => pats'[s] = pats[s]
    BY <1>1, <1>3, ZenonT(60) DEF PatRow
  <2>4. LiveBootstrap' = LiveBootstrap \ {t}
    BY <2>2, <2>3 DEF LiveBootstrap
  <2>5. \A s : Told(s) => Told(s)'
    BY <2>2, <2>3, <2>4 DEF Told
  <2>6. QED
    BY <2>2, <2>4, <2>5 DEF PatsKept, Bootstraps
<1>4. QED
    BY <1>2, <1>3 DEF RevokeUserPAT

BootTypes == pats' \in Seq(PatRow) /\ file' \in Int /\ boot' \in [Boot -> BootRow]

\* A step of the starting server: the others are off before and after it.
LEMMA BootMoves ==
    ASSUME Rows, Bootstraps, NEW b \in Boot,
           NEW step \in BootSteps, NEW pat \in Nat, BootStep(b, step, pat),
           boot[b].step # "off" \/ \A a \in Boot : boot[a].step = "off",
           pats' \in Seq(PatRow), file' \in Int, \A s, t \in LiveBootstrap' : s = t,
           (file > 0 => Told(file) \/ (step = "remove" /\ pat = file))',
           Filed(step, pat)'
    PROVE  BootTypes /\ Bootstraps'
<1>1. boot \in [Boot -> BootRow] /\ [step |-> step, pat |-> pat] \in BootRow
    BY DEF Rows, BootRow
<1>2. boot' = [boot EXCEPT ![b] = [step |-> step, pat |-> pat]]
    BY DEF BootStep
<1>3. boot' \in [Boot -> BootRow] /\ boot'[b].step = step /\ boot'[b].pat = pat
    BY <1>1, <1>2
<1>4. \A a \in Boot : a # b => boot'[a].step = "off"
    BY <1>1, <1>2 DEF Bootstraps, OneBoots
<1>5. OneBoots'
    BY <1>3, <1>4 DEF OneBoots
<1>6. ASSUME NEW a \in Boot PROVE Filed(boot[a].step, boot[a].pat)'
  <2>1. CASE a = b
    BY <1>3, <2>1 DEF Filed
  <2>2. CASE a # b
    BY <1>4, <2>2 DEF Filed
  <2>3. QED
    BY <2>1, <2>2
<1>7. QED
    BY <1>3, <1>5, <1>6 DEF Bootstraps, BootTypes

LEMMA AbandonedPat ==
    ASSUME Rows, Bootstraps, NEW t \in Nat, t = 0 \/ t \in DOMAIN pats, pats' = Abandon(t)
    PROVE  PatsKept /\ (t # 0 => Told(t)')
<1>1. pats \in Seq(PatRow) /\ pats \in [DOMAIN pats -> PatRow]
    BY PatAt, LenProperties DEF Rows
<1>2. CASE t = 0
    BY <1>2, SamePats DEF Abandon, None
<1>3. CASE t # 0
  <2>1. pats' = [pats EXCEPT ![t].abandoned = TRUE]
    BY <1>3 DEF Abandon, None
  <2>2. pats' \in [DOMAIN pats -> PatRow]
    BY <1>1, <2>1 DEF PatRow
  <2>3. pats' \in Seq(PatRow) /\ DOMAIN pats' = DOMAIN pats
    BY <1>1, <2>2, Replaced
  <2>4. /\ pats'[t].abandoned /\ pats'[t].name = pats[t].name
        /\ pats'[t].revoked = pats[t].revoked
        /\ \A s \in DOMAIN pats : s # t => pats'[s] = pats[s]
    BY <1>1, <1>3, <2>1, ZenonT(60) DEF PatRow
  <2>5. LiveBootstrap' = LiveBootstrap
    BY <2>3, <2>4 DEF LiveBootstrap
  <2>6. Told(t)' /\ \A s : Told(s) => Told(s)'
    BY <1>3, <2>3, <2>4, <2>5 DEF Told
  <2>7. QED
    BY <2>3, <2>5, <2>6 DEF PatsKept, Bootstraps
<1>4. QED
    BY <1>2, <1>3

LEMMA UndonePat ==
    ASSUME Rows, Bootstraps, NEW t \in DOMAIN pats, pats' = RevokeUserPATByHash(t)
    PROVE  /\ pats' \in Seq(PatRow) /\ DOMAIN pats' = DOMAIN pats
           /\ \A s, r \in LiveBootstrap' : s = r
<1>1. pats' = [pats EXCEPT ![t].revoked = TRUE]
    BY DEF RevokeUserPATByHash
<1>2. pats \in Seq(PatRow) /\ pats \in [DOMAIN pats -> PatRow]
    BY PatAt, LenProperties DEF Rows
<1>3. pats' \in [DOMAIN pats -> PatRow]
    BY <1>1, <1>2 DEF PatRow
<1>4. pats' \in Seq(PatRow) /\ DOMAIN pats' = DOMAIN pats
    BY <1>2, <1>3, Replaced
<1>5. LiveBootstrap' \subseteq LiveBootstrap
    BY <1>1, <1>2, <1>4 DEF LiveBootstrap, PatRow
<1>6. QED
    BY <1>4, <1>5 DEF Bootstraps

\* The mint leaves one live bootstrap token, the new one.
LEMMA BootMints ==
    ASSUME Rows, Bootstraps, NEW b \in Boot, BootMint(b)
    PROVE  BootTypes /\ Bootstraps'
<1> USE DEF None, Absent, Empty, Booting
<1> DEFINE old == RevokeLiveBootstrapPATs
           new == NewPat(Service, "bootstrap")
<1>1. /\ boot[b].step = "mint" /\ pats \in Seq(PatRow) /\ file \in Int
    BY DEF Rows, BootRow, BootMint
<1>2. new \in PatRow /\ new.name = "bootstrap" /\ ~new.revoked
    BY Numbers DEF NewPat, PatRow
<1>3. old \in [DOMAIN pats -> PatRow]
  <2>1. \A t \in DOMAIN pats : pats[t] \in PatRow /\ [pats[t] EXCEPT !.revoked = TRUE] \in PatRow
    BY PatAt DEF PatRow
  <2>2. QED
    BY <2>1 DEF RevokeLiveBootstrapPATs
<1>4. old \in Seq(PatRow) /\ DOMAIN old = DOMAIN pats
    BY <1>1, <1>3, Replaced
<1>5. \A t \in DOMAIN old : ~(old[t].name = "bootstrap" /\ ~old[t].revoked)
  <2>1. \A t \in DOMAIN pats : pats[t] \in PatRow
    BY PatAt
  <2>2. QED
    BY <1>4, <2>1 DEF RevokeLiveBootstrapPATs, LiveBootstrap, PatRow
<1>6. pats' = Append(old, new) /\ BootStep(b, "write", Len(pats')) /\ file' = file
    BY DEF BootMint
<1> HIDE DEF old, new
<1>7. /\ pats' \in Seq(PatRow) /\ Len(old) \in Nat
      /\ DOMAIN old = 1 .. Len(old) /\ DOMAIN pats' = 1 .. Len(old) + 1
      /\ \A t \in DOMAIN old : pats'[t] = old[t]
      /\ pats'[Len(old) + 1] = new
    BY <1>2, <1>4, <1>6, Appended
<1>8. Len(pats') = Len(old) + 1 /\ Len(pats') \in Nat
  <2>1. Len(pats') \in Nat /\ DOMAIN pats' = 1 .. Len(pats')
    BY <1>7, LenProperties
  <2>2. QED
    BY <1>7, <2>1
<1>9. LiveBootstrap' = {Len(pats')}
    BY <1>2, <1>5, <1>7, <1>8 DEF LiveBootstrap
<1>10. PICK p \in Nat : p = Len(pats')
    BY <1>8
<1>11. ~(file' > 0)
    BY <1>1, <1>6 DEF Bootstraps, Filed
<1>12. Told(p)'
    BY <1>7, <1>8, <1>9, <1>10 DEF Told
<1>13. Filed("write", p)'
    BY <1>11, <1>12 DEF Filed
<1>14. BootStep(b, "write", p) /\ \A s, t \in LiveBootstrap' : s = t
    BY <1>6, <1>9, <1>10
<1>15. QED
    BY <1>1, <1>6, <1>7, <1>11, <1>13, <1>14, BootMoves DEF BootSteps

\* Every other step of a start.
LEMMA BootGoes ==
    ASSUME Rows, Bootstraps, NEW b \in Boot, Booted(b), ~BootMint(b)
    PROVE  BootTypes /\ Bootstraps'
<1> USE DEF None, Absent, Empty, Torn, Booting
<1>1. PICK p \in Nat : p = boot[b].pat
    BY DEF Rows, BootRow
<1>2. PICK s \in BootSteps : s = boot[b].step
    BY DEF Rows, BootRow
<1>3. /\ file \in Int /\ 0 \in Nat /\ Filed(s, p)
      /\ \A r, t \in LiveBootstrap : r = t
    BY <1>1, <1>2 DEF Rows, Bootstraps
\* Off, whatever the file is now, when it names no token or one that is told.
<1>4. ASSUME BootStep(b, "off", 0), s # "off" \/ \A a \in Boot : boot[a].step = "off",
             PatsKept, file' \in Int, (file > 0 => Told(file))'
      PROVE  BootTypes /\ Bootstraps'
  <2>1. Filed("off", 0)'
    BY DEF Filed
  <2>2. QED
    BY <1>2, <1>3, <1>4, <2>1, BootMoves DEF PatsKept, BootSteps
\* A token in the file, unless the start is about to remove it, is told.
<1>5. s # "off" /\ s # "remove" /\ file > 0 => Told(file)
    BY <1>2 DEF Bootstraps, OneBoots
<1>6. ASSUME UNCHANGED pats, UNCHANGED file \/ ~(file' > 0), s # "remove", s # "off"
      PROVE  (file > 0 => Told(file))'
    BY <1>5, <1>6, SamePats DEF PatsKept
<1>7. CASE BootLock(b)
  <2>1. BootStep(b, "claim", 0) /\ (\A a \in Boot : boot[a].step = "off") /\ UNCHANGED <<pats, file>>
    BY <1>7 DEF BootLock
  <2>2. Filed("claim", 0)' /\ PatsKept
    BY <2>1, SamePats DEF Filed
  <2>3. (file > 0 => Told(file))'
    BY <2>1, <2>2 DEF Bootstraps, PatsKept
  <2>4. QED
    BY <1>3, <2>1, <2>2, <2>3, BootMoves DEF PatsKept, BootSteps
<1>8. CASE BootClaim(b)
  <2>1. s = "claim" /\ UNCHANGED pats /\ PatsKept
    BY <1>2, <1>8, SamePats DEF BootClaim
  <2>2. CASE file \in {Absent, Empty}
    <3>1. BootStep(b, "mint", 0) /\ file' = 0
        BY <1>8, <2>2 DEF BootClaim
    <3>2. file' \in Int /\ ~(file' > 0) /\ Filed("mint", 0)'
        BY <3>1 DEF Filed
    <3>3. QED
        BY <1>2, <1>3, <2>1, <3>1, <3>2, BootMoves DEF PatsKept, BootSteps
  <2>3. CASE file \notin {Absent, Empty}
    <3>1. BootStep(b, "off", 0) /\ file' = file
        BY <1>8, <2>3 DEF BootClaim
    <3>2. QED
        BY <1>3, <1>4, <1>6, <2>1, <3>1
  <2>4. QED
    BY <2>2, <2>3
<1>9. CASE BootWrite(b)
  <2>1. /\ s = "write" /\ BootStep(b, "sync", p) /\ UNCHANGED pats /\ PatsKept
        /\ file' = IF file = 0 THEN p ELSE file
    BY <1>1, <1>2, <1>9, SamePats DEF BootWrite
  <2>2. Told(p)' /\ ~(file > 0)
    BY <1>3, <2>1 DEF Filed, PatsKept
  <2>3. file' \in Int /\ (file' > 0 => file' = p)
    BY <1>3, <2>1, <2>2
  <2>4. Filed("sync", p)' /\ (file > 0 => Told(file))'
    BY <2>2, <2>3 DEF Filed, Told
  <2>5. QED
    BY <1>2, <2>1, <2>3, <2>4, BootMoves DEF PatsKept, BootSteps
<1>10. CASE BootSync(b)
  <2>1. s = "sync" /\ BootStep(b, "off", 0) /\ UNCHANGED <<pats, file>> /\ PatsKept
    BY <1>2, <1>10, SamePats DEF BootSync
  <2>2. QED
    BY <1>3, <1>4, <1>6, <2>1
<1>11. CASE BootFails(b)
  <2>1. UNCHANGED pats /\ PatsKept
    BY <1>11, SamePats DEF BootFails
  <2>2. CASE s = "claim"
    <3>1. BootStep(b, "off", 0) /\ (file' = file \/ file' = 0 - 1)
        BY <1>2, <1>11, <2>2 DEF BootFails
    <3>2. QED
        BY <1>3, <1>4, <1>6, <2>1, <2>2, <3>1
  <2>3. CASE s = "mint"
    <3>1. BootStep(b, "remove", 0) /\ file' = file
        BY <1>2, <1>11, <2>3 DEF BootFails
    <3>2. ~(file' > 0)
        BY <1>3, <2>3, <3>1 DEF Filed
    <3>3. Filed("remove", 0)'
        BY <3>2 DEF Filed
    <3>4. QED
        BY <1>2, <1>3, <2>1, <2>3, <3>1, <3>2, <3>3, BootMoves DEF PatsKept, BootSteps
  <2>4. CASE s \in {"write", "sync"}
    <3>1. BootStep(b, "revoke", p) /\ (file' = file \/ file' = 0 - 2)
        BY <1>1, <1>2, <1>11, <2>4 DEF BootFails
    <3>2. Told(p)' /\ file' \in Int /\ (file' > 0 => file' = p)
        BY <1>3, <2>1, <2>4, <3>1 DEF Filed, PatsKept
    <3>3. Filed("revoke", p)' /\ (file > 0 => Told(file))'
        BY <3>2 DEF Filed, Told
    <3>4. QED
        BY <1>2, <2>1, <2>4, <3>1, <3>2, <3>3, BootMoves DEF PatsKept, BootSteps
  <2>5. QED
    BY <1>2, <1>11, <2>2, <2>3, <2>4 DEF BootFails
<1>12. CASE BootRevoke(b)
  <2>1. s = "revoke" /\ BootStep(b, "remove", p) /\ file' = file
    BY <1>1, <1>2, <1>12 DEF BootRevoke
  <2>2. p \in DOMAIN pats /\ (file > 0 => file = p)
    BY <1>3, <2>1 DEF Filed, Told
  <2>3. /\ pats' \in Seq(PatRow) /\ DOMAIN pats \subseteq DOMAIN pats'
        /\ \A r, t \in LiveBootstrap' : r = t
    BY <1>1, <1>12, <2>2, SamePats, UndonePat DEF BootRevoke, PatsKept
  <2>4. Filed("remove", p)' /\ (file > 0 => p = file)'
    BY <2>1, <2>2, <2>3 DEF Filed
  <2>5. QED
    BY <1>2, <1>3, <2>1, <2>3, <2>4, BootMoves DEF BootSteps
\* The start goes off with its token abandoned.
<1>13. ASSUME s = "remove", BootStep(b, "off", 0), pats' = Abandon(p), file' = file
       PROVE  BootTypes /\ Bootstraps'
  <2>1. (p = 0 \/ p \in DOMAIN pats) /\ (file > 0 => file = p)
    BY <1>3, <1>13 DEF Filed
  <2>2. PatsKept /\ (p # 0 => Told(p)')
    BY <1>13, <2>1, AbandonedPat
  <2>3. (file > 0 => Told(file))'
    BY <1>3, <1>13, <2>1, <2>2 DEF Told
  <2>4. QED
    BY <1>3, <1>4, <1>13, <2>2, <2>3
<1>14. CASE BootRemove(b)
  <2>1. s = "remove" /\ BootStep(b, "off", 0)
    BY <1>2, <1>14 DEF BootRemove
  <2>2. CASE file' = 0 - 1 /\ UNCHANGED pats
    BY <1>4, <2>1, <2>2, SamePats
  <2>3. CASE pats' = Abandon(p) /\ file' = file
    BY <1>13, <2>1, <2>3
  <2>4. QED
    BY <1>1, <1>14, <2>2, <2>3 DEF BootRemove
<1>15. CASE BootDies(b)
  <2>1. s # "off" /\ BootStep(b, "off", 0)
    BY <1>2, <1>15 DEF BootDies
  <2>2. CASE s = "remove"
    <3>1. pats' = Abandon(p) /\ file' = file
        BY <1>1, <1>2, <1>15, <2>2 DEF BootDies
    <3>2. QED
        BY <1>13, <2>1, <2>2, <3>1
  <2>3. CASE s # "remove"
    <3>1. UNCHANGED pats /\ PatsKept /\ (file' = file \/ file' = 0 \/ file' = 0 - 2)
        BY <1>2, <1>15, <2>3, SamePats DEF BootDies
    <3>2. QED
        BY <1>3, <1>4, <1>6, <2>1, <2>3, <3>1
  <2>4. QED
    BY <2>2, <2>3
<1>16. QED
    BY <1>7, <1>8, <1>9, <1>10, <1>11, <1>12, <1>14, <1>15 DEF Booted

LEMMA BootGoesOn ==
    ASSUME Rows, Bootstraps, NEW b \in Boot, Booted(b)
    PROVE  BootTypes /\ Bootstraps'
BY BootMints, BootGoes

LEMMA TokenSteps ==
    ASSUME Rows, Bootstraps, [TokensNext]_allVars
    PROVE  BootTypes /\ Bootstraps'
<1>1. boot \in [Boot -> BootRow] /\ file \in Int
    BY DEF Rows
<1>2. ASSUME PatsKept, UNCHANGED boot, UNCHANGED file \/ file' = Absent
      PROVE  BootTypes /\ Bootstraps'
  <2>1. \A b \in Boot : Filed(boot[b].step, boot[b].pat)'
    BY <1>1, <1>2 DEF Bootstraps, Filed, PatsKept, Absent
  <2>2. QED
    BY <1>1, <1>2, <2>1 DEF Bootstraps, OneBoots, PatsKept, BootTypes, Absent
<1>3. CASE UNCHANGED tokenVars
  <2>1. UNCHANGED <<pats, boot, file>>
    BY <1>3 DEF tokenVars
  <2>2. QED
    BY <2>1, <1>2, SamePats
<1>4. ASSUME NEW c \in Client, Token(c) PROVE BootTypes /\ Bootstraps'
  <2>1. ASSUME NEW t \in DOMAIN pats, RevokePAT(c, t) PROVE BootTypes /\ Bootstraps'
    <3>1. pats' = RevokeUserPAT(t, req[c].own) /\ UNCHANGED <<file, boot>>
        BY <2>1 DEF RevokePAT
    <3>2. QED
        BY <3>1, <1>2, RevokedPat
  <2>2. CASE MintPAT(c)
    <3>1. pats' = Mint(req[c].own) /\ UNCHANGED <<file, boot>>
        BY <2>2 DEF MintPAT
    <3>2. req[c].own \in Account
        BY RequestAt DEF RequestRow
    <3>3. CASE UNCHANGED pats
        BY <3>1, <3>3, <1>2, SamePats
    <3>4. CASE pats' = Append(pats, NewPat(req[c].own, "other"))
        BY <3>1, <3>2, <3>4, <1>2, MintedPat
    <3>5. QED
        BY <3>1, <3>3, <3>4 DEF Mint
  <2>3. ASSUME NEW t, NEW op, NEW u, EnterByPAT(c, t, op, u) PROVE BootTypes /\ Bootstraps'
    BY <2>3, <1>3 DEF EnterByPAT
  <2>4. QED
    BY <1>4, <2>1, <2>2, <2>3 DEF Token
<1>5. CASE RemoveFile
  <2>1. UNCHANGED <<pats, boot>> /\ file' = Absent
    BY <1>5 DEF RemoveFile
  <2>2. QED
    BY <2>1, <1>2, SamePats
<1>6. CASE UNCHANGED allVars
    BY <1>3, <1>6 DEF allVars
<1>7. QED
    BY <1>3, <1>4, <1>5, <1>6, BootGoesOn, Groups

----------------------------------------------------------------------------
\* The second factor: whose a secret is, and which codes were spent.

\* A user's pending, enrolled or just checked secret.
Holds(u, x) ==
    x # None /\ (\/ pending[u].secret = x \/ factor[u].secret = x
                 \/ \E c \in Client : req[c].step = "commit" /\ req[c].of = u /\ req[c].key = x)

\* A secret is one user's, and handed out; an enrolled one counts as spent.
Secrets ==
    /\ spent.secrets \subseteq 1 .. made
    /\ \A u \in User, x \in Nat : Holds(u, x) => x <= made
    /\ \A u, v \in User, x \in Nat : Holds(u, x) /\ Holds(v, x) => u = v
    /\ \A u \in User : factor[u].secret # None => factor[u].secret \in spent.secrets
    /\ \A u \in User : factor[u].secret = None => factor[u].salt = None
    /\ \A c \in Client : req[c].step = "commit" =>
          /\ req[c].op \in {"enable", "challenge", "disable factor"} /\ req[c].key # None
          /\ req[c].op # "enable" => req[c].key \in spent.secrets

SpentRow == [secrets : SUBSET Nat, again : SUBSET Nat,
             once : SUBSET (Nat \X Int), twice : SUBSET (Nat \X Int)]

\* A code that was accepted is of an enrolled secret, and the enrolment of that
\* secret has moved past its step, unless the secret was enrolled again; or it
\* is a recovery code marked used.
Codes ==
    /\ spent \in SpentRow
    /\ \A code \in spent.once : code[1] # None => code[1] \in spent.secrets
    /\ \A code \in spent.once :
          code[1] = None => code[2] \in DOMAIN codes /\ codes[code[2]].used
    /\ \A u \in User, code \in spent.once :
          /\ code[1] # None /\ code[1] = factor[u].secret /\ code[1] \notin spent.again
          => code[2] <= factor[u].used
    /\ None \notin spent.again
    /\ \A c \in Client : req[c].step = "recover" => req[c].key \in DOMAIN codes

\* The recovery codes on file are told apart from a factor without salt.
Salts == \A i \in DOMAIN codes : codes[i].user # None => codes[i].salt # None

Second ==
    /\ Secrets /\ Codes /\ Salts
    /\ CodesMatch /\ CodesSpendOnce

SecondTypes ==
    /\ factor' \in [User -> FactorRow] /\ pending' \in [User -> PendingRow]
    /\ codes' \in Seq(CodeRow) /\ made' \in Nat

\* Steps that have nothing to do with the second factor, or remove a user's.
Removed(u) == factor' = DeleteMFACredentials(u) /\ codes' = DeleteRecoveryCodes(u)

Aside ==
    /\ UNCHANGED <<pending, made, spent>>
    /\ UNCHANGED <<factor, codes>> \/ \E u : Removed(u)
    /\ \A c \in Client : req'[c] = req[c] \/ ~Shown(req'[c])

FactorChange(c) ==
    SetupFactor(c) \/ EnableFactor(c) \/ Reads(c) \/ SpendCode(c) \/ SpendRecovery(c)
    \/ DisableFactor(c)

LEMMA RequestAside ==
    ASSUME Rows, NEW c \in Client, Answered(c) \/ Asked(c)
    PROVE  \A d \in Client : req'[d] = req[d] \/ ~Shown(req'[d])
<1>1. ASSUME NEW r, RequestOf(c, r), ~Shown(r)
      PROVE  \A d \in Client : req'[d] = req[d] \/ ~Shown(req'[d])
    BY <1>1 DEF RequestOf, Rows
<1>2. CASE Answered(c)
  <2>1. ~Shown(NoRequest)
    BY DEF Shown, NoRequest
  <2>2. \A st \in {"refused", "verified"} : ~Shown([req[c] EXCEPT !.step = st])
    BY RequestAt DEF Shown, RequestRow
  <2>3. QED
    BY <1>1, <1>2, <2>1, <2>2 DEF Answered
<1>3. CASE Asked(c)
  <2>1. \A u, p : \A st \in {"open", "slot", "refused"} :
           ~Shown([NoRequest EXCEPT !.op = "login", !.step = st, !.of = u, !.key = p])
    BY DEF Shown, NoRequest
  <2>2. \A op, u, own, s :
           /\ ~Shown([NoRequest EXCEPT !.op = op, !.step = "act", !.of = u, !.own = own])
           /\ ~Shown([NoRequest EXCEPT !.op = op, !.step = "act", !.by = s, !.of = u, !.own = own])
    BY DEF Shown, NoRequest
  <2>3. QED
    BY <1>1, <1>3, <2>1, <2>2 DEF Asked
<1>4. QED
    BY <1>2, <1>3

LEMMA SecondMoves ==
    ASSUME Rows, [TokensNext]_allVars
    PROVE  Aside \/ \E c \in Client : FactorChange(c)
<1> USE DEF accountVars, vars, allVars
<1> DEFINE Rest == UNCHANGED <<factor, pending, codes, made, spent>>
           Gone == UNCHANGED <<pending, made, spent>> /\ \E u : Removed(u)
           Quiet == \A c \in Client : req'[c] = req[c] \/ ~Shown(req'[c])
<1>1. ASSUME NEW c \in Client, Login(c) PROVE Rest
    BY <1>1, ZenonT(60) DEF Login, SetupAdmin, handleLogin, LoginRefused, CreateSession, Enter, Logout, RequestFails
<1>2. ASSUME NEW c \in Client, AdminStep(c) PROVE Rest \/ Gone
    BY <1>2 DEF AdminStep, CreateUser, DisableUser, EnableUser, UpdateUser, RevokeSessions,
                ResetPassword, AdminResetPassword, Administered, Removed
<1>3. ASSUME NEW c \in Client, FactorStep(c) PROVE Rest \/ FactorChange(c)
    BY <1>3 DEF FactorStep, FactorChange, Reads, MarkVerified, ChallengeRefused, DisableRefused
<1>4. ASSUME NEW c \in Client, Token(c) PROVE Rest
    BY <1>4 DEF Token, RevokePAT, EnterByPAT, MintPAT
<1>5. ASSUME NEW b \in Boot, Booted(b) PROVE Rest
    BY <1>5 DEF Booted, BootLock, BootClaim, BootMint, BootWrite, BootSync, BootFails,
              BootRevoke, BootRemove, BootDies, BootStep
<1>6. ASSUME Mail \/ Restart \/ RemoveFile \/ UNCHANGED allVars PROVE Rest
    BY <1>6 DEF Mail, RequestReset, IssueReset, ConfirmReset, Tick, Restart, RemoveFile
<1>7. Rest \/ Gone \/ \E c \in Client : FactorChange(c)
    BY <1>1, <1>2, <1>3, <1>4, <1>5, <1>6, Groups
<1>8. Quiet \/ \E c \in Client : FactorChange(c)
  <2>1. CASE UNCHANGED req
    BY <2>1
  <2>2. CASE req' = [c \in Client |-> NoRequest]
    BY <2>2 DEF Shown, NoRequest
  <2>3. QED
    BY <2>1, <2>2, RequestSteps, RequestAside DEF FactorChange
<1>9. QED
    BY <1>7, <1>8 DEF Aside

LEMMA CodeRowAt == ASSUME Rows, NEW i \in DOMAIN codes PROVE codes[i] \in CodeRow
<1>1. codes \in Seq(CodeRow)
    BY DEF Rows
<1>2. QED
    BY <1>1, ElementAt

LEMMA NotBoth == \A a, b \in Int : ~(a <= b /\ b < a)
OBVIOUS

LEMMA Passed == \A a, b, c \in Int : a <= b /\ b < c => a <= c
OBVIOUS

LEMMA AtMost == \A a, b, c \in Nat : a <= b /\ b <= c => a <= c
OBVIOUS

\* No user comes to hold a secret but one it held.
LEMMA SecretsKept ==
    ASSUME Rows, Secrets, made' \in Nat, made <= made',
           \A u \in User, x \in Nat : Holds(u, x)' => Holds(u, x),
           spent.secrets \subseteq spent'.secrets, spent'.secrets \subseteq 1 .. made',
           \A u \in User : factor'[u].secret # None => factor'[u].secret \in spent'.secrets,
           \A u \in User : factor'[u].secret = None => factor'[u].salt = None,
           \A c \in Client : \/ req'[c] = req[c] \/ req'[c].step # "commit"
                             \/ /\ req'[c].op \in {"enable", "challenge", "disable factor"}
                                /\ req'[c].key # None
                                /\ req'[c].op # "enable" => req'[c].key \in spent'.secrets
    PROVE  Secrets'
<1>1. made \in Nat
    BY DEF Rows
<1>2. \A u \in User, x \in Nat : Holds(u, x)' => x <= made'
  <2>1. ASSUME NEW u \in User, NEW x \in Nat, Holds(u, x)' PROVE x <= made'
    <3>1. Holds(u, x)
        BY <2>1
    <3>2. x <= made
        BY <1>1, <3>1 DEF Secrets
    <3>3. QED
        BY <1>1, <3>2, AtMost
  <2>2. QED
    BY <2>1
<1>3. (\A u, v \in User, x \in Nat : Holds(u, x) /\ Holds(v, x) => u = v)'
    BY DEF Secrets
<1>4. \A c \in Client : req'[c].step = "commit" =>
          /\ req'[c].op \in {"enable", "challenge", "disable factor"} /\ req'[c].key # None
          /\ req'[c].op # "enable" => req'[c].key \in spent'.secrets
    BY DEF Secrets
<1>5. QED
    BY <1>2, <1>3, <1>4 DEF Secrets

\* Recovery codes are only marked used or deleted, and no factor changes but
\* one that goes.
LEMMA RemovedFactor ==
    ASSUME Rows, Second, UNCHANGED <<factor, codes>> \/ \E u : Removed(u)
    PROVE  /\ factor' \in [User -> FactorRow] /\ codes' \in Seq(CodeRow)
           /\ \A u \in User : factor'[u] = factor[u] \/ factor'[u] = NoFactor
           /\ DOMAIN codes' = DOMAIN codes
           /\ \A i \in DOMAIN codes : codes[i].used => codes'[i].used
           /\ CodesMatch' /\ Salts'
<1>1. /\ factor \in [User -> FactorRow] /\ codes \in Seq(CodeRow)
      /\ \A i \in DOMAIN codes : codes[i] \in CodeRow
    BY CodeRowAt DEF Rows
<1>2. CASE UNCHANGED <<factor, codes>>
    BY <1>1, <1>2 DEF Second, CodesMatch, Salts
<1>3. ASSUME NEW u, Removed(u)
      PROVE  /\ factor' \in [User -> FactorRow] /\ codes' \in Seq(CodeRow)
             /\ \A v \in User : factor'[v] = factor[v] \/ factor'[v] = NoFactor
             /\ DOMAIN codes' = DOMAIN codes
             /\ \A i \in DOMAIN codes : codes[i].used => codes'[i].used
             /\ CodesMatch' /\ Salts'
  <2>1. NoFactor \in FactorRow
    BY DEF NoFactor, FactorRow, None
  <2>2. factor' \in [User -> FactorRow]
        /\ \A v \in User : factor'[v] = IF v = u THEN NoFactor ELSE factor[v]
    BY <1>1, <1>3, <2>1 DEF Removed, DeleteMFACredentials
  <2>3. Deleted \in CodeRow /\ Deleted.used /\ Deleted.user = None
    BY DEF Deleted, CodeRow, None
  <2>4. codes' = [i \in DOMAIN codes |-> IF codes[i].user = u THEN Deleted ELSE codes[i]]
    BY <1>3 DEF Removed, DeleteRecoveryCodes
  <2>5. codes' \in [DOMAIN codes -> CodeRow]
    BY <1>1, <2>3, <2>4
  <2>6. codes' \in Seq(CodeRow) /\ DOMAIN codes' = DOMAIN codes
    BY <1>1, <2>5, Replaced
  <2>7. \A i \in DOMAIN codes : \/ codes'[i] = Deleted
                                \/ codes[i].user # u /\ codes'[i] = codes[i]
    BY <2>4
  <2>8. \A i \in DOMAIN codes : codes[i].used => codes'[i].used
    BY <2>3, <2>7
  <2>9. CodesMatch'
    <3>1. ASSUME NEW i \in DOMAIN codes, codes'[i].user # None, ~codes'[i].stray
          PROVE  codes'[i].salt = factor'[codes'[i].user].salt
      <4>1. codes'[i] = codes[i] /\ codes[i].user # u
        BY <2>3, <2>7, <3>1
      <4>2. codes[i].user \in User
        BY <1>1, <3>1, <4>1 DEF CodeRow
      <4>3. QED
        BY <2>2, <3>1, <4>1, <4>2 DEF Second, CodesMatch
    <3>2. QED
        BY <2>6, <3>1 DEF CodesMatch
  <2>10. Salts'
    BY <2>3, <2>6, <2>7 DEF Second, Salts
  <2>11. QED
    BY <2>2, <2>6, <2>8, <2>9, <2>10
<1>4. QED
    BY <1>2, <1>3

LEMMA AsideStep ==
    ASSUME Rows, Second, Aside
    PROVE  SecondTypes /\ Second'
<1>1. /\ factor' \in [User -> FactorRow] /\ codes' \in Seq(CodeRow)
      /\ \A u \in User : factor'[u] = factor[u] \/ factor'[u] = NoFactor
      /\ DOMAIN codes' = DOMAIN codes
      /\ \A i \in DOMAIN codes : codes[i].used => codes'[i].used
      /\ CodesMatch' /\ Salts'
    BY RemovedFactor DEF Aside
<1>2. UNCHANGED <<pending, made, spent>>
      /\ \A c \in Client : req'[c] = req[c] \/ ~Shown(req'[c])
    BY DEF Aside
<1>3. NoFactor.secret = None /\ NoFactor.salt = None
    BY DEF NoFactor
<1>4. Secrets'
  <2>1. \A u \in User, x \in Nat : Holds(u, x)' => Holds(u, x)
    BY <1>1, <1>2, <1>3 DEF Holds, Shown
  <2>2. \A u \in User : factor'[u].secret # None => factor'[u].secret \in spent'.secrets
    BY <1>1, <1>2, <1>3 DEF Second, Secrets
  <2>3. \A u \in User : factor'[u].secret = None => factor'[u].salt = None
    BY <1>1, <1>3 DEF Second, Secrets
  <2>4. made' \in Nat /\ made <= made' /\ spent.secrets \subseteq spent'.secrets
        /\ spent'.secrets \subseteq 1 .. made'
    <3>1. made \in Nat /\ spent.secrets \subseteq 1 .. made
        BY DEF Rows, Second, Secrets
    <3>2. QED
        BY <1>2, <3>1
  <2>5. \A c \in Client : req'[c] = req[c] \/ req'[c].step # "commit"
    BY <1>2 DEF Shown
  <2>6. Secrets
    BY DEF Second
  <2>7. QED
    BY <2>1, <2>2, <2>3, <2>4, <2>5, <2>6, SecretsKept
<1>5. Codes'
  <2>1. spent' = spent /\ Codes
    BY <1>2 DEF Second
  <2>2. \A c \in Client : req'[c].step = "recover" => req'[c].key \in DOMAIN codes'
    BY <1>1, <1>2, <2>1 DEF Codes, Shown
  <2>3. \A u \in User, code \in spent'.once :
          /\ code[1] # None /\ code[1] = factor'[u].secret /\ code[1] \notin spent'.again
          => code[2] <= factor'[u].used
    BY <1>1, <1>3, <2>1 DEF Codes
  <2>4. QED
    BY <1>1, <2>1, <2>2, <2>3 DEF Codes
<1>6. CodesSpendOnce'
    BY <1>2 DEF Second, CodesSpendOnce
<1>7. QED
    BY <1>1, <1>2, <1>4, <1>5, <1>6 DEF Second, SecondTypes, Rows

LEMMA OfUser ==
    ASSUME Rows, Requests, NEW c \in Client, req[c].op \in MFAOps
    PROVE  req[c].of \in User
BY DEF Requests, Named

LEMMA SetupStep ==
    ASSUME Rows, Requests, Second, NEW c \in Client, SetupFactor(c)
    PROVE  SecondTypes /\ Second'
<1> DEFINE u == req[c].of
<1>1. u \in User /\ made \in Nat /\ made' = made + 1
      /\ pending' = [pending EXCEPT ![u] = [secret |-> made + 1, at |-> clock]]
    BY OfUser DEF SetupFactor, Acting, MFAOps, SetMFAPendingSecret, Rows
<1>2. UNCHANGED <<factor, codes, spent>> /\ RequestOf(c, NoRequest)
    BY DEF SetupFactor, Finish, Continue, RequestOf
<1> HIDE DEF u
<1>3. pending' \in [User -> PendingRow] /\ pending'[u].secret = made + 1
      /\ \A v \in User : v # u => pending'[v] = pending[v]
  <2>1. [secret |-> made + 1, at |-> clock] \in PendingRow
    BY <1>1 DEF PendingRow, Rows
  <2>2. pending \in [User -> PendingRow]
    BY DEF Rows
  <2>3. QED
    BY <1>1, <2>1, <2>2
<1>4. \A d \in Client : req'[d] = IF d = c THEN NoRequest ELSE req[d]
    BY <1>2 DEF RequestOf, Rows
<1>5. NoRequest.step = "none"
    BY DEF NoRequest
<1>6. \A v \in User, x \in Nat : Holds(v, x)' => Holds(v, x) \/ (v = u /\ x = made + 1)
    BY <1>1, <1>2, <1>3, <1>4, <1>5 DEF Holds
<1>7. ~\E v \in User : Holds(v, made + 1)
  <2>1. ASSUME NEW v \in User, Holds(v, made + 1) PROVE FALSE
    <3>1. made + 1 \in Nat
        BY <1>1
    <3>2. made + 1 <= made
        BY <2>1, <3>1 DEF Second, Secrets
    <3>3. QED
        BY <1>1, <3>2
  <2>2. QED
    BY <2>1
<1>8. Secrets'
  <2>1. \A v \in User, x \in Nat : Holds(v, x)' => x <= made'
    <3>1. ASSUME NEW v \in User, NEW x \in Nat, Holds(v, x)' PROVE x <= made + 1
      <4>1. Holds(v, x) \/ x = made + 1
        BY <1>6, <3>1
      <4>2. Holds(v, x) => x <= made
        BY DEF Second, Secrets
      <4>3. made <= made + 1 /\ made + 1 <= made + 1 /\ made + 1 \in Nat
        BY <1>1
      <4>4. QED
        BY <1>1, <4>1, <4>2, <4>3, AtMost
    <3>2. QED
        BY <1>1, <3>1
  <2>2. \A v, w \in User, x \in Nat : Holds(v, x)' /\ Holds(w, x)' => v = w
    BY <1>6, <1>7 DEF Second, Secrets
  <2>3. spent'.secrets \subseteq 1 .. made'
    <3>1. spent'.secrets \subseteq 1 .. made
        BY <1>2 DEF Second, Secrets
    <3>2. 1 .. made \subseteq 1 .. made'
        BY <1>1
    <3>3. QED
        BY <3>1, <3>2
  <2>4. QED
    BY <1>2, <1>4, <1>5, <2>1, <2>2, <2>3 DEF Second, Secrets
<1>9. Codes' /\ Salts' /\ CodesMatch' /\ CodesSpendOnce'
    BY <1>2, <1>4, <1>5 DEF Second, Codes, Salts, CodesMatch, CodesSpendOnce
<1>10. QED
    BY <1>1, <1>2, <1>3, <1>8, <1>9 DEF Second, SecondTypes, Rows

LEMMA ReadStep ==
    ASSUME Rows, Requests, Second, NEW c \in Client, Reading(c), Reads(c)
    PROVE  SecondTypes /\ Second'
<1> DEFINE u == req[c].of
<1>1. u \in User
    BY OfUser DEF Reading, MFAOps
<1>2. UNCHANGED <<factor, codes, made, spent>>
    BY DEF Reads, ReadPending, ReadFactor, ReadRecovery, accountVars
<1>3. pending' \in [User -> PendingRow] /\ \A v \in User : pending'[v] \in {pending[v], NoSecret}
  <2>1. pending \in [User -> PendingRow] /\ NoSecret \in PendingRow
    BY DEF Rows, NoSecret, PendingRow, None
  <2>2. CASE pending' = ClearMFAPendingSecret(u)
    BY <2>1, <2>2 DEF ClearMFAPendingSecret
  <2>3. CASE UNCHANGED pending
    BY <2>1, <2>3
  <2>4. QED
    BY <2>2, <2>3 DEF Reads, ReadPending, ReadFactor, ReadRecovery, accountVars
<1>4. /\ \A d \in Client : d # c => req'[d] = req[d]
      /\ req'[c].of = u /\ req'[c].op = req[c].op
      /\ req'[c].step \in {"commit", "recover"}
      /\ req'[c].step = "commit" =>
            \/ req[c].op = "enable" /\ req'[c].key = pending[u].secret
            \/ req[c].op \in {"challenge", "disable factor"} /\ req'[c].key = factor[u].secret
      /\ req'[c].step = "commit" => req'[c].key # None
      /\ req'[c].step = "recover" => req'[c].key \in DOMAIN codes
  <2>1. req \in [Client -> RequestRow] /\ req[c] \in RequestRow
    BY RequestAt DEF Rows
  <2>2. ASSUME req[c].op = "enable", pending[u].secret # None,
               RequestOf(c, [req[c] EXCEPT !.step = "commit", !.key = pending[u].secret])
        PROVE  /\ \A d \in Client : d # c => req'[d] = req[d]
               /\ req'[c].of = u /\ req'[c].op = req[c].op
               /\ req'[c].step = "commit" /\ req'[c].key = pending[u].secret
    BY <2>1, <2>2 DEF RequestOf, RequestRow
  <2>3. ASSUME NEW at \in Int, factor[u].secret # None,
               RequestOf(c, [req[c] EXCEPT !.step = "commit", !.at = at, !.key = factor[u].secret])
        PROVE  /\ \A d \in Client : d # c => req'[d] = req[d]
               /\ req'[c].of = u /\ req'[c].op = req[c].op
               /\ req'[c].step = "commit" /\ req'[c].key = factor[u].secret
    BY <2>1, <2>3 DEF RequestOf, RequestRow
  <2>4. ASSUME NEW i \in DOMAIN codes, RequestOf(c, [req[c] EXCEPT !.step = "recover", !.key = i])
        PROVE  /\ \A d \in Client : d # c => req'[d] = req[d]
               /\ req'[c].of = u /\ req'[c].op = req[c].op
               /\ req'[c].step = "recover" /\ req'[c].key = i
    BY <2>1, <2>4 DEF RequestOf, RequestRow
  <2> HIDE DEF u
  <2>5. \/ req[c].op = "enable" /\ pending[u].secret # None
           /\ RequestOf(c, [req[c] EXCEPT !.step = "commit", !.key = pending[u].secret])
        \/ \E at \in Int :
             /\ req[c].op \in {"challenge", "disable factor"} /\ factor[u].secret # None
             /\ RequestOf(c, [req[c] EXCEPT !.step = "commit", !.at = at, !.key = factor[u].secret])
        \/ \E i \in DOMAIN codes : RequestOf(c, [req[c] EXCEPT !.step = "recover", !.key = i])
    BY DEF Reading, u
  <2>6. QED
    BY <2>2, <2>3, <2>4, <2>5
<1> HIDE DEF u
<1>5. ASSUME NEW v \in User, NEW x \in Nat, Holds(v, x)' PROVE Holds(v, x)
  <2>1. CASE x # None /\ (pending'[v].secret = x \/ factor'[v].secret = x)
    BY <1>2, <1>3, <2>1 DEF Holds, NoSecret
  <2>2. ASSUME NEW d \in Client, x # None, req'[d].step = "commit", req'[d].of = v, req'[d].key = x
        PROVE  Holds(v, x)
    <3>1. CASE d = c
        BY <1>4, <2>2, <3>1 DEF Holds
    <3>2. CASE d # c
        BY <1>4, <2>2, <3>2 DEF Holds
    <3>3. QED
        BY <3>1, <3>2
  <2>3. QED
    BY <1>5, <2>1, <2>2 DEF Holds
<1>6. Secrets'
  <2>1. made \in Nat /\ made' \in Nat /\ made <= made' /\ spent' = spent
    BY <1>2 DEF Rows
  <2>2. \A d \in Client : \/ req'[d] = req[d] \/ req'[d].step # "commit"
                          \/ /\ req'[d].op \in {"enable", "challenge", "disable factor"}
                             /\ req'[d].key # None
                             /\ req'[d].op # "enable" => req'[d].key \in spent'.secrets
    BY <1>1, <1>4, <2>1 DEF Second, Secrets
  <2>3. Secrets
    BY DEF Second
  <2>4. /\ spent'.secrets \subseteq 1 .. made'
        /\ \A v \in User : factor'[v].secret # None => factor'[v].secret \in spent'.secrets
        /\ \A v \in User : factor'[v].secret = None => factor'[v].salt = None
    BY <1>2, <2>1, <2>3 DEF Secrets
  <2>5. QED
    BY <1>5, <2>1, <2>2, <2>3, <2>4, SecretsKept
<1>7. Codes' /\ Salts' /\ CodesMatch' /\ CodesSpendOnce'
    BY <1>2, <1>4 DEF Second, Codes, Salts, CodesMatch, CodesSpendOnce
<1>8. QED
    BY <1>2, <1>3, <1>6, <1>7 DEF Second, SecondTypes, Rows

\* A code that was not accepted before, or is of another enrolment.
LEMMA Accepting ==
    ASSUME Second, NEW x \in Nat, NEW t \in Int, NEW own \in BOOLEAN, Accept(<<x, t>>, own),
           own /\ x \notin spent.again => <<x, t>> \notin spent.once
    PROVE  /\ spent' \in SpentRow /\ spent'.secrets = spent.secrets
           /\ spent'.again = spent.again /\ spent'.twice = {}
           /\ spent'.once = spent.once \cup {<<x, t>>}
<1>1. spent \in SpentRow /\ spent.twice = {} /\ <<x, t>> \in Nat \X Int /\ <<x, t>>[1] = x
    BY DEF Second, Codes, CodesSpendOnce
<1>2. spent' = [spent EXCEPT !.once = @ \cup {<<x, t>>}]
    BY <1>1 DEF Accept
<1>3. QED
    BY <1>1, <1>2 DEF SpentRow

\* The request ends, or goes on with nothing to write any more.
Settled(c) == /\ \A d \in Client : d # c => req'[d] = req[d]
              /\ ~Shown(req'[c])

LEMMA Settles ==
    ASSUME Rows, NEW c \in Client, Answered(c)
    PROVE  Settled(c)
<1>1. req \in [Client -> RequestRow] /\ req[c] \in RequestRow
    BY RequestAt DEF Rows
<1>2. ~Shown(NoRequest) /\ \A st \in {"refused", "verified"} : ~Shown([req[c] EXCEPT !.step = st])
    BY <1>1 DEF Shown, NoRequest, RequestRow
<1>3. ASSUME NEW r, RequestOf(c, r), ~Shown(r) PROVE Settled(c)
    BY <1>1, <1>3 DEF RequestOf, Settled
<1>4. QED
    BY <1>2, <1>3 DEF Answered

LEMMA SettledAside ==
    ASSUME NEW c \in Client, Settled(c)
    PROVE  \A d \in Client : req'[d] = req[d] \/ ~Shown(req'[d])
BY DEF Settled

\* Nothing new is held when requests settle and factors keep their secrets or go.
LEMMA HoldsLess ==
    ASSUME Rows, NEW c \in Client, Settled(c),
           \A u \in User : factor'[u].secret \in {factor[u].secret, None},
           \A u \in User : pending'[u].secret \in {pending[u].secret, None}
    PROVE  \A u \in User, x \in Nat : Holds(u, x)' => Holds(u, x)
<1>1. SUFFICES ASSUME NEW u \in User, NEW x \in Nat, Holds(u, x)' PROVE Holds(u, x)
    OBVIOUS
<1>2. CASE x # None /\ (pending'[u].secret = x \/ factor'[u].secret = x)
    BY <1>2 DEF Holds
<1>3. ASSUME NEW d \in Client, x # None, req'[d].step = "commit", req'[d].of = u, req'[d].key = x
      PROVE  Holds(u, x)
  <2>1. req'[d] = req[d]
    BY <1>3, SettledAside DEF Shown
  <2>2. QED
    BY <1>3, <2>1 DEF Holds
<1>4. QED
    BY <1>1, <1>2, <1>3 DEF Holds

\* The code is of u's secret, which is nobody else's, and past its last step.
LEMMA FreshCode ==
    ASSUME Rows, Requests, Second, NEW c \in Client, req[c].step = "commit",
           req[c].op \in {"challenge", "disable factor"},
           UpdateLastUsedStep(req[c].of, req[c].at),
           Accept(<<req[c].key, req[c].at>>, req[c].key = factor[req[c].of].secret)
    PROVE  LET u == req[c].of  x == req[c].key  t == req[c].at IN
           /\ u \in User /\ x \in Nat /\ t \in Int /\ x # None /\ x \in spent.secrets
           /\ \A v \in User : v # u => factor[v].secret # x
           /\ factor[u].secret # None /\ factor[u].used < t
           /\ spent' \in SpentRow /\ spent'.secrets = spent.secrets
           /\ spent'.again = spent.again /\ spent'.twice = {}
           /\ spent'.once = spent.once \cup {<<x, t>>}
<1> DEFINE u == req[c].of
           x == req[c].key
           t == req[c].at
<1>1. u \in User /\ x \in Nat /\ t \in Int
    BY OfUser, RequestAt DEF MFAOps, RequestRow
<1>2. x # None /\ x \in spent.secrets
    BY DEF Second, Secrets
<1>3. factor[u].secret # None /\ factor[u].used < t
    BY DEF UpdateLastUsedStep
<1>4. Holds(u, x)
    BY <1>2 DEF Holds
<1>5. \A v \in User : v # u => factor[v].secret # x
  <2>1. ASSUME NEW v \in User, factor[v].secret = x PROVE v = u
    <3>1. Holds(v, x)
        BY <1>2, <2>1 DEF Holds
    <3>2. QED
        BY <1>1, <1>4, <3>1 DEF Second, Secrets
  <2>2. QED
    BY <2>1
<1>6. Accept(<<x, t>>, x = factor[u].secret)
    OBVIOUS
<1> HIDE DEF u, x, t
<1>7. x = factor[u].secret /\ x \notin spent.again => <<x, t>> \notin spent.once
  <2>1. ASSUME x = factor[u].secret, x \notin spent.again, <<x, t>> \in spent.once PROVE FALSE
    <3> DEFINE code == <<x, t>>
    <3>1. code[1] = x /\ code[2] = t /\ code \in spent.once
        BY <2>1
    <3> HIDE DEF code
    <3>2. code[2] <= factor[u].used
      <4>1. \A v \in User, k \in spent.once :
               k[1] # None /\ k[1] = factor[v].secret /\ k[1] \notin spent.again => k[2] <= factor[v].used
        BY DEF Second, Codes
      <4>2. code[1] # None /\ code[1] = factor[u].secret /\ code[1] \notin spent.again
        BY <1>2, <2>1, <3>1
      <4>3. u \in User /\ code \in spent.once
        BY <1>1, <3>1
      <4>4. QED
        BY <4>1, <4>2, <4>3
    <3>3. factor[u].used \in Int
        BY <1>1, FactorAt
    <3>4. t <= factor[u].used /\ factor[u].used < t
        BY <1>3, <3>1, <3>2
    <3>5. QED
        BY <1>1, <3>3, <3>4, NotBoth
  <2>2. QED
    BY <2>1
<1>8. (x = factor[u].secret) \in BOOLEAN
    OBVIOUS
<1>9. /\ spent' \in SpentRow /\ spent'.secrets = spent.secrets
      /\ spent'.again = spent.again /\ spent'.twice = {}
      /\ spent'.once = spent.once \cup {<<x, t>>}
    BY <1>1, <1>6, <1>7, <1>8, Accepting
<1>10. QED
    BY <1>1, <1>2, <1>3, <1>5, <1>9 DEF u, x, t

LEMMA Unspent ==
    ASSUME Rows, Second, NEW c \in Client, Answered(c),
           UNCHANGED <<factor, pending, codes, made, spent>>
    PROVE  SecondTypes /\ Second'
<1>1. Aside
    BY Settles, SettledAside DEF Aside
<1>2. QED
    BY <1>1, AsideStep

LEMMA SpendStep ==
    ASSUME Rows, Requests, Second, NEW c \in Client, SpendCode(c)
    PROVE  SecondTypes /\ Second'
<1> DEFINE u == req[c].of
           x == req[c].key
           t == req[c].at
<1>1. Answered(c) /\ UNCHANGED <<pending, codes, made>>
    BY DEF SpendCode, Continue, Answered, RequestOf
<1>2. CASE ~UpdateLastUsedStep(u, t)
    BY <1>1, <1>2, Unspent DEF SpendCode
<1>3. CASE UpdateLastUsedStep(u, t)
  <2>1. /\ req[c].op = "challenge" /\ req[c].step = "commit"
        /\ factor' = [factor EXCEPT ![u].used = t]
        /\ Accept(<<x, t>>, x = factor[u].secret)
    BY <1>3 DEF SpendCode
  <2>2. /\ u \in User /\ x \in Nat /\ t \in Int /\ x # None /\ x \in spent.secrets
        /\ \A v \in User : v # u => factor[v].secret # x
        /\ factor[u].secret # None /\ factor[u].used < t
        /\ spent' \in SpentRow /\ spent'.secrets = spent.secrets
        /\ spent'.again = spent.again /\ spent'.twice = {}
        /\ spent'.once = spent.once \cup {<<x, t>>}
    BY <1>3, <2>1, FreshCode
  <2> HIDE DEF u, x, t
  <2>3. factor' \in [User -> FactorRow]
        /\ \A v \in User : /\ factor'[v].secret = factor[v].secret /\ factor'[v].salt = factor[v].salt
                           /\ factor'[v].used = IF v = u THEN t ELSE factor[v].used
    <3>1. factor \in [User -> FactorRow]
        BY DEF Rows
    <3>2. QED
        BY <2>1, <2>2, <3>1 DEF FactorRow
  <2>4. Settled(c) /\ \A d \in Client : req'[d] = req[d] \/ ~Shown(req'[d])
    BY <1>1, Settles, SettledAside
  <2>5. Secrets'
    <3>1. \A v \in User, y \in Nat : Holds(v, y)' => Holds(v, y)
        BY <1>1, <2>3, <2>4, HoldsLess
    <3>2. made \in Nat /\ made' \in Nat /\ made <= made' /\ Secrets
        BY <1>1 DEF Rows, Second
    <3>3. /\ spent'.secrets \subseteq 1 .. made' /\ spent.secrets \subseteq spent'.secrets
          /\ \A v \in User : factor'[v].secret # None => factor'[v].secret \in spent'.secrets
          /\ \A v \in User : factor'[v].secret = None => factor'[v].salt = None
        BY <1>1, <2>2, <2>3, <3>2 DEF Secrets
    <3>4. \A d \in Client : req'[d] = req[d] \/ req'[d].step # "commit"
        BY <2>4 DEF Shown
    <3>5. QED
        BY <3>1, <3>2, <3>3, <3>4, SecretsKept
  <2>6. Codes'
    <3>1. Codes
        BY DEF Second
    <3>2. ASSUME NEW v \in User, NEW code \in spent'.once, code[1] # None,
                 code[1] = factor'[v].secret, code[1] \notin spent'.again
          PROVE  code[2] <= factor'[v].used
      <4>1. code[1] = factor[v].secret /\ code[1] \notin spent.again
        BY <2>2, <2>3, <3>2
      <4>2. CASE code = <<x, t>>
        <5>1. code[1] = x /\ code[2] = t
            BY <4>2
        <5>2. v = u
            BY <2>2, <4>1, <5>1
        <5>3. QED
            BY <2>2, <2>3, <5>1, <5>2
      <4>3. CASE code \in spent.once
        <5>1. code[2] <= factor[v].used
            BY <3>1, <3>2, <4>1, <4>3 DEF Codes
        <5>2. CASE v # u
            BY <2>3, <5>1, <5>2
        <5>3. CASE v = u
          <6>1. code[2] \in Int /\ factor[u].used \in Int
            <7>1. code \in Nat \X Int
                BY <3>1, <4>3 DEF Codes, SpentRow
            <7>2. QED
                BY <2>2, <7>1, FactorAt
          <6>2. code[2] <= factor[u].used /\ factor[u].used < t
            BY <2>2, <5>1, <5>3
          <6>3. code[2] <= t
            BY <2>2, <6>1, <6>2, Passed
          <6>4. QED
            BY <2>2, <2>3, <5>3, <6>3
        <5>4. QED
            BY <5>2, <5>3
      <4>4. QED
        BY <2>2, <3>2, <4>2, <4>3
    <3>3. \A code \in spent'.once : code[1] # None => code[1] \in spent'.secrets
      <4>1. <<x, t>>[1] = x
        OBVIOUS
      <4>2. QED
        BY <2>2, <3>1, <4>1 DEF Codes
    <3>4. \A code \in spent'.once : code[1] = None => code[2] \in DOMAIN codes' /\ codes'[code[2]].used
      <4>1. <<x, t>>[1] = x
        OBVIOUS
      <4>2. QED
        BY <1>1, <2>2, <3>1, <4>1 DEF Codes
    <3>5. \A d \in Client : req'[d].step = "recover" => req'[d].key \in DOMAIN codes'
        BY <1>1, <2>4, <3>1 DEF Codes, Shown
    <3>6. QED
        BY <2>2, <3>1, <3>2, <3>3, <3>4, <3>5 DEF Codes
  <2>7. Salts' /\ CodesMatch' /\ CodesSpendOnce'
    <3>1. \A i \in DOMAIN codes : codes[i].user # None => codes[i].user \in User
        BY CodeRowAt DEF CodeRow
    <3>2. CodesMatch'
        BY <1>1, <2>3, <3>1 DEF Second, CodesMatch
    <3>3. Salts' /\ CodesSpendOnce'
        BY <1>1, <2>2 DEF Second, Salts, CodesSpendOnce
    <3>4. QED
        BY <3>2, <3>3
  <2>8. QED
    BY <1>1, <2>3, <2>5, <2>6, <2>7 DEF Second, SecondTypes, Rows
<1>4. QED
    BY <1>2, <1>3

LEMMA RecoverStep ==
    ASSUME Rows, Requests, Second, NEW c \in Client, SpendRecovery(c)
    PROVE  SecondTypes /\ Second'
<1> DEFINE i == req[c].key
<1>1. Answered(c) /\ UNCHANGED <<factor, pending, made>>
    BY DEF SpendRecovery, Continue, Answered, RequestOf
<1>2. CASE ~MarkRecoveryCodeUsed(i)
    BY <1>1, <1>2, Unspent DEF SpendRecovery
<1>3. CASE MarkRecoveryCodeUsed(i)
  <2>1. /\ codes' = [codes EXCEPT ![i].used = TRUE]
        /\ Accept(<<None, i>>, TRUE) /\ req[c].step = "recover"
    BY <1>3 DEF SpendRecovery
  <2>2. i \in DOMAIN codes /\ i \in Nat /\ i \in Int /\ None \in Nat /\ ~codes[i].used
    BY <1>3, <2>1, RequestAt DEF Second, Codes, RequestRow, None, MarkRecoveryCodeUsed
  <2> HIDE DEF i
  <2>3. <<None, i>> \notin spent.once /\ None \notin spent.again
    <3> DEFINE code == <<None, i>>
    <3>1. code[1] = None /\ code[2] = i
        OBVIOUS
    <3> HIDE DEF code
    <3>2. code \notin spent.once
        BY <2>2, <3>1 DEF Second, Codes
    <3>3. QED
        BY <3>2 DEF code, Second, Codes
  <2>4. /\ spent' \in SpentRow /\ spent'.secrets = spent.secrets
        /\ spent'.again = spent.again /\ spent'.twice = {}
        /\ spent'.once = spent.once \cup {<<None, i>>}
    BY <2>1, <2>2, <2>3, Accepting
  <2>5. /\ codes' \in Seq(CodeRow) /\ DOMAIN codes' = DOMAIN codes
        /\ \A j \in DOMAIN codes : /\ codes'[j].user = codes[j].user /\ codes'[j].salt = codes[j].salt
                                   /\ codes'[j].stray = codes[j].stray
                                   /\ codes[j].used => codes'[j].used
        /\ codes'[i].used
    <3>1. codes \in Seq(CodeRow) /\ \A j \in DOMAIN codes : codes[j] \in CodeRow
        BY CodeRowAt DEF Rows
    <3>2. codes \in [DOMAIN codes -> CodeRow]
        BY <3>1, LenProperties
    <3>3. codes' \in [DOMAIN codes -> CodeRow]
        BY <2>1, <3>2 DEF CodeRow
    <3>4. codes' \in Seq(CodeRow) /\ DOMAIN codes' = DOMAIN codes
        BY <3>1, <3>3, Replaced
    <3>5. \A j \in DOMAIN codes : /\ codes'[j].user = codes[j].user /\ codes'[j].salt = codes[j].salt
                                  /\ codes'[j].stray = codes[j].stray
                                  /\ codes[j].used => codes'[j].used
        BY <2>1, <2>2, <3>1, <3>2 DEF CodeRow
    <3>6. codes'[i].used
        BY <2>1, <2>2, <3>1, <3>2 DEF CodeRow
    <3>7. QED
        BY <3>4, <3>5, <3>6
  <2>6. Settled(c) /\ \A d \in Client : req'[d] = req[d] \/ ~Shown(req'[d])
    BY <1>1, Settles, SettledAside
  <2>7. Secrets'
    <3>1. \A v \in User, y \in Nat : Holds(v, y)' => Holds(v, y)
        BY <1>1, <2>6, HoldsLess
    <3>2. made \in Nat /\ made' \in Nat /\ made <= made' /\ Secrets
        BY <1>1 DEF Rows, Second
    <3>3. /\ spent'.secrets \subseteq 1 .. made' /\ spent.secrets \subseteq spent'.secrets
          /\ \A v \in User : factor'[v].secret # None => factor'[v].secret \in spent'.secrets
          /\ \A v \in User : factor'[v].secret = None => factor'[v].salt = None
        BY <1>1, <2>4, <3>2 DEF Secrets
    <3>4. \A d \in Client : req'[d] = req[d] \/ req'[d].step # "commit"
        BY <2>6 DEF Shown
    <3>5. QED
        BY <3>1, <3>2, <3>3, <3>4, SecretsKept
  <2>8. Codes'
    <3>1. Codes
        BY DEF Second
    <3>2. <<None, i>>[1] = None /\ <<None, i>>[2] = i
        OBVIOUS
    <3>3. \A v \in User, code \in spent'.once :
             code[1] # None /\ code[1] = factor'[v].secret /\ code[1] \notin spent'.again
               => code[2] <= factor'[v].used
        BY <1>1, <2>4, <3>1, <3>2 DEF Codes
    <3>4. \A code \in spent'.once : code[1] # None => code[1] \in spent'.secrets
        BY <2>4, <3>1, <3>2 DEF Codes
    <3>5. \A code \in spent'.once : code[1] = None => code[2] \in DOMAIN codes' /\ codes'[code[2]].used
      <4>1. ASSUME NEW code \in spent'.once, code[1] = None
            PROVE  code[2] \in DOMAIN codes' /\ codes'[code[2]].used
        <5>1. CASE code = <<None, i>>
            BY <2>2, <2>5, <3>2, <5>1
        <5>2. CASE code \in spent.once
          <6>1. code[2] \in DOMAIN codes /\ codes[code[2]].used
            BY <3>1, <4>1, <5>2 DEF Codes
          <6>2. QED
            BY <2>5, <6>1
        <5>3. QED
            BY <2>4, <4>1, <5>1, <5>2
      <4>2. QED
        BY <4>1
    <3>6. \A d \in Client : req'[d].step = "recover" => req'[d].key \in DOMAIN codes'
        BY <2>5, <2>6, <3>1 DEF Codes, Shown
    <3>7. QED
        BY <2>4, <3>1, <3>3, <3>4, <3>5, <3>6 DEF Codes
  <2>9. Salts' /\ CodesMatch' /\ CodesSpendOnce'
    <3>1. ASSUME NEW j \in DOMAIN codes'
          PROVE  /\ codes'[j].user # None => codes'[j].salt # None
                 /\ codes'[j].user # None /\ ~codes'[j].stray
                      => codes'[j].salt = factor'[codes'[j].user].salt
      <4>1. /\ j \in DOMAIN codes /\ codes'[j].user = codes[j].user
            /\ codes'[j].salt = codes[j].salt /\ codes'[j].stray = codes[j].stray
        BY <2>5, <3>1
      <4>2. /\ codes[j].user # None => codes[j].salt # None
            /\ codes[j].user # None /\ ~codes[j].stray => codes[j].salt = factor[codes[j].user].salt
        BY <4>1 DEF Second, Salts, CodesMatch
      <4>3. QED
        BY <1>1, <4>1, <4>2
    <3>2. Salts' /\ CodesMatch' /\ CodesSpendOnce'
        BY <2>4, <3>1 DEF Salts, CodesMatch, CodesSpendOnce
    <3>3. QED
        BY <3>2
  <2>10. QED
    BY <1>1, <2>5, <2>7, <2>8, <2>9 DEF Second, SecondTypes, Rows
<1>4. QED
    BY <1>2, <1>3

LEMMA DisableStep ==
    ASSUME Rows, Requests, Second, NEW c \in Client, DisableFactor(c)
    PROVE  SecondTypes /\ Second'
<1> DEFINE u == req[c].of
           x == req[c].key
           t == req[c].at
<1>1. Answered(c) /\ UNCHANGED <<pending, made>>
    BY DEF DisableFactor, Finish, Continue, Answered, RequestOf
<1>2. CASE ~UpdateLastUsedStep(u, t)
    BY <1>1, <1>2, Unspent DEF DisableFactor
<1>3. CASE UpdateLastUsedStep(u, t)
  <2>1. /\ req[c].op = "disable factor" /\ req[c].step = "commit"
        /\ Removed(u) /\ Accept(<<x, t>>, x = factor[u].secret)
    BY <1>3 DEF DisableFactor, Removed
  <2>2. /\ u \in User /\ x \in Nat /\ t \in Int /\ x # None /\ x \in spent.secrets
        /\ \A v \in User : v # u => factor[v].secret # x
        /\ spent' \in SpentRow /\ spent'.secrets = spent.secrets
        /\ spent'.again = spent.again /\ spent'.twice = {}
        /\ spent'.once = spent.once \cup {<<x, t>>}
    BY <1>3, <2>1, FreshCode
  <2> HIDE DEF u, x, t
  <2>3. /\ factor' \in [User -> FactorRow] /\ codes' \in Seq(CodeRow)
        /\ \A v \in User : factor'[v] = factor[v] \/ factor'[v] = NoFactor
        /\ DOMAIN codes' = DOMAIN codes
        /\ \A i \in DOMAIN codes : codes[i].used => codes'[i].used
        /\ CodesMatch' /\ Salts'
    BY <2>1, RemovedFactor
  <2>4. factor'[u] = NoFactor /\ NoFactor.secret = None /\ NoFactor.salt = None
    BY <2>1, <2>2 DEF Removed, DeleteMFACredentials, Rows, NoFactor
  <2>5. Settled(c) /\ \A d \in Client : req'[d] = req[d] \/ ~Shown(req'[d])
    BY <1>1, Settles, SettledAside
  <2>6. Secrets'
    <3>1. \A v \in User, y \in Nat : Holds(v, y)' => Holds(v, y)
      <4>1. \A v \in User : factor'[v].secret \in {factor[v].secret, None}
        BY <2>3, <2>4
      <4>2. QED
        BY <1>1, <2>5, <4>1, HoldsLess
    <3>2. made \in Nat /\ made' \in Nat /\ made <= made' /\ Secrets
        BY <1>1 DEF Rows, Second
    <3>3. /\ spent'.secrets \subseteq 1 .. made' /\ spent.secrets \subseteq spent'.secrets
          /\ \A v \in User : factor'[v].secret # None => factor'[v].secret \in spent'.secrets
          /\ \A v \in User : factor'[v].secret = None => factor'[v].salt = None
        BY <1>1, <2>2, <2>3, <2>4, <3>2 DEF Secrets
    <3>4. \A d \in Client : req'[d] = req[d] \/ req'[d].step # "commit"
        BY <2>5 DEF Shown
    <3>5. QED
        BY <3>1, <3>2, <3>3, <3>4, SecretsKept
  <2>7. Codes'
    <3>1. Codes
        BY DEF Second
    <3>2. <<x, t>>[1] = x
        OBVIOUS
    <3>3. ASSUME NEW v \in User, NEW code \in spent'.once, code[1] # None,
                 code[1] = factor'[v].secret, code[1] \notin spent'.again
          PROVE  code[2] <= factor'[v].used
      <4>1. factor'[v] = factor[v] /\ v # u
        BY <2>3, <2>4, <3>3
      <4>2. code \in spent.once
        BY <2>2, <3>2, <3>3, <4>1
      <4>3. QED
        BY <2>2, <3>1, <3>3, <4>1, <4>2 DEF Codes
    <3>4. \A code \in spent'.once : code[1] # None => code[1] \in spent'.secrets
        BY <2>2, <3>1, <3>2 DEF Codes
    <3>5. \A code \in spent'.once : code[1] = None => code[2] \in DOMAIN codes' /\ codes'[code[2]].used
        BY <2>2, <2>3, <3>1, <3>2 DEF Codes
    <3>6. \A d \in Client : req'[d].step = "recover" => req'[d].key \in DOMAIN codes'
        BY <2>3, <2>5, <3>1 DEF Codes, Shown
    <3>7. QED
        BY <2>2, <3>1, <3>3, <3>4, <3>5, <3>6 DEF Codes
  <2>8. CodesSpendOnce'
    BY <2>2 DEF CodesSpendOnce
  <2>9. QED
    BY <1>1, <2>3, <2>6, <2>7, <2>8 DEF Second, SecondTypes, Rows
<1>4. QED
    BY <1>2, <1>3

LEMMA EnableStep ==
    ASSUME Rows, Requests, Second, NEW c \in Client, EnableFactor(c)
    PROVE  SecondTypes /\ Second'
<1> DEFINE u == req[c].of
           x == req[c].key
           kept == [i \in DOMAIN codes |->
                      IF codes[i].user = u THEN [codes[i] EXCEPT !.stray = TRUE] ELSE codes[i]]
           old == IF factor[u].secret = None THEN codes ELSE kept
           new == NewCode(u, made + 1)
<1>1. /\ u \in User /\ x \in Nat /\ made \in Nat /\ made' = made + 1
      /\ factor' = [factor EXCEPT ![u] = [secret |-> x, used |-> 0, salt |-> made + 1]]
      /\ pending' = [pending EXCEPT ![u] = NoSecret]
      /\ codes' = Append(old, new)
      /\ spent' = IF x \in spent.secrets THEN [spent EXCEPT !.again = @ \cup {x}]
                  ELSE [spent EXCEPT !.secrets = @ \cup {x}]
      /\ Answered(c)
  <2>1. u \in User
    BY OfUser DEF EnableFactor, MFAOps
  <2>2. x \in Nat /\ made \in Nat
    BY RequestAt DEF Rows, RequestRow
  <2>3. made' = made + 1
    BY DEF EnableFactor
  <2>4. QED
    BY <2>1, <2>2, <2>3 DEF EnableFactor, UpsertMFACredentials, ClearMFAPendingSecret, Continue,
                            Answered, RequestOf
<1>2. x # None /\ Holds(u, x) /\ x <= made
  <2>1. x # None
    BY DEF EnableFactor, Second, Secrets
  <2>2. Holds(u, x)
    BY <2>1 DEF EnableFactor, Holds
  <2>3. QED
    BY <1>1, <2>1, <2>2 DEF Second, Secrets
<1>3. Settled(c) /\ \A d \in Client : req'[d] = req[d] \/ ~Shown(req'[d])
    BY <1>1, Settles, SettledAside
<1>4. /\ old \in Seq(CodeRow) /\ DOMAIN old = DOMAIN codes
      /\ \A i \in DOMAIN codes : /\ old[i].user = codes[i].user /\ old[i].salt = codes[i].salt
                                 /\ old[i].used = codes[i].used
                                 /\ old[i].user # u => old[i].stray = codes[i].stray
                                 /\ old[i].user = u => old[i].stray
  <2>1. codes \in Seq(CodeRow) /\ \A i \in DOMAIN codes : codes[i] \in CodeRow
    BY CodeRowAt DEF Rows
  <2>2. CASE factor[u].secret = None
    <3>1. factor[u].salt = None
        BY <1>1, <2>2 DEF Second, Secrets
    <3>2. \A i \in DOMAIN codes : codes[i].user = u => codes[i].stray
      <4>1. u # None
        BY <1>1, Numbers DEF None
      <4>2. ASSUME NEW i \in DOMAIN codes, codes[i].user = u, ~codes[i].stray PROVE FALSE
        <5>1. codes[i].salt # None
            BY <4>1, <4>2 DEF Second, Salts
        <5>2. codes[i].salt = factor[u].salt
            BY <4>1, <4>2 DEF Second, CodesMatch
        <5>3. QED
            BY <3>1, <5>1, <5>2
      <4>3. QED
        BY <4>2
    <3>3. old = codes
        BY <2>2
    <3>4. QED
        BY <2>1, <3>2, <3>3
  <2>3. CASE factor[u].secret # None
    <3>1. \A i \in DOMAIN codes : [codes[i] EXCEPT !.stray = TRUE] \in CodeRow
        BY <2>1 DEF CodeRow
    <3>2. kept \in [DOMAIN codes -> CodeRow]
        BY <2>1, <3>1
    <3> HIDE DEF kept
    <3>3. kept \in Seq(CodeRow) /\ DOMAIN kept = DOMAIN codes
        BY <2>1, <3>2, Replaced
    <3>4. \A i \in DOMAIN codes : /\ kept[i].user = codes[i].user /\ kept[i].salt = codes[i].salt
                                  /\ kept[i].used = codes[i].used
                                  /\ kept[i].user # u => kept[i].stray = codes[i].stray
                                  /\ kept[i].user = u => kept[i].stray
        BY <2>1 DEF kept, CodeRow
    <3>5. old = kept
        BY <2>3
    <3>6. QED
        BY <3>3, <3>4, <3>5
  <2>4. QED
    BY <2>2, <2>3
<1>5. new \in CodeRow /\ new.user = u /\ new.salt = made + 1
  <2>1. made + 1 \in Nat
    BY <1>1
  <2>2. QED
    BY <1>1, <2>1 DEF NewCode, CodeRow
<1> HIDE DEF u, x, kept, old, new
<1>6. /\ codes' \in Seq(CodeRow) /\ Len(old) \in Nat /\ DOMAIN codes = 1 .. Len(old)
      /\ DOMAIN codes' = DOMAIN codes \cup {Len(old) + 1}
      /\ \A i \in DOMAIN codes : codes'[i] = old[i]
      /\ codes'[Len(old) + 1] = new
  <2>1. /\ Append(old, new) \in Seq(CodeRow) /\ Len(old) \in Nat /\ DOMAIN old = 1 .. Len(old)
        /\ DOMAIN Append(old, new) = 1 .. Len(old) + 1
        /\ \A i \in DOMAIN old : Append(old, new)[i] = old[i]
        /\ Append(old, new)[Len(old) + 1] = new
    BY <1>4, <1>5, Appended
  <2>2. 1 .. Len(old) + 1 = 1 .. Len(old) \cup {Len(old) + 1}
    BY <2>1
  <2>3. QED
    BY <1>1, <1>4, <2>1, <2>2
<1>7. /\ factor' \in [User -> FactorRow] /\ pending' \in [User -> PendingRow]
      /\ factor'[u].secret = x /\ factor'[u].used = 0 /\ factor'[u].salt = made + 1
      /\ pending'[u].secret = None
      /\ \A v \in User : v # u => factor'[v] = factor[v] /\ pending'[v] = pending[v]
  <2>1. [secret |-> x, used |-> 0, salt |-> made + 1] \in FactorRow /\ NoSecret \in PendingRow
    BY <1>1 DEF FactorRow, PendingRow, NoSecret, None
  <2>2. factor \in [User -> FactorRow] /\ pending \in [User -> PendingRow]
    BY DEF Rows
  <2>3. NoSecret.secret = None
    BY DEF NoSecret
  <2>4. QED
    BY <1>1, <2>1, <2>2, <2>3
<1>8. /\ spent' \in SpentRow /\ spent'.once = spent.once /\ spent'.twice = {}
      /\ spent.secrets \subseteq spent'.secrets /\ spent'.secrets \subseteq spent.secrets \cup {x}
      /\ x \in spent'.secrets
      /\ spent.again \subseteq spent'.again /\ spent'.again \subseteq spent.again \cup {x}
      /\ x \in spent.secrets => x \in spent'.again
  <2>1. spent \in SpentRow /\ spent.twice = {}
    BY DEF Second, Codes, CodesSpendOnce
  <2>2. CASE x \in spent.secrets
    <3>1. spent' = [spent EXCEPT !.again = @ \cup {x}]
        BY <1>1, <2>2
    <3>2. QED
        BY <1>1, <2>1, <2>2, <3>1 DEF SpentRow
  <2>3. CASE x \notin spent.secrets
    <3>1. spent' = [spent EXCEPT !.secrets = @ \cup {x}]
        BY <1>1, <2>3
    <3>2. QED
        BY <1>1, <2>1, <2>3, <3>1 DEF SpentRow
  <2>4. QED
    BY <2>2, <2>3
<1>9. \A v \in User, y \in Nat : Holds(v, y)' => Holds(v, y)
  <2>1. SUFFICES ASSUME NEW v \in User, NEW y \in Nat, Holds(v, y)' PROVE Holds(v, y)
    OBVIOUS
  <2>2. CASE y # None /\ (pending'[v].secret = y \/ factor'[v].secret = y)
    <3>1. CASE v = u
      <4>1. y = x
        BY <1>7, <2>2, <3>1
      <4>2. QED
        BY <1>2, <3>1, <4>1
    <3>2. CASE v # u
        BY <1>7, <2>2, <3>2 DEF Holds
    <3>3. QED
        BY <3>1, <3>2
  <2>3. ASSUME NEW d \in Client, y # None, req'[d].step = "commit", req'[d].of = v, req'[d].key = y
        PROVE  Holds(v, y)
    <3>1. req'[d] = req[d]
        BY <1>3, <2>3 DEF Shown
    <3>2. QED
        BY <2>3, <3>1 DEF Holds
  <2>4. QED
    BY <2>1, <2>2, <2>3 DEF Holds
<1>10. Secrets'
  <2>1. made' \in Nat /\ made <= made' /\ Secrets
    BY <1>1 DEF Second
  <2>2. spent'.secrets \subseteq 1 .. made'
    <3>1. x \in 1 .. made' /\ 1 .. made \subseteq 1 .. made'
        BY <1>1, <1>2 DEF None
    <3>2. QED
        BY <1>8, <2>1, <3>1 DEF Secrets
  <2>3. \A v \in User : factor'[v].secret # None => factor'[v].secret \in spent'.secrets
    BY <1>7, <1>8, <2>1 DEF Secrets
  <2>4. \A v \in User : factor'[v].secret = None => factor'[v].salt = None
    BY <1>2, <1>7, <2>1 DEF Secrets
  <2>5. \A d \in Client : req'[d] = req[d] \/ req'[d].step # "commit"
    BY <1>3 DEF Shown
  <2>6. QED
    BY <1>8, <1>9, <2>1, <2>2, <2>3, <2>4, <2>5, SecretsKept
<1>11. Codes'
  <2>1. Codes
    BY DEF Second
  <2>2. ASSUME NEW v \in User, NEW code \in spent'.once, code[1] # None,
               code[1] = factor'[v].secret, code[1] \notin spent'.again
        PROVE  code[2] <= factor'[v].used
    <3>1. code \in spent.once /\ code[1] \in spent.secrets
        BY <1>8, <2>1, <2>2 DEF Codes
    <3>2. v # u
        BY <1>7, <1>8, <2>2, <3>1
    <3>3. factor'[v] = factor[v] /\ code[1] \notin spent.again
        BY <1>7, <1>8, <2>2, <3>2
    <3>4. QED
        BY <2>1, <2>2, <3>1, <3>3 DEF Codes
  <2>3. \A code \in spent'.once : code[1] # None => code[1] \in spent'.secrets
    BY <1>8, <2>1 DEF Codes
  <2>4. ASSUME NEW code \in spent'.once, code[1] = None
        PROVE  code[2] \in DOMAIN codes' /\ codes'[code[2]].used
    <3>1. code[2] \in DOMAIN codes /\ codes[code[2]].used
        BY <1>8, <2>1, <2>4 DEF Codes
    <3>2. QED
        BY <1>4, <1>6, <3>1
  <2>5. None \notin spent'.again
    BY <1>2, <1>8, <2>1 DEF Codes
  <2>6. \A d \in Client : req'[d].step = "recover" => req'[d].key \in DOMAIN codes'
    BY <1>3, <1>6, <2>1 DEF Codes, Shown
  <2>7. QED
    BY <1>8, <2>2, <2>3, <2>4, <2>5, <2>6 DEF Codes
<1>12. Salts' /\ CodesMatch' /\ CodesSpendOnce'
  <2>1. ASSUME NEW i \in DOMAIN codes'
        PROVE  /\ codes'[i].user # None => codes'[i].salt # None
               /\ codes'[i].user # None /\ ~codes'[i].stray
                    => codes'[i].salt = factor'[codes'[i].user].salt
    <3>1. CASE i \in DOMAIN codes
      <4>1. /\ codes'[i].user = codes[i].user /\ codes'[i].salt = codes[i].salt
            /\ codes'[i].user # u => codes'[i].stray = codes[i].stray
            /\ codes'[i].user = u => codes'[i].stray
        BY <1>4, <1>6, <3>1
      <4>2. /\ codes[i].user # None => codes[i].salt # None /\ codes[i].user \in User
            /\ codes[i].user # None /\ ~codes[i].stray => codes[i].salt = factor[codes[i].user].salt
        BY <3>1, CodeRowAt DEF Second, Salts, CodesMatch, CodeRow
      <4>3. QED
        BY <1>7, <4>1, <4>2
    <3>2. CASE i = Len(old) + 1
      <4>1. codes'[i].user = u /\ codes'[i].salt = made + 1
        BY <1>5, <1>6, <3>2
      <4>2. made + 1 # None
        BY <1>1 DEF None
      <4>3. QED
        BY <1>7, <4>1, <4>2
    <3>3. QED
        BY <1>6, <2>1, <3>1, <3>2
  <2>2. QED
    BY <1>8, <2>1 DEF Salts, CodesMatch, CodesSpendOnce
<1>13. made' \in Nat
    BY <1>1
<1>14. QED
    BY <1>6, <1>7, <1>10, <1>11, <1>12, <1>13 DEF Second, SecondTypes

LEMMA ReadRefused ==
    ASSUME Rows, Requests, Second, NEW c \in Client, Reads(c), Answered(c)
    PROVE  SecondTypes /\ Second'
<1>1. UNCHANGED <<factor, codes, made, spent>>
    BY DEF Reads, ReadPending, ReadFactor, ReadRecovery, accountVars
<1>2. CASE UNCHANGED pending
    BY <1>1, <1>2, Unspent
<1>3. CASE pending' = ClearMFAPendingSecret(req[c].of)
  <2>1. pending \in [User -> PendingRow] /\ NoSecret \in PendingRow /\ NoSecret.secret = None
    BY DEF Rows, NoSecret, PendingRow, None
  <2>2. pending' \in [User -> PendingRow] /\ \A v \in User : pending'[v] \in {pending[v], NoSecret}
    BY <1>3, <2>1 DEF ClearMFAPendingSecret
  <2>3. Settled(c) /\ \A d \in Client : req'[d] = req[d] \/ ~Shown(req'[d])
    BY Settles, SettledAside
  <2>4. \A v \in User, y \in Nat : Holds(v, y)' => Holds(v, y)
    <3>1. \A v \in User : pending'[v].secret \in {pending[v].secret, None}
        BY <2>1, <2>2
    <3>2. QED
        BY <1>1, <2>3, <3>1, HoldsLess
  <2>5. Secrets'
    <3>1. made \in Nat /\ made' \in Nat /\ made <= made' /\ spent' = spent /\ Secrets
        BY <1>1 DEF Rows, Second
    <3>2. /\ spent'.secrets \subseteq 1 .. made'
          /\ \A v \in User : factor'[v].secret # None => factor'[v].secret \in spent'.secrets
          /\ \A v \in User : factor'[v].secret = None => factor'[v].salt = None
        BY <1>1, <3>1 DEF Secrets
    <3>3. \A d \in Client : req'[d] = req[d] \/ req'[d].step # "commit"
        BY <2>3 DEF Shown
    <3>4. QED
        BY <2>4, <3>1, <3>2, <3>3, SecretsKept
  <2>6. Codes' /\ Salts' /\ CodesMatch' /\ CodesSpendOnce'
    BY <1>1, <2>3 DEF Second, Codes, Salts, CodesMatch, CodesSpendOnce, Shown
  <2>7. QED
    BY <1>1, <2>2, <2>5, <2>6 DEF Second, SecondTypes, Rows
<1>4. QED
    BY <1>2, <1>3 DEF Reads, ReadPending, ReadFactor, ReadRecovery, accountVars

LEMMA SecondSteps ==
    ASSUME Rows, Requests, Second, [TokensNext]_allVars
    PROVE  SecondTypes /\ Second'
<1>1. ASSUME NEW c \in Client, Reads(c) PROVE SecondTypes /\ Second'
    BY <1>1, ReadsMove, ReadStep, ReadRefused
<1>2. QED
    BY <1>1, SecondMoves, AsideStep, SetupStep, EnableStep, SpendStep, RecoverStep, DisableStep
       DEF FactorChange

----------------------------------------------------------------------------
\* The limiters: attempts under way are failures to come.

FailureRow == [at : Int, no : Int]

LimiterRow == [inflight : Nat, failures : SUBSET FailureRow, coolOffUntil : Int]

Bounded(l, now) ==
    /\ l \in LimiterRow /\ IsFiniteSet(l.failures)
    /\ countWithin(l.failures, now, FastWindow) + l.inflight <= MaxFast
    /\ Cardinality(l.failures) + l.inflight <= MaxSlow

\* Only a challenge is answered with a recovery code, and a disabling ends
\* with its transaction.
Staged(r) ==
    /\ r.op = "login" => r.step \in {"open", "slot", "refused"}
    /\ r.step = "recover" => r.op = "challenge"
    /\ r.step = "verified" => r.op \in {"enable", "challenge"}

Holders(k) == {c \in Client : SlotOf(req[c]) = k}

Slots ==
    /\ DOMAIN limiter = Kinds
    /\ \A c \in Client : Staged(req[c])
    /\ \A k \in Kinds : /\ Bounded(limiter[k], clock)
                        /\ limiter[k].inflight = Cardinality(Holders(k))

LEMMA LimitNumbers ==
    /\ MaxFast \in Nat /\ MaxSlow \in Nat /\ FastWindow \in Nat /\ SlowWindow \in Nat
    /\ CoolOffFast \in Nat /\ CoolOffSlow \in Nat /\ FastWindow <= SlowWindow
    /\ 0 < MaxFast /\ 0 < MaxSlow
BY LimiterAssumption

LEMMA Evicted ==
    ASSUME NEW F \in SUBSET FailureRow, IsFiniteSet(F), NEW now \in Int, NEW w \in Int
    PROVE  /\ evictOlderThan(F, now, w) \subseteq F
           /\ evictOlderThan(F, now, w) \in SUBSET FailureRow
           /\ IsFiniteSet(evictOlderThan(F, now, w))
           /\ countWithin(F, now, w) \in Nat /\ Cardinality(F) \in Nat
           /\ countWithin(F, now, w) <= Cardinality(F)
<1>1. evictOlderThan(F, now, w) \subseteq F
    BY DEF evictOlderThan
<1>2. IsFiniteSet(evictOlderThan(F, now, w)) /\ countWithin(F, now, w) <= Cardinality(F)
    BY <1>1, FS_Subset DEF countWithin
<1>3. QED
    BY <1>1, <1>2, FS_CardinalityType DEF countWithin

\* What has left the slow window has left the fast one.
LEMMA EvictedTwice ==
    ASSUME NEW F \in SUBSET FailureRow, NEW now \in Int
    PROVE  evictOlderThan(evictOlderThan(F, now, SlowWindow), now, FastWindow)
             = evictOlderThan(F, now, FastWindow)
<1>1. \A f \in F : f.at \in Int
    BY DEF FailureRow
<1>2. QED
    BY <1>1, LimitNumbers DEF evictOlderThan

\* Time only takes failures out of a window.
LEMMA WindowMoves ==
    ASSUME NEW F \in SUBSET FailureRow, IsFiniteSet(F), NEW now \in Int
    PROVE  countWithin(F, now + 1, FastWindow) <= countWithin(F, now, FastWindow)
<1>1. \A f \in F : f.at \in Int
    BY DEF FailureRow
<1>2. evictOlderThan(F, now + 1, FastWindow) \subseteq evictOlderThan(F, now, FastWindow)
    BY <1>1, LimitNumbers DEF evictOlderThan
<1>3. QED
    BY <1>2, Evicted, FS_Subset, LimitNumbers DEF countWithin

\* There is always a number left to tell a failure from the others.
LEMMA FailureFresh ==
    ASSUME NEW F \in SUBSET FailureRow, IsFiniteSet(F), NEW now \in Int
    PROVE  Failure(F, now) \in FailureRow \ F /\ Failure(F, now).at = now
<1> DEFINE n == Cardinality(F)
           f == [i \in 0 .. n |-> [at |-> now, no |-> i]]
<1>1. n \in Nat
    BY FS_CardinalityType
<1>2. \E i \in 0 .. n : f[i] \notin F
  <2>1. SUFFICES ASSUME \A i \in 0 .. n : f[i] \in F PROVE FALSE
    OBVIOUS
  <2>2. f \in [0 .. n -> F]
    BY <2>1
  <2>3. IsFiniteSet(0 .. n) /\ Cardinality(0 .. n) = n + 1
    BY <1>1, FS_Interval
  <2>4. n < Cardinality(0 .. n)
    BY <1>1, <2>3
  <2> HIDE DEF f, n
  <2>5. \E x, y \in 0 .. n : x # y /\ f[x] = f[y]
    BY <2>2, <2>3, <2>4, FS_PigeonHole DEF n
  <2>6. \A x, y \in 0 .. n : f[x] = f[y] => x = y
    BY DEF f
  <2>7. QED
    BY <2>5, <2>6
<1>3. PICK i \in 0 .. n : Failure(F, now) = [at |-> now, no |-> i] /\ [at |-> now, no |-> i] \notin F
  <2>1. \E i \in 0 .. n : [at |-> now, no |-> i] \notin F
    BY <1>2
  <2>2. QED
    BY <2>1 DEF Failure
<1>4. QED
    BY <1>1, <1>3 DEF FailureRow

LEMMA Swept ==
    ASSUME NEW l \in LimiterRow, IsFiniteSet(l.failures), NEW now \in Int
    PROVE  LET s == maybeSweep(l, now)
           IN  /\ s \in LimiterRow /\ IsFiniteSet(s.failures)
               /\ s.inflight = l.inflight /\ s.coolOffUntil = l.coolOffUntil
               /\ s.failures \subseteq l.failures
               /\ evictOlderThan(s.failures, now, FastWindow)
                    = evictOlderThan(l.failures, now, FastWindow)
<1> DEFINE e == evictOlderThan(l.failures, now, SlowWindow)
<1>1. l.failures \in SUBSET FailureRow
    BY DEF LimiterRow
<1>2. e \in SUBSET FailureRow /\ IsFiniteSet(e) /\ e \subseteq l.failures
    BY <1>1, Evicted, LimitNumbers
<1>3. evictOlderThan(e, now, FastWindow) = evictOlderThan(l.failures, now, FastWindow)
    BY <1>1, EvictedTwice
<1>4. maybeSweep(l, now) \in {l, [l EXCEPT !.failures = e]}
    BY DEF maybeSweep
<1> HIDE DEF e
<1>5. QED
    BY <1>2, <1>3, <1>4 DEF LimiterRow

\* Begin leaves room for the attempt it lets in to fail.
LEMMA BegunBounded ==
    ASSUME NEW l \in LimiterRow, IsFiniteSet(l.failures), NEW now \in Int, Allowed(l, now)
    PROVE  Bounded(Begun(l, now), now) /\ Begun(l, now).inflight = l.inflight + 1
<1> DEFINE s == maybeSweep(l, now)
<1>1. s \in LimiterRow /\ IsFiniteSet(s.failures) /\ s.inflight = l.inflight
    BY Swept
<1>2. /\ countWithin(s.failures, now, FastWindow) + s.inflight < MaxFast
      /\ Cardinality(s.failures) + s.inflight < MaxSlow
    BY DEF Allowed
<1>3. Begun(l, now) = [s EXCEPT !.inflight = @ + 1]
    BY DEF Begun
<1> HIDE DEF s
<1>4. s.inflight \in Nat /\ s.failures \in SUBSET FailureRow
    BY <1>1 DEF LimiterRow
<1>5. countWithin(s.failures, now, FastWindow) \in Nat /\ Cardinality(s.failures) \in Nat
    BY <1>1, <1>4, Evicted, LimitNumbers
<1>6. /\ Begun(l, now) \in LimiterRow /\ Begun(l, now).failures = s.failures
      /\ Begun(l, now).inflight = s.inflight + 1
    BY <1>1, <1>3, <1>4 DEF LimiterRow
<1>7. QED
    BY <1>1, <1>2, <1>4, <1>5, <1>6, LimitNumbers DEF Bounded

LEMMA ReleasedBounded ==
    ASSUME NEW l, NEW now \in Int, Bounded(l, now), l.inflight > 0
    PROVE  /\ Bounded(Released(l), now) /\ Released(l).inflight = l.inflight - 1
           /\ Released(l).failures = l.failures
<1>1. l \in LimiterRow /\ IsFiniteSet(l.failures) /\ l.inflight \in Nat /\ l.failures \in SUBSET FailureRow
    BY DEF Bounded, LimiterRow
<1>2. countWithin(l.failures, now, FastWindow) \in Nat /\ Cardinality(l.failures) \in Nat
    BY <1>1, Evicted, LimitNumbers
<1>3. /\ Released(l) \in LimiterRow /\ Released(l).inflight = l.inflight - 1
      /\ Released(l).failures = l.failures
    BY <1>1 DEF Released, LimiterRow
<1>4. QED
    BY <1>1, <1>2, <1>3, LimitNumbers DEF Bounded

\* RecordFailure adds one failure at most to each window.
LEMMA FailureRecorded ==
    ASSUME NEW l \in LimiterRow, IsFiniteSet(l.failures), NEW now \in Int
    PROVE  LET r == RecordFailure(l, now)
           IN  /\ r \in LimiterRow /\ IsFiniteSet(r.failures) /\ r.inflight = l.inflight
               /\ countWithin(r.failures, now, FastWindow)
                    <= countWithin(l.failures, now, FastWindow) + 1
               /\ Cardinality(r.failures) <= Cardinality(l.failures) + 1
<1> DEFINE before == maybeSweep(l, now).failures
           f == Failure(before, now)
           all == before \cup {f}
           kept == evictOlderThan(all, now, SlowWindow)
           r == RecordFailure(l, now)
<1>1. /\ before \in SUBSET FailureRow /\ IsFiniteSet(before) /\ before \subseteq l.failures
      /\ evictOlderThan(before, now, FastWindow) = evictOlderThan(l.failures, now, FastWindow)
    BY Swept DEF LimiterRow
<1>2. f \in FailureRow
    BY <1>1, FailureFresh
<1>3. /\ all \in SUBSET FailureRow /\ IsFiniteSet(all)
      /\ Cardinality(all) <= Cardinality(before) + 1 /\ Cardinality(all) \in Nat
  <2>1. IsFiniteSet(all) /\ Cardinality(all) \in {Cardinality(before), Cardinality(before) + 1}
    BY <1>1, FS_AddElement
  <2>2. Cardinality(before) \in Nat
    BY <1>1, FS_CardinalityType
  <2>3. QED
    BY <1>1, <1>2, <2>1, <2>2
<1>4. kept \in SUBSET FailureRow /\ IsFiniteSet(kept) /\ Cardinality(kept) <= Cardinality(all)
    BY <1>3, Evicted, LimitNumbers DEF countWithin
<1>5. Cardinality(before) <= Cardinality(l.failures) /\ Cardinality(l.failures) \in Nat
      /\ Cardinality(before) \in Nat /\ Cardinality(kept) \in Nat
    BY <1>1, <1>4, FS_Subset, FS_CardinalityType
<1>6. r.failures = kept /\ r.inflight = l.inflight /\ r \in LimiterRow
  <2>1. l.coolOffUntil \in Int /\ now + CoolOffSlow \in Int /\ now + CoolOffFast \in Int
    BY LimitNumbers DEF LimiterRow
  <2>2. \E end \in Int : r = [l EXCEPT !.failures = kept, !.coolOffUntil = end]
    BY <2>1 DEF RecordFailure
  <2> HIDE DEF kept, r
  <2>3. QED
    BY <1>4, <2>2 DEF LimiterRow
<1>7. countWithin(kept, now, FastWindow) <= countWithin(l.failures, now, FastWindow) + 1
  <2> DEFINE w == evictOlderThan(before, now, FastWindow)
  <2>1. evictOlderThan(kept, now, FastWindow) = evictOlderThan(all, now, FastWindow)
    BY <1>3, EvictedTwice
  <2>2. evictOlderThan(all, now, FastWindow) \subseteq w \cup {f}
    BY DEF evictOlderThan
  <2>3. IsFiniteSet(w) /\ Cardinality(w) \in Nat /\ Cardinality(w) = countWithin(l.failures, now, FastWindow)
    BY <1>1, Evicted, LimitNumbers DEF countWithin
  <2>4. IsFiniteSet(w \cup {f}) /\ Cardinality(w \cup {f}) \in {Cardinality(w), Cardinality(w) + 1}
    BY <2>3, FS_AddElement
  <2>5. /\ Cardinality(evictOlderThan(kept, now, FastWindow)) <= Cardinality(w \cup {f})
        /\ Cardinality(evictOlderThan(kept, now, FastWindow)) \in Nat
    BY <2>1, <2>2, <2>4, FS_Subset, FS_CardinalityType
  <2>6. QED
    BY <2>3, <2>4, <2>5 DEF countWithin
<1>8. QED
    BY <1>3, <1>4, <1>5, <1>6, <1>7

\* A request goes on as r, with the slot it has; it begins in one, as r; it
\* ends, as r, and leaves its slot, failed or not; or it is over at once.
Keeps(c, r) == /\ RequestOf(c, r) /\ SlotOf(r) = SlotOf(req[c])
               /\ limiter' = limiter

Starts(c, r, k) ==
    /\ RequestOf(c, r) /\ SlotOf(req[c]) = "none" /\ SlotOf(r) = k
    /\ Allowed(limiter[k], clock) /\ limiter' = [limiter EXCEPT ![k] = Begun(@, clock)]

Leaves(c, r, k) ==
    /\ RequestOf(c, r) /\ SlotOf(req[c]) = k /\ SlotOf(r) = "none"
    /\ Failed(k) \/ Succeeded(k)

AtOnce(k) ==
    /\ UNCHANGED req /\ Allowed(limiter[k], clock)
    /\ \/ limiter' = [limiter EXCEPT ![k] = Released(Begun(@, clock))]
       \/ limiter' = [limiter EXCEPT ![k] = Released(RecordFailure(Begun(@, clock), clock))]

SlotMove ==
    \/ UNCHANGED <<req, limiter>>
    \/ \E c \in Client : \E r :
          /\ Staged(r)
          /\ Keeps(c, r) \/ \E k \in Kinds : Starts(c, r, k) \/ Leaves(c, r, k)
    \/ \E k \in Kinds : AtOnce(k)

LEMMA LoginMoves ==
    ASSUME Rows, Slots, NEW c \in Client, Login(c)
    PROVE  SlotMove
<1> USE DEF RequestOf, Begin, Continue, Finish, Free
<1>1. NoRequest.op = "none" /\ NoRequest.step = "none" /\ SlotOf(NoRequest) = "none" /\ Staged(NoRequest)
    BY DEF NoRequest, SlotOf, Staged
<1>2. CASE SetupAdmin(c)
  <2>1. PICK u \in User : RequestOf(c, [NoRequest EXCEPT !.op = "login", !.step = "open", !.of = u, !.key = 1])
    BY <1>2 DEF SetupAdmin
  <2> DEFINE r == [NoRequest EXCEPT !.op = "login", !.step = "open", !.of = u, !.key = 1]
  <2>2. SlotOf(r) = "none" /\ Staged(r)
    BY DEF NoRequest, SlotOf, Staged
  <2>3. Keeps(c, r)
    BY <1>1, <1>2, <2>1, <2>2 DEF SetupAdmin, Keeps
  <2>4. QED
    BY <2>2, <2>3 DEF SlotMove
<1>3. ASSUME NEW u \in User, NEW p \in {0, users[u].password}, handleLogin(c, u, p) PROVE SlotMove
  <2> DEFINE good == Local(u) /\ Live(u) /\ p = users[u].password
             step == IF good THEN "slot" ELSE "refused"
             r == [NoRequest EXCEPT !.op = "login", !.step = step, !.of = u, !.key = p]
  <2>1. SlotOf(r) = "login" /\ Staged(r)
    BY DEF NoRequest, SlotOf, Staged
  <2>2. Starts(c, r, "login")
    BY <1>1, <1>3, <2>1 DEF handleLogin, Starts
  <2>3. QED
    BY <2>1, <2>2 DEF SlotMove, Kinds
<1>4. CASE LoginRefused(c)
  <2>1. Leaves(c, NoRequest, "login")
    BY <1>1, <1>4 DEF LoginRefused, Leaves, SlotOf
  <2>2. QED
    BY <1>1, <2>1 DEF SlotMove, Kinds
<1>5. CASE CreateSession(c)
  <2>1. CASE req[c].step = "slot"
    <3>1. Leaves(c, NoRequest, "login")
        BY <1>1, <1>5, <2>1 DEF CreateSession, Leaves, SlotOf
    <3>2. QED
        BY <1>1, <3>1 DEF SlotMove, Kinds
  <2>2. CASE req[c].step # "slot"
    <3>1. Keeps(c, NoRequest)
        BY <1>1, <1>5, <2>2 DEF CreateSession, Keeps, SlotOf
    <3>2. QED
        BY <1>1, <3>1 DEF SlotMove
  <2>3. QED
    BY <2>1, <2>2
<1>6. ASSUME NEW s \in DOMAIN sessions, NEW op, NEW u, Enter(c, s, op, u) PROVE SlotMove
  <2> DEFINE own == sessions[s].user
             r == [NoRequest EXCEPT !.op = op, !.step = "act", !.by = s, !.of = u, !.own = own]
  <2>1. /\ op \in MFAOps \cup AdminOps \cup TokenOps
        /\ RequestOf(c, r) /\ req[c] = NoRequest
        /\ op = "challenge" => /\ Allowed(limiter["challenge"], clock)
                               /\ limiter' = [limiter EXCEPT !["challenge"] = Begun(@, clock)]
        /\ op = "disable factor" => /\ Allowed(limiter["disable"], clock)
                                    /\ limiter' = [limiter EXCEPT !["disable"] = Begun(@, clock)]
        /\ op \notin {"challenge", "disable factor"} => limiter' = limiter
    BY <1>6 DEF Enter
  <2>2. r.op = op /\ r.step = "act"
    BY DEF NoRequest
  <2>3. op # "login"
    BY <2>1 DEF MFAOps, AdminOps, TokenOps
  <2> HIDE DEF r
  <2>4. Staged(r)
    BY <2>2, <2>3 DEF Staged
  <2>5. CASE op = "challenge"
    <3>1. SlotOf(r) = "challenge"
        BY <2>2, <2>5 DEF SlotOf
    <3>2. Starts(c, r, "challenge")
        BY <1>1, <2>1, <2>5, <3>1 DEF Starts
    <3>3. QED
        BY <2>4, <3>2 DEF SlotMove, Kinds
  <2>6. CASE op = "disable factor"
    <3>1. SlotOf(r) = "disable"
        BY <2>2, <2>6 DEF SlotOf
    <3>2. Starts(c, r, "disable")
        BY <1>1, <2>1, <2>6, <3>1 DEF Starts
    <3>3. QED
        BY <2>4, <3>2 DEF SlotMove, Kinds
  <2>7. CASE op \notin {"challenge", "disable factor"}
    <3>1. SlotOf(r) = "none"
        BY <2>2, <2>3, <2>7 DEF SlotOf
    <3>2. Keeps(c, r)
        BY <1>1, <2>1, <2>7, <3>1 DEF Keeps
    <3>3. QED
        BY <2>4, <3>2 DEF SlotMove
  <2>8. QED
    BY <2>5, <2>6, <2>7
<1>7. CASE Logout(c)
  <2>1. SlotOf(req[c]) = "none"
    BY <1>7 DEF Logout, Acting, SlotOf
  <2>2. Keeps(c, NoRequest)
    BY <1>1, <1>7, <2>1 DEF Logout, Keeps
  <2>3. QED
    BY <1>1, <2>2 DEF SlotMove
<1>8. CASE RequestFails(c)
  <2>1. SlotOf(req[c]) \in Kinds \cup {"none"} /\ "none" \notin Kinds
    BY DEF SlotOf, Kinds
  <2>2. CASE SlotOf(req[c]) = "none"
    <3>1. Keeps(c, NoRequest)
        BY <1>1, <1>8, <2>2 DEF RequestFails, Keeps
    <3>2. QED
        BY <1>1, <3>1 DEF SlotMove
  <2>3. CASE SlotOf(req[c]) \in Kinds
    <3>1. Leaves(c, NoRequest, SlotOf(req[c]))
        BY <1>1, <1>8, <2>1, <2>3 DEF RequestFails, Leaves, Succeeded
    <3>2. QED
        BY <1>1, <2>3, <3>1 DEF SlotMove
  <2>4. QED
    BY <2>1, <2>2, <2>3
<1>9. QED
    BY <1>2, <1>3, <1>4, <1>5, <1>6, <1>7, <1>8, Login(c) DEF Login

LEMMA AdminMoves ==
    ASSUME Rows, Slots, NEW c \in Client, AdminStep(c) \/ Token(c)
    PROVE  SlotMove
<1> USE DEF RequestOf, Begin, Continue, Finish, Free
<1>1. NoRequest.op = "none" /\ NoRequest.step = "none" /\ SlotOf(NoRequest) = "none" /\ Staged(NoRequest)
    BY DEF NoRequest, SlotOf, Staged
<1>2. ASSUME NEW op \in AdminOps \cup TokenOps, Acting(c, op), RequestOf(c, NoRequest), limiter' = limiter
      PROVE  SlotMove
  <2>1. SlotOf(req[c]) = "none"
    BY <1>2 DEF Acting, SlotOf, AdminOps, TokenOps
  <2>2. Keeps(c, NoRequest)
    BY <1>1, <1>2, <2>1 DEF Keeps
  <2>3. QED
    BY <1>1, <2>2 DEF SlotMove
<1>3. CASE AdminStep(c)
  <2>1. \E op \in AdminOps : Acting(c, op)
    BY <1>3 DEF AdminStep, CreateUser, DisableUser, EnableUser, UpdateUser, RevokeSessions,
                ResetPassword, AdminOps
  <2>2. RequestOf(c, NoRequest) /\ limiter' = limiter
    BY <1>3 DEF AdminStep, CreateUser, DisableUser, EnableUser, UpdateUser, RevokeSessions,
                ResetPassword, Administered
  <2>3. QED
    BY <1>2, <2>1, <2>2
<1>4. CASE Token(c)
  <2>1. ASSUME NEW t, NEW op, NEW u, EnterByPAT(c, t, op, u) PROVE SlotMove
    <3> DEFINE own == pats[t].owner
               r == [NoRequest EXCEPT !.op = op, !.step = "act", !.of = u, !.own = own]
    <3>1. op \in AdminOps \cup TokenOps /\ RequestOf(c, r) /\ req[c] = NoRequest /\ limiter' = limiter
        BY <2>1 DEF EnterByPAT
    <3>2. r.op = op /\ r.step = "act"
        BY DEF NoRequest
    <3> HIDE DEF r
    <3>3. Staged(r) /\ SlotOf(r) = "none"
        BY <3>1, <3>2 DEF Staged, SlotOf, AdminOps, TokenOps
    <3>4. Keeps(c, r)
        BY <1>1, <3>1, <3>3 DEF Keeps
    <3>5. QED
        BY <3>3, <3>4 DEF SlotMove
  <2>2. CASE MintPAT(c) \/ \E t \in DOMAIN pats : RevokePAT(c, t)
    BY <1>2, <2>2 DEF MintPAT, RevokePAT, TokenOps
  <2>3. QED
    BY <1>4, <2>1, <2>2 DEF Token
<1>5. QED
    BY <1>3, <1>4

LEMMA FactorMoves ==
    ASSUME Rows, Slots, NEW c \in Client, FactorStep(c)
    PROVE  SlotMove
<1> USE DEF RequestOf, Begin, Continue, Finish, Free
<1>1. NoRequest.op = "none" /\ NoRequest.step = "none" /\ SlotOf(NoRequest) = "none" /\ Staged(NoRequest)
    BY DEF NoRequest, SlotOf, Staged
<1>2. req[c] \in RequestRow /\ Staged(req[c])
    BY RequestAt DEF Slots
<1>3. ASSUME NEW r, RequestOf(c, r), Staged(r), SlotOf(r) = SlotOf(req[c]), limiter' = limiter
      PROVE  SlotMove
    BY <1>3 DEF SlotMove, Keeps
<1>4. ASSUME NEW r, NEW k \in Kinds, RequestOf(c, r), Staged(r), SlotOf(r) = "none", SlotOf(req[c]) = k,
             Failed(k) \/ Succeeded(k)
      PROVE  SlotMove
    BY <1>4 DEF SlotMove, Leaves
\* Within a challenge or a disabling, up to its end.
<1>5. ASSUME NEW r, r.op = req[c].op, r.step \in {"commit", "refused", "recover"},
             req[c].op \in {"challenge", "disable factor"},
             r.step = "recover" => req[c].op = "challenge",
             req[c].step # "verified"
      PROVE  Staged(r) /\ SlotOf(r) = SlotOf(req[c])
    BY <1>5 DEF Staged, SlotOf
<1>6. CASE SetupFactor(c)
    BY <1>1, <1>3, <1>6 DEF SetupFactor, Acting, SlotOf
<1>7. CASE ReadPending(c)
  <2>1. req[c].op = "enable" /\ req[c].step = "act" /\ limiter' = limiter /\ SlotOf(req[c]) = "none"
    BY <1>7 DEF ReadPending, Acting, SlotOf
  <2>2. CASE RequestOf(c, NoRequest)
    BY <1>1, <1>3, <2>1, <2>2
  <2>3. ASSUME NEW k, RequestOf(c, [req[c] EXCEPT !.step = "commit", !.key = k]) PROVE SlotMove
    <3> DEFINE r == [req[c] EXCEPT !.step = "commit", !.key = k]
    <3>1. r.op = "enable" /\ r.step = "commit"
        BY <1>2, <2>1 DEF RequestRow
    <3> HIDE DEF r
    <3>2. Staged(r) /\ SlotOf(r) = "none"
        BY <3>1 DEF Staged, SlotOf
    <3>3. QED
        BY <1>3, <2>1, <2>3, <3>2 DEF r
  <2>4. QED
    BY <1>7, <2>2, <2>3 DEF ReadPending
<1>8. CASE EnableFactor(c)
  <2> DEFINE r == [req[c] EXCEPT !.step = "verified"]
  <2>1. req[c].op = "enable" /\ RequestOf(c, r) /\ limiter' = limiter
    BY <1>8 DEF EnableFactor
  <2>2. r.op = "enable" /\ r.step = "verified"
    BY <1>2, <2>1 DEF RequestRow
  <2> HIDE DEF r
  <2>3. Staged(r) /\ SlotOf(r) = "none" /\ SlotOf(req[c]) = "none"
    BY <2>1, <2>2 DEF Staged, SlotOf
  <2>4. QED
    BY <1>3, <2>1, <2>3
<1>9. CASE MarkVerified(c)
  <2>1. SlotOf(req[c]) = "none"
    BY <1>2, <1>9 DEF MarkVerified, Staged, SlotOf
  <2>2. QED
    BY <1>1, <1>3, <1>9, <2>1 DEF MarkVerified
<1>10. ASSUME NEW code, ReadFactor(c, code) PROVE SlotMove
  <2>1. req[c].op \in {"challenge", "disable factor"} /\ req[c].step = "act" /\ limiter' = limiter
    BY <1>10 DEF ReadFactor, Acting
  <2>2. PICK r \in {[req[c] EXCEPT !.step = "commit", !.at = code.step, !.key = code.secret],
                    [req[c] EXCEPT !.step = "refused"]} : RequestOf(c, r)
    BY <1>10 DEF ReadFactor
  <2>3. r.op = req[c].op /\ r.step \in {"commit", "refused"}
    BY <1>2 DEF RequestRow
  <2>4. QED
    BY <1>3, <1>5, <2>1, <2>2, <2>3
<1>11. ASSUME NEW i, ReadRecovery(c, i) PROVE SlotMove
  <2>1. req[c].op = "challenge" /\ req[c].step = "act" /\ limiter' = limiter
    BY <1>11 DEF ReadRecovery, Acting
  <2>2. PICK r \in {[req[c] EXCEPT !.step = "recover", !.key = i],
                    [req[c] EXCEPT !.step = "refused"]} : RequestOf(c, r)
    BY <1>11 DEF ReadRecovery
  <2>3. r.op = req[c].op /\ r.step \in {"recover", "refused"}
    BY <1>2 DEF RequestRow
  <2>4. QED
    BY <1>3, <1>5, <2>1, <2>2, <2>3
<1>12. ASSUME req[c].op = "challenge", req[c].step \in {"commit", "recover"},
              \/ Succeeded("challenge") /\ RequestOf(c, [req[c] EXCEPT !.step = "verified"])
              \/ limiter' = limiter /\ RequestOf(c, [req[c] EXCEPT !.step = "refused"])
       PROVE  SlotMove
  <2> DEFINE v == [req[c] EXCEPT !.step = "verified"]
             r == [req[c] EXCEPT !.step = "refused"]
  <2>1. v.op = "challenge" /\ v.step = "verified" /\ r.op = "challenge" /\ r.step = "refused"
    BY <1>2, <1>12 DEF RequestRow
  <2>2. Staged(v) /\ SlotOf(v) = "none" /\ SlotOf(req[c]) = "challenge" /\ "challenge" \in Kinds
    BY <1>12, <2>1 DEF Staged, SlotOf, Kinds
  <2>3. Staged(r) /\ SlotOf(r) = SlotOf(req[c])
    BY <1>5, <1>12, <2>1
  <2>4. CASE Succeeded("challenge") /\ RequestOf(c, v)
    BY <1>4, <2>2, <2>4
  <2>5. CASE limiter' = limiter /\ RequestOf(c, r)
    BY <1>3, <2>3, <2>5
  <2>6. QED
    BY <1>12, <2>4, <2>5
<1>13. CASE SpendCode(c)
    BY <1>12, <1>13 DEF SpendCode
<1>14. CASE SpendRecovery(c)
  <2>1. req[c].op = "challenge"
    BY <1>2, <1>14 DEF SpendRecovery, Staged
  <2>2. QED
    BY <1>12, <1>14, <2>1 DEF SpendRecovery
<1>15. CASE DisableFactor(c)
  <2>1. req[c].op = "disable factor" /\ req[c].step = "commit" /\ SlotOf(req[c]) = "disable"
    BY <1>15 DEF DisableFactor, SlotOf
  <2>2. CASE Succeeded("disable") /\ RequestOf(c, NoRequest)
    BY <1>1, <1>4, <2>1, <2>2 DEF Kinds
  <2>3. CASE limiter' = limiter /\ RequestOf(c, [req[c] EXCEPT !.step = "refused"])
    <3> DEFINE r == [req[c] EXCEPT !.step = "refused"]
    <3>1. r.op = req[c].op /\ r.step = "refused"
        BY <1>2 DEF RequestRow
    <3>2. QED
        BY <1>3, <1>5, <2>1, <2>3, <3>1
  <2>4. QED
    BY <1>15, <2>2, <2>3 DEF DisableFactor
<1>16. CASE ChallengeRefused(c)
    BY <1>1, <1>4, <1>16 DEF ChallengeRefused, SlotOf, Kinds
<1>17. CASE DisableRefused(c)
    BY <1>1, <1>4, <1>17 DEF DisableRefused, SlotOf, Kinds
<1>18. QED
    BY <1>6, <1>7, <1>8, <1>9, <1>10, <1>11, <1>13, <1>14, <1>15, <1>16, <1>17, FactorStep(c)
       DEF FactorStep

LEMMA SlotMoves ==
    ASSUME Rows, Slots, [TokensNext]_allVars
    PROVE  \/ SlotMove /\ clock' = clock
           \/ UNCHANGED <<req, limiter>> /\ clock' = clock + 1
           \/ req' = [c \in Client |-> NoRequest] /\ limiter' = [k \in Kinds |-> Fresh] /\ clock' = clock
<1> USE DEF accountVars, vars, allVars
<1>1. ASSUME NEW c \in Client, Login(c) PROVE SlotMove /\ clock' = clock
  <2>1. clock' = clock
    BY ZenonT(60), <1>1 DEF Login, SetupAdmin, handleLogin, LoginRefused, CreateSession, Enter, Logout, RequestFails
  <2>2. QED
    BY <1>1, <2>1, LoginMoves
<1>2. ASSUME NEW c \in Client, AdminStep(c) \/ Token(c) PROVE SlotMove /\ clock' = clock
  <2>1. clock' = clock
    BY <1>2 DEF AdminStep, CreateUser, DisableUser, EnableUser, UpdateUser, RevokeSessions,
                ResetPassword, Administered, Token, MintPAT, RevokePAT, EnterByPAT
  <2>2. QED
    BY <1>2, <2>1, AdminMoves
<1>3. ASSUME NEW c \in Client, FactorStep(c) PROVE SlotMove /\ clock' = clock
  <2>1. clock' = clock
    BY <1>3 DEF FactorStep, SetupFactor, ReadPending, EnableFactor, MarkVerified, ReadFactor,
                ReadRecovery, SpendCode, SpendRecovery, DisableFactor, ChallengeRefused,
                DisableRefused
  <2>2. QED
    BY <1>3, <2>1, FactorMoves
<1>4. CASE Mail
  <2>1. ASSUME NEW u \in User, RequestReset(u) PROVE AtOnce("reset") /\ clock' = clock
    BY <2>1 DEF RequestReset, AtOnce
  <2>2. ASSUME NEW t \in DOMAIN resets, ConfirmReset(t) PROVE AtOnce("reset") /\ clock' = clock
    BY <2>2 DEF ConfirmReset, AtOnce
  <2>3. CASE Tick
    BY <2>3 DEF Tick
  <2>4. ASSUME NEW u \in User, IssueReset(u) PROVE UNCHANGED <<req, limiter, clock>>
    BY <2>4 DEF IssueReset
  <2>5. QED
    BY <1>4, <2>1, <2>2, <2>3, <2>4 DEF Mail, SlotMove, Kinds
<1>5. CASE Restart
    BY <1>5 DEF Restart
<1>6. ASSUME NEW b \in Boot, Booted(b) PROVE UNCHANGED <<req, limiter, clock>>
    BY <1>6 DEF Booted, BootLock, BootClaim, BootMint, BootWrite, BootSync, BootFails,
              BootRevoke, BootRemove, BootDies, BootStep
<1>7. CASE RemoveFile \/ UNCHANGED allVars
    BY <1>7 DEF RemoveFile, SlotMove
<1>8. QED
    BY <1>1, <1>2, <1>3, <1>4, <1>5, <1>6, <1>7, Groups DEF SlotMove

LEMMA HoldersAt ==
    ASSUME NEW k
    PROVE  IsFiniteSet(Holders(k)) /\ Cardinality(Holders(k)) \in Nat
<1>1. IsFiniteSet(Holders(k))
    BY AccountsAssumption, FS_Subset DEF Holders
<1>2. QED
    BY <1>1, FS_CardinalityType

\* A failure takes the room of the attempt it ends.
LEMMA EndedBounded ==
    ASSUME NEW l, NEW now \in Int, Bounded(l, now), l.inflight > 0,
           NEW m \in {Released(l), Released(RecordFailure(l, now))}
    PROVE  Bounded(m, now) /\ m.inflight = l.inflight - 1
<1>1. l \in LimiterRow /\ IsFiniteSet(l.failures) /\ l.inflight \in Nat /\ l.failures \in SUBSET FailureRow
    BY DEF Bounded, LimiterRow
<1>2. countWithin(l.failures, now, FastWindow) \in Nat /\ Cardinality(l.failures) \in Nat
  <2>1. FastWindow \in Int
      BY LimitNumbers
  <2>2. QED
      BY ONLY <1>1, <2>1, now \in Int, Evicted
<1>3. /\ Bounded(Released(l), now) /\ Released(l).inflight = l.inflight - 1
      /\ Released(l).failures = l.failures
    BY ReleasedBounded
<1>4. CASE m = Released(l)
    BY <1>3, <1>4
<1>5. CASE m = Released(RecordFailure(l, now))
  <2> DEFINE r == RecordFailure(l, now)
  <2>1. /\ r \in LimiterRow /\ IsFiniteSet(r.failures) /\ r.inflight = l.inflight
        /\ countWithin(r.failures, now, FastWindow) <= countWithin(l.failures, now, FastWindow) + 1
        /\ Cardinality(r.failures) <= Cardinality(l.failures) + 1
    BY <1>1, FailureRecorded
  <2> HIDE DEF r
  <2>2. m = [r EXCEPT !.inflight = r.inflight - 1]
    BY <1>1, <1>5, <2>1 DEF Released, r
  <2>3. m \in LimiterRow /\ m.failures = r.failures /\ m.inflight = l.inflight - 1
    BY <1>1, <2>1, <2>2 DEF LimiterRow
  <2>4. r.failures \in SUBSET FailureRow
    BY <2>1 DEF LimiterRow
  <2>5. countWithin(r.failures, now, FastWindow) \in Nat /\ Cardinality(r.failures) \in Nat
    BY <2>1, <2>4, Evicted, LimitNumbers
  <2>6. QED
    BY <1>1, <1>2, <2>1, <2>3, <2>5, LimitNumbers DEF Bounded
<1>6. QED
    BY <1>4, <1>5

\* An attempt that is over at once leaves the limiter as bounded as it was.
LEMMA AtOnceBounded ==
    ASSUME NEW l, NEW now \in Int, Bounded(l, now), Allowed(l, now),
           NEW m \in {Released(Begun(l, now)), Released(RecordFailure(Begun(l, now), now))}
    PROVE  Bounded(m, now) /\ m.inflight = l.inflight
<1>1. l \in LimiterRow /\ IsFiniteSet(l.failures) /\ l.inflight \in Nat
    BY DEF Bounded, LimiterRow
<1>2. Bounded(Begun(l, now), now) /\ Begun(l, now).inflight = l.inflight + 1
    BY <1>1, BegunBounded
<1> DEFINE b == Begun(l, now)
<1>3. m \in {Released(b), Released(RecordFailure(b, now))}
    OBVIOUS
<1>4. Bounded(b, now) /\ b.inflight = l.inflight + 1 /\ b.inflight > 0
    BY <1>1, <1>2
<1> HIDE DEF b
<1>5. Bounded(m, now) /\ m.inflight = b.inflight - 1
    BY <1>3, <1>4, EndedBounded
<1>6. QED
    BY <1>1, <1>4, <1>5

LEMMA FreshBounded == ASSUME NEW now \in Int PROVE Bounded(Fresh, now) /\ Fresh.inflight = 0
<1>1. Fresh \in LimiterRow /\ Fresh.failures = {} /\ Fresh.inflight = 0
    BY DEF Fresh, LimiterRow
<1>2. evictOlderThan({}, now, FastWindow) = {}
    BY DEF evictOlderThan
<1>3. QED
    BY <1>1, <1>2, FS_EmptySet, LimitNumbers DEF Bounded, countWithin

LEMMA NoHolders ==
    /\ Staged(NoRequest) /\ SlotOf(NoRequest) = "none" /\ "none" \notin Kinds
    /\ Cardinality({}) = 0
BY FS_EmptySet DEF NoRequest, Staged, SlotOf, Kinds

\* Every slot is held by one request and freed with it, and no limiter lets in
\* more attempts than could fail.
LEMMA SlotSteps ==
    ASSUME Rows, Slots, [TokensNext]_allVars
    PROVE  Slots'
<1>1. /\ DOMAIN limiter = Kinds /\ clock \in Nat /\ "none" \notin Kinds
      /\ \A c \in Client : Staged(req[c])
      /\ \A k \in Kinds : /\ Bounded(limiter[k], clock)
                          /\ limiter[k].inflight = Cardinality(Holders(k))
      /\ DOMAIN req = Client
    BY DEF Rows, Slots, Kinds
<1>2. \A k \in Kinds : /\ limiter[k] \in LimiterRow /\ IsFiniteSet(limiter[k].failures)
                       /\ limiter[k].inflight \in Nat
    BY <1>1 DEF Bounded, LimiterRow
\* One request becomes r, and one limiter m at most.
<1>3. ASSUME NEW c \in Client, NEW r, RequestOf(c, r), Staged(r), clock' = clock
      PROVE  /\ \A d \in Client : Staged(req[d])'
             /\ \A k : Holders(k)' = IF SlotOf(r) = k THEN Holders(k) \cup {c} ELSE Holders(k) \ {c}
  <2>1. req'[c] = r /\ \A d \in Client : d # c => req'[d] = req[d]
    BY <1>1, <1>3 DEF RequestOf
  <2>2. QED
    BY <1>1, <1>3, <2>1 DEF Holders
<1>4. ASSUME NEW k \in Kinds, NEW m, limiter' = [limiter EXCEPT ![k] = m], clock' = clock,
             Bounded(m, clock)
      PROVE  /\ DOMAIN limiter' = Kinds /\ limiter'[k] = m /\ \A j \in Kinds : Bounded(limiter[j], clock)'
             /\ \A j \in Kinds : j # k => limiter'[j] = limiter[j]
  <2>1. DOMAIN limiter' = Kinds /\ limiter'[k] = m /\ \A j \in Kinds : j # k => limiter'[j] = limiter[j]
    BY <1>1, <1>4
  <2>2. \A j \in Kinds : Bounded(limiter'[j], clock)
    BY <1>1, <1>4, <2>1
  <2>3. QED
    BY <1>4, <2>1, <2>2 DEF Bounded
<1>5. ASSUME NEW c \in Client, NEW r, Staged(r), Keeps(c, r), clock' = clock PROVE Slots'
  <2>1. /\ \A d \in Client : Staged(req[d])'
        /\ \A k : Holders(k)' = IF SlotOf(r) = k THEN Holders(k) \cup {c} ELSE Holders(k) \ {c}
    BY <1>3, <1>5 DEF Keeps
  <2>2. \A k : Holders(k)' = Holders(k)
    BY <1>5, <2>1 DEF Keeps, Holders
  <2>3. limiter' = limiter
    BY <1>5 DEF Keeps
  <2>4. \A k \in Kinds : Bounded(limiter[k], clock)'
    BY <1>1, <1>5, <2>3 DEF Bounded
  <2>5. QED
    BY <1>1, <2>1, <2>2, <2>3, <2>4 DEF Slots
<1>6. ASSUME NEW c \in Client, NEW r, NEW k \in Kinds, Staged(r), Starts(c, r, k), clock' = clock
      PROVE  Slots'
  <2> DEFINE m == Begun(limiter[k], clock)
  <2>1. /\ \A d \in Client : Staged(req[d])'
        /\ \A j : Holders(j)' = IF SlotOf(r) = j THEN Holders(j) \cup {c} ELSE Holders(j) \ {c}
    BY <1>3, <1>6 DEF Starts
  <2>2. \A j \in Kinds : c \notin Holders(j)
    BY <1>1, <1>6 DEF Starts, Holders
  <2>3. Bounded(m, clock) /\ m.inflight = limiter[k].inflight + 1
    BY <1>1, <1>2, <1>6, BegunBounded DEF Starts
  <2>4. limiter' = [limiter EXCEPT ![k] = m]
    BY <1>1, <1>6 DEF Starts
  <2> HIDE DEF m
  <2>5. /\ DOMAIN limiter' = Kinds /\ limiter'[k] = m /\ \A j \in Kinds : Bounded(limiter[j], clock)'
        /\ \A j \in Kinds : j # k => limiter'[j] = limiter[j]
    BY <1>4, <1>6, <2>3, <2>4
  <2>6. \A j \in Kinds : j # k => Holders(j)' = Holders(j)
    BY <1>6, <2>1, <2>2 DEF Starts
  <2>7. Cardinality(Holders(k)') = Cardinality(Holders(k)) + 1
    <3>1. Holders(k)' = Holders(k) \cup {c}
        BY <1>6, <2>1 DEF Starts
    <3>2. QED
        BY <2>2, <3>1, HoldersAt, FS_AddElement
  <2>8. QED
    BY <1>1, <2>1, <2>3, <2>5, <2>6, <2>7 DEF Slots
<1>7. ASSUME NEW c \in Client, NEW r, NEW k \in Kinds, Staged(r), Leaves(c, r, k), clock' = clock
      PROVE  Slots'
  <2>1. /\ \A d \in Client : Staged(req[d])'
        /\ \A j : Holders(j)' = IF SlotOf(r) = j THEN Holders(j) \cup {c} ELSE Holders(j) \ {c}
    BY <1>3, <1>7 DEF Leaves
  <2>2. c \in Holders(k) /\ \A j \in Kinds : j # k => c \notin Holders(j)
    BY <1>7 DEF Leaves, Holders
  <2>3. limiter[k].inflight > 0
    <3>1. Cardinality(Holders(k)) # 0
        BY <2>2, HoldersAt, FS_EmptySet
    <3>2. QED
        BY <1>1, <3>1, HoldersAt
  <2>4. PICK m \in {Released(limiter[k]), Released(RecordFailure(limiter[k], clock))} :
            limiter' = [limiter EXCEPT ![k] = m]
    BY <1>1, <1>7 DEF Leaves, Failed, Succeeded
  <2>5. Bounded(m, clock) /\ m.inflight = limiter[k].inflight - 1
    BY <1>1, <2>3, <2>4, EndedBounded
  <2>6. /\ DOMAIN limiter' = Kinds /\ limiter'[k] = m /\ \A j \in Kinds : Bounded(limiter[j], clock)'
        /\ \A j \in Kinds : j # k => limiter'[j] = limiter[j]
    BY <1>4, <1>7, <2>4, <2>5
  <2>7. \A j \in Kinds : j # k => Holders(j)' = Holders(j)
    BY <1>1, <1>7, <2>1, <2>2 DEF Leaves
  <2>8. Cardinality(Holders(k)') = Cardinality(Holders(k)) - 1
    <3>1. Holders(k)' = Holders(k) \ {c}
        BY <1>1, <1>7, <2>1 DEF Leaves
    <3>2. QED
        BY <2>2, <3>1, HoldersAt, FS_RemoveElement
  <2>9. QED
    BY <1>1, <2>1, <2>5, <2>6, <2>7, <2>8 DEF Slots
<1>8. ASSUME NEW k \in Kinds, AtOnce(k), clock' = clock PROVE Slots'
  <2>1. PICK m \in {Released(Begun(limiter[k], clock)),
                    Released(RecordFailure(Begun(limiter[k], clock), clock))} :
            limiter' = [limiter EXCEPT ![k] = m]
    BY <1>1, <1>8 DEF AtOnce
  <2>2. Bounded(m, clock) /\ m.inflight = limiter[k].inflight
    BY <1>1, <1>8, <2>1, AtOnceBounded DEF AtOnce
  <2>3. /\ DOMAIN limiter' = Kinds /\ limiter'[k] = m /\ \A j \in Kinds : Bounded(limiter[j], clock)'
        /\ \A j \in Kinds : j # k => limiter'[j] = limiter[j]
    BY <1>4, <1>8, <2>1, <2>2
  <2>4. \A j : Holders(j)' = Holders(j)
    BY <1>8 DEF AtOnce, Holders
  <2>5. QED
    BY <1>1, <1>8, <2>2, <2>3, <2>4 DEF Slots, AtOnce
<1>9. CASE UNCHANGED <<req, limiter>> /\ clock' \in {clock, clock + 1}
  <2>1. ASSUME NEW k \in Kinds PROVE Bounded(limiter[k], clock)'
    <3>1. limiter[k].failures \in SUBSET FailureRow
        BY <1>2 DEF LimiterRow
    <3>2. countWithin(limiter[k].failures, clock + 1, FastWindow)
             <= countWithin(limiter[k].failures, clock, FastWindow)
        BY <1>1, <1>2, <3>1, WindowMoves
    <3>3. /\ countWithin(limiter[k].failures, clock + 1, FastWindow) \in Nat
          /\ countWithin(limiter[k].failures, clock, FastWindow) \in Nat
        BY <1>1, <1>2, <3>1, Evicted, LimitNumbers
    <3>4. QED
        BY <1>1, <1>2, <1>9, <3>2, <3>3, LimitNumbers DEF Bounded
  <2>2. \A k : Holders(k)' = Holders(k)
    BY <1>9 DEF Holders
  <2>3. QED
    BY <1>1, <1>9, <2>1, <2>2 DEF Slots
<1>10. CASE /\ req' = [c \in Client |-> NoRequest] /\ limiter' = [k \in Kinds |-> Fresh]
            /\ clock' = clock
  <2>1. \A k \in Kinds : Bounded(Fresh, clock) /\ limiter'[k] = Fresh /\ clock' = clock
    BY <1>1, <1>10, FreshBounded
  <2>2. \A k \in Kinds : Holders(k)' = {}
    BY <1>10, NoHolders DEF Holders
  <2>3. \A k \in Kinds : Bounded(limiter[k], clock)'
    BY <2>1 DEF Bounded
  <2>4. QED
    <3>1. \A c \in Client : Staged(req[c])'
        BY <1>10, NoHolders
    <3>2. \A k \in Kinds : limiter'[k].inflight = Cardinality(Holders(k)')
      <4>1. Fresh.inflight = 0 /\ Cardinality({}) = 0
        BY NoHolders DEF Fresh
      <4>2. QED
        BY <2>1, <2>2, <4>1
    <3>3. DOMAIN limiter' = Kinds
        BY <1>10
    <3>4. QED
        BY <2>3, <3>1, <3>2, <3>3 DEF Slots
<1>11. QED
    BY <1>5, <1>6, <1>7, <1>8, <1>9, <1>10, SlotMoves DEF SlotMove

----------------------------------------------------------------------------
\* Theorems.

\* The inductive invariant.
Inv ==
    /\ Rows /\ Requests
    /\ SessionUsers /\ PasswordEndsSessions
    /\ Bootstraps
    /\ Second
    /\ Slots

LEMMA InitInv == TokensInit => Inv
<1> SUFFICES ASSUME TokensInit PROVE Inv
    OBVIOUS
<1> USE DEF TokensInit, Init, None
<1>1. Rows
  <2>1. users \in [Account -> UserRow]
    BY DEF UserRow
  <2>2. factor \in [User -> FactorRow] /\ pending \in [User -> PendingRow]
    BY DEF FactorRow, PendingRow, NoFactor, NoSecret
  <2>3. req \in [Client -> RequestRow]
    BY DEF RequestRow, NoRequest, Ops, Steps, Account, Service
  <2>4. boot \in [Boot -> BootRow] /\ file \in Int
    BY DEF BootRow, BootSteps, NotBooting, Absent
  <2>5. QED
    BY <2>1, <2>2, <2>3, <2>4 DEF Rows
<1>2. Requests
    BY DEF Requests, Named, NoRequest, MFAOps
<1>3. DOMAIN sessions = {} /\ DOMAIN pats = {} /\ DOMAIN codes = {}
    OBVIOUS
<1>4. SessionUsers /\ PasswordEndsSessions
    BY <1>3 DEF SessionUsers, PasswordEndsSessions
<1>5. Bootstraps
    BY <1>3 DEF Bootstraps, Filed, OneBoots, LiveBootstrap, NotBooting, Absent
<1>6. Second
  <2>1. Secrets
    BY DEF Secrets, Holds, NoFactor, NoSecret, NoRequest
  <2>2. Codes
    BY DEF Codes, SpentRow, NoRequest
  <2>3. QED
    BY <1>3, <2>1, <2>2 DEF Second, Salts, CodesMatch, CodesSpendOnce
<1>7. Slots
  <2>1. \A k \in Kinds : Bounded(limiter[k], clock) /\ limiter[k] = Fresh
    BY FreshBounded
  <2>2. \A k \in Kinds : Holders(k) = {}
    BY NoHolders DEF Holders
  <2>3. \A c \in Client : Staged(req[c])
    BY NoHolders
  <2>4. DOMAIN limiter = Kinds
    OBVIOUS
  <2>5. QED
    <3>1. Fresh.inflight = 0 /\ Cardinality({}) = 0
        BY NoHolders DEF Fresh
    <3>2. \A k \in Kinds : limiter[k].inflight = Cardinality(Holders(k))
        BY <2>1, <2>2, <3>1
    <3>3. QED
        BY <2>1, <2>3, <2>4, <3>2 DEF Slots
<1>8. QED
    BY <1>1, <1>2, <1>4, <1>5, <1>6, <1>7 DEF Inv

LEMMA InvStep == Inv /\ [TokensNext]_allVars => Inv'
<1> SUFFICES ASSUME Inv, [TokensNext]_allVars PROVE Inv'
    OBVIOUS
<1>1. Rows /\ Requests /\ SessionUsers /\ PasswordEndsSessions /\ Bootstraps /\ Second /\ Slots
    BY DEF Inv
<1>2. users' \in [Account -> UserRow]
    BY <1>1, UserSteps
<1>3. req' \in [Client -> RequestRow] /\ Requests'
    BY <1>1, RequestNamed
<1>4. sessions' \in Seq(SessionRow) /\ SessionUsers' /\ PasswordEndsSessions'
    BY <1>1, SessionSteps
<1>5. resets' \in Seq(ResetRow) /\ jobs' \subseteq User /\ clock' \in Nat
    BY <1>1, MailSteps
<1>6. BootTypes /\ Bootstraps'
    BY <1>1, TokenSteps
<1>7. SecondTypes /\ Second'
    BY <1>1, SecondSteps
<1>8. Rows'
    BY <1>2, <1>3, <1>4, <1>5, <1>6, <1>7 DEF Rows, BootTypes, SecondTypes
<1>9. Slots'
    BY <1>1, SlotSteps
<1>10. QED
    BY <1>3, <1>4, <1>6, <1>7, <1>8, <1>9 DEF Inv

LEMMA Invariance == Spec => []Inv
BY InitInv, InvStep, PTL DEF Spec

\* guardLastLocalAdmin holds for any number of administrators: once there is a
\* live local admin, no interleaving of their requests, of set-up, resets and
\* bootstraps leaves the server without one.
THEOREM LastAdmin == Spec => LastAdminStays
<1>1. Inv /\ [TokensNext]_allVars => [HasLocalAdmin => HasLocalAdmin']_users
    BY UserSteps DEF Inv
<1>2. QED
    BY <1>1, Invariance, PTL DEF Spec, LastAdminStays

\* A reset ends every session that was opened with an older password
\* (ConfirmPasswordReset, AdminResetPassword), but one of a login that had
\* verified it when the reset committed.
THEOREM ResetEndsSessions == Spec => []PasswordEndsSessions
<1>1. Inv => PasswordEndsSessions
    BY DEF Inv
<1>2. QED
    BY <1>1, Invariance, PTL

\* The recovery codes on file are those of the enrolment on file, whatever
\* enrolments, disablings and resets overlap.
THEOREM RecoveryCodesMatch == Spec => []CodesMatch
<1>1. Inv => CodesMatch
    BY DEF Inv, Second
<1>2. QED
    BY <1>1, Invariance, PTL

\* No code is accepted twice by the enrolment it belongs to: the conditional
\* updates decide (UpdateLastUsedStep, MarkRecoveryCodeUsed), not the reads.
THEOREM SpendsOnce == Spec => []CodesSpendOnce
<1>1. Inv => CodesSpendOnce
    BY DEF Inv, Second
<1>2. QED
    BY <1>1, Invariance, PTL

\* However many attempts from one address overlap, no more failures than the
\* limit are recorded in one fast window: Begin counts the attempts under way,
\* and each of those has its room until it ends.
THEOREM BurstsBounded == Spec => []BurstBounded
<1>1. ASSUME Rows, Slots PROVE BurstBounded
  <2>1. ASSUME NEW k \in Kinds PROVE countWithin(limiter[k].failures, clock, FastWindow) <= MaxFast
    <3>1. Bounded(limiter[k], clock) /\ clock \in Int
        BY <1>1 DEF Rows, Slots
    <3>2. /\ limiter[k].failures \in SUBSET FailureRow /\ IsFiniteSet(limiter[k].failures)
          /\ limiter[k].inflight \in Nat
        BY <3>1 DEF Bounded, LimiterRow
    <3>3. countWithin(limiter[k].failures, clock, FastWindow) \in Nat
        BY <3>1, <3>2, Evicted, LimitNumbers
    <3>4. QED
        BY <3>1, <3>2, <3>3, LimitNumbers DEF Bounded
  <2>2. QED
    BY <2>1 DEF BurstBounded
<1>2. Inv => Rows /\ Slots
    BY DEF Inv
<1>3. QED
    BY <1>1, <1>2, Invariance, PTL

\* Every slot of a limiter is held by one request under way and is freed when
\* that request ends, however it does (Begin's release func, behind defer), so
\* that no address is kept out by attempts that are over; and neither window
\* ever has room for more failures than its limit.
THEOREM SlotsHeld == Spec => []Slots
<1>1. Inv => Slots
    BY DEF Inv
<1>2. QED
    BY <1>1, Invariance, PTL

\* However many servers start over one directory, and whichever of their steps
\* fail or are the last (RunBootstrapPAT), at most one bootstrap token is live,
\* and a token in the file is it, unless it was revoked by hand or its start is
\* about to remove the file, died at that, or could not.
THEOREM OneBootstrap == Spec => []BootstrapTrue
<1>1. ASSUME Bootstraps PROVE BootstrapTrue
  <2>1. Cardinality(LiveBootstrap) <= 1
    <3>1. CASE LiveBootstrap = {}
        BY <3>1, FS_EmptySet
    <3>2. CASE LiveBootstrap # {}
      <4>1. PICK t : LiveBootstrap = {t}
        BY <1>1, <3>2 DEF Bootstraps
      <4>2. QED
        BY <4>1, FS_Singleton
    <3>3. QED
        BY <3>1, <3>2
  <2>2. QED
    BY <1>1, <2>1 DEF BootstrapTrue, Bootstraps, Told, Booting
<1>2. Inv => BootstrapTrue
    BY <1>1 DEF Inv
<1>3. QED
    BY <1>2, Invariance, PTL
=============================================================================
