------------------------------- MODULE Pairing -------------------------------
(***************************************************************************)
(* Companion pairing and key rotation (internal/pairing/service.go, the    *)
(* key lookup of internal/auth/agent.go and the rotation part of           *)
(* /agent/handshake).                                                      *)
(*                                                                         *)
(* A pairing has one API key.  A rotation mints a second one in one        *)
(* transaction: the keys in use get an end, the new key is marked as       *)
(* awaiting its first use, and its plaintext is kept sealed for the device *)
(* to learn at its next handshake.  A second transaction replaces the      *)
(* stored QR code.  The first request made with the new key adopts it:     *)
(* older keys stop.  Administrators, the device and the clock interleave   *)
(* between all of these.                                                   *)
(*                                                                         *)
(* A key is its row's number; a hash, a preview and a sealed copy are the  *)
(* key they belong to.  The server has a sealing key throughout (changing  *)
(* it changes the pepper, which voids every key).  The audit rows and the  *)
(* label are left out.                                                     *)
(***************************************************************************)
EXTENDS Integers, Sequences, FiniteSets

CONSTANTS
    Pairing,        \* the pairings; each has one device
    Admin,          \* the administrators' requests that can run side by side
    Grace,          \* how long a replaced key stays valid
    MaxClock,       \* bound: the last second
    MaxKey,         \* bound: how many keys are minted
    MaxMishap       \* bound: failed transactions, restarts, lost answers and QR scans

ASSUME PairingAssumption ==
    /\ Grace \in Nat \ {0}
    /\ MaxClock \in Nat
    /\ MaxKey \in Nat
    /\ MaxMishap \in Nat

Never == MaxClock + Grace + 1       \* expires_at IS NULL
NoKey == 0
KeyId == 1 .. MaxKey

VARIABLES
    status,     \* device_pairings: "none", "live", "revoked" or "deleted"
    keys,       \* device_pairing_keys, in the order of their ids
    qr,         \* the key the stored qr_svg and pairing_url show
    shown,      \* the key a person last had revealed
    held,       \* the key a device presents
    task,       \* an administrator's rotation between its transactions
    request,    \* a device's request between its reads
    clock,
    disturbed,  \* history: rotations that overlapped or were cut short
    mishaps

vars == <<status, keys, qr, shown, held, task, request, clock, disturbed, mishaps>>

Idle == [step |-> "idle", of |-> NoKey, now |-> 0, key |-> NoKey]
NoRequest == [step |-> "none", key |-> NoKey]

Init ==
    /\ status = [p \in Pairing |-> "none"]
    /\ keys = <<>>
    /\ qr = [p \in Pairing |-> NoKey]
    /\ shown = [p \in Pairing |-> NoKey]
    /\ held = [p \in Pairing |-> NoKey]
    /\ task = [a \in Admin |-> Idle]
    /\ request = [p \in Pairing |-> NoRequest]
    /\ clock = 0
    /\ disturbed = [p \in Pairing |-> {}]
    /\ mishaps = 0

-----------------------------------------------------------------------------
(* The statements.                                                         *)

Unexpired(row, now) == row.expires > now

\* revoked_at IS NULL AND (expires_at IS NULL OR expires_at > unixepoch())
Active(k) == ~keys[k].revoked /\ Unexpired(keys[k], clock)

KeysOf(p) == {k \in DOMAIN keys : keys[k].of = p}

\* GetDevicePairingKeyByHash: an active key of a pairing that is not revoked.
Accepted(k) == k \in DOMAIN keys /\ status[keys[k].of] = "live" /\ Active(k)

\* ORDER BY created_at, id
Before(j, k) == \/ keys[j].created < keys[k].created
                \/ keys[j].created = keys[k].created /\ j < k

\* NewestActiveKeyForPairing: the last active key after k in that order.
NewestAfter(k) ==
    LET later == {j \in KeysOf(keys[k].of) : Active(j) /\ Before(k, j)}
    IN  IF k \notin DOMAIN keys \/ later = {} THEN NoKey
        ELSE CHOOSE j \in later : \A i \in later : i = j \/ Before(i, j)

Row(p, now) ==
    [of |-> p, created |-> now, expires |-> Never, revoked |-> FALSE,
     sealed |-> FALSE, awaiting |-> FALSE, adopted |-> FALSE]

\* SetActiveKeyExpirations: only keys that had no end get one.
SetActiveKeyExpirations(rows, p, end) ==
    [k \in DOMAIN rows |->
        IF rows[k].of = p /\ ~rows[k].revoked /\ rows[k].expires = Never
        THEN [rows[k] EXCEPT !.expires = end] ELSE rows[k]]

\* ClearSupersededRotationSecrets
ClearSuperseded(rows, p) ==
    [k \in DOMAIN rows |->
        IF rows[k].of = p THEN [rows[k] EXCEPT !.sealed = FALSE] ELSE rows[k]]

\* RetireKeysOlderThan: what a key's adoption ends.
RetireOlder(rows, k, now) ==
    [j \in DOMAIN rows |->
        IF rows[j].of = rows[k].of /\ j < k /\ ~rows[j].revoked /\ Unexpired(rows[j], now)
        THEN [rows[j] EXCEPT !.revoked = TRUE, !.sealed = FALSE, !.awaiting = FALSE]
        ELSE rows[j]]

\* RevokeAllKeysForPairing
RevokeAll(rows, p, now) ==
    [k \in DOMAIN rows |->
        IF rows[k].of = p /\ ~rows[k].revoked /\ Unexpired(rows[k], now)
        THEN [rows[k] EXCEPT !.revoked = TRUE, !.sealed = FALSE, !.awaiting = FALSE]
        ELSE rows[k]]

\* DeletePairingKeysForPairing: a deleted row stays in the sequence, blank.
Blank(rows, p) ==
    [k \in DOMAIN rows |->
        IF rows[k].of = p THEN [Row(p, 0) EXCEPT !.expires = 0, !.revoked = TRUE] ELSE rows[k]]

-----------------------------------------------------------------------------
(* The administrators' requests.                                           *)

\* CreatePairing: the row, its key and its QR code in one transaction; the
\* device scans the code from the answer.
CreatePairing(p) ==
    /\ status[p] = "none" /\ Len(keys) < MaxKey
    /\ status' = [status EXCEPT ![p] = "live"]
    /\ keys' = Append(keys, Row(p, clock))
    /\ qr' = [qr EXCEPT ![p] = Len(keys')]
    /\ shown' = [shown EXCEPT ![p] = Len(keys')]
    /\ held' = [held EXCEPT ![p] = Len(keys')]
    /\ UNCHANGED <<task, request, clock, disturbed, mishaps>>

Rotating(p) == {a \in Admin : task[a].step # "idle" /\ task[a].of = p}

\* RotateKey reads the time before it waits for the writer.
RotateKey(a, p) ==
    /\ task[a].step = "idle" /\ status[p] # "none" /\ Len(keys) < MaxKey
    /\ task' = [task EXCEPT ![a] = [step |-> "mint", of |-> p, now |-> clock, key |-> NoKey]]
    /\ disturbed' = IF Rotating(p) = {} THEN disturbed
                    ELSE [disturbed EXCEPT ![p] = @ \cup {"overlap"}]
    /\ UNCHANGED <<status, keys, qr, shown, held, request, clock, mishaps>>

Minted(rows, p, now) ==
    LET ended == SetActiveKeyExpirations(rows, p, now + Grace)
    IN  Append(ClearSuperseded(ended, p),
               [Row(p, now) EXCEPT !.sealed = TRUE, !.awaiting = TRUE])

\* The first transaction: refused for a revoked or deleted pairing.
Mint(a) ==
    /\ task[a].step = "mint"
    /\ IF status[task[a].of] = "live" /\ Len(keys) < MaxKey
       THEN /\ keys' = Minted(keys, task[a].of, task[a].now)
            /\ task' = [task EXCEPT ![a].step = "qr", ![a].key = Len(keys')]
       ELSE /\ task' = [task EXCEPT ![a] = Idle]
            /\ keys' = keys
    /\ UNCHANGED <<status, qr, shown, held, request, clock, disturbed, mishaps>>

\* Mutant: a rotation leaves the stored code as it was when there is one.
StoredQROnce(p, k) == IF qr[p] # NoKey THEN qr ELSE [qr EXCEPT ![p] = k]

\* UpdateDevicePairingCredentials: by id only, whatever the row shows now.
StoredQR(p, k) == IF status[p] = "deleted" THEN qr ELSE [qr EXCEPT ![p] = k]

\* The second transaction; the answer shows the administrator the new key, or is lost.
PersistQR(a) ==
    /\ task[a].step = "qr"
    /\ qr' = StoredQR(task[a].of, task[a].key)
    /\ \/ shown' = [shown EXCEPT ![task[a].of] = task[a].key] /\ UNCHANGED mishaps
       \/ mishaps < MaxMishap /\ mishaps' = mishaps + 1 /\ UNCHANGED shown
    /\ task' = [task EXCEPT ![a] = Idle]
    /\ UNCHANGED <<status, keys, held, request, clock, disturbed>>

\* Either transaction fails; after the first one the key exists all the same.
RotateFails(a) ==
    /\ task[a].step # "idle" /\ mishaps < MaxMishap
    /\ disturbed' = IF task[a].step = "mint" THEN disturbed
                    ELSE [disturbed EXCEPT ![task[a].of] = @ \cup {"cut"}]
    /\ task' = [task EXCEPT ![a] = Idle]
    /\ mishaps' = mishaps + 1
    /\ UNCHANGED <<status, keys, qr, shown, held, request, clock>>

RevokePairing(p) ==
    /\ status[p] = "live"
    /\ status' = [status EXCEPT ![p] = "revoked"]
    /\ keys' = RevokeAll(keys, p, clock)
    /\ UNCHANGED <<qr, shown, held, task, request, clock, disturbed, mishaps>>

\* DeletePairing refuses a pairing that is not revoked.
DeletePairing(p) ==
    /\ status[p] = "revoked"
    /\ status' = [status EXCEPT ![p] = "deleted"]
    /\ keys' = Blank(keys, p)
    /\ qr' = [qr EXCEPT ![p] = NoKey]
    /\ UNCHANGED <<shown, held, task, request, clock, disturbed, mishaps>>

\* The key that can be shown again: none for a pairing that is not live.
ActiveCredentials(p) == IF status[p] = "live" THEN qr[p] ELSE NoKey

\* An administrator has the code shown again; the audit row commits first.
Reveal(p) ==
    /\ ActiveCredentials(p) \notin {NoKey, shown[p]}
    /\ shown' = [shown EXCEPT ![p] = ActiveCredentials(p)]
    /\ UNCHANGED <<status, keys, qr, held, task, request, clock, disturbed, mishaps>>

-----------------------------------------------------------------------------
(* The device.                                                             *)

\* A person has the device scan the code last shown, however old it is.
ScanCode(p) ==
    /\ shown[p] # held[p] /\ request[p] = NoRequest /\ mishaps < MaxMishap
    /\ held' = [held EXCEPT ![p] = shown[p]]
    /\ mishaps' = mishaps + 1
    /\ UNCHANGED <<status, keys, qr, shown, task, request, clock, disturbed>>

\* AgentChain: a key that is not accepted gets 401, and the device keeps it.
Admitted(p) == request[p] = NoRequest /\ Accepted(held[p])

\* KeyLookup's reads; a key awaiting its first use is adopted before the
\* request goes on.
KeyLookup(p) ==
    /\ Admitted(p)
    /\ request' = [request EXCEPT ![p] =
                    [step |-> IF keys[held[p]].awaiting THEN "adopt" ELSE "row",
                     key |-> held[p]]]
    /\ UNCHANGED <<status, keys, qr, shown, held, task, clock, disturbed, mishaps>>

\* Mutant: adoption is recorded but the older keys are left to their grace.
AdoptedOnly(rows, k, now) ==
    IF ~rows[k].awaiting THEN rows
    ELSE [rows EXCEPT ![k].awaiting = FALSE, ![k].adopted = TRUE, ![k].sealed = FALSE]

\* AdoptRotatedKey matches only a key still awaiting; the rest follows it.
Adopted(rows, k, now) ==
    IF ~rows[k].awaiting THEN rows
    ELSE LET used == [rows EXCEPT ![k].awaiting = FALSE, ![k].adopted = TRUE, ![k].sealed = FALSE]
         IN  RetireOlder(used, k, now)

adoptKey(p) ==
    /\ request[p].step = "adopt"
    /\ keys' = Adopted(keys, request[p].key, clock)
    /\ request' = [request EXCEPT ![p].step = "row"]
    /\ UNCHANGED <<status, qr, shown, held, task, clock, disturbed, mishaps>>

\* The adoption gives up after adoptKeyTimeout; the request goes on.
AdoptTimesOut(p) ==
    /\ request[p].step = "adopt" /\ mishaps < MaxMishap
    /\ request' = [request EXCEPT ![p].step = "row"]
    /\ mishaps' = mishaps + 1
    /\ UNCHANGED <<status, keys, qr, shown, held, task, clock, disturbed>>

\* PendingRotationFor looks the key up again.
HandshakeRow(p) ==
    /\ request[p].step = "row"
    /\ request' = [request EXCEPT ![p] = IF Accepted(@.key) THEN [@ EXCEPT !.step = "newer"]
                                         ELSE NoRequest]
    /\ UNCHANGED <<status, keys, qr, shown, held, task, clock, disturbed, mishaps>>

\* Mutant: the copy of a key that was minted first is looked for.
DeliveredOldest(k) ==
    LET later == {j \in KeysOf(keys[k].of) : Active(j) /\ Before(k, j)}
        n == IF later = {} THEN NoKey ELSE CHOOSE j \in later : \A i \in later : i = j \/ Before(j, i)
    IN  IF n # NoKey /\ keys[n].sealed THEN n ELSE NoKey

\* The key the answer carries, sealed for the device; none when the newest
\* key has no sealed copy (the device has to be paired again by its code).
Delivered(k) ==
    LET n == NewestAfter(k) IN IF n # NoKey /\ keys[n].sealed THEN n ELSE NoKey

\* ... then the newest key; a device that gets one presents it from now on.
Handshake(p) ==
    /\ request[p].step = "newer"
    /\ LET n == Delivered(request[p].key)
       IN  held' = IF n = NoKey THEN held ELSE [held EXCEPT ![p] = n]
    /\ request' = [request EXCEPT ![p] = NoRequest]
    /\ UNCHANGED <<status, keys, qr, shown, task, clock, disturbed, mishaps>>

\* The answer is lost on its way.
AnswerLost(p) ==
    /\ request[p].step # "none" /\ mishaps < MaxMishap
    /\ request' = [request EXCEPT ![p] = NoRequest]
    /\ mishaps' = mishaps + 1
    /\ UNCHANGED <<status, keys, qr, shown, held, task, clock, disturbed>>

-----------------------------------------------------------------------------
Tick ==
    /\ clock < MaxClock
    /\ clock' = clock + 1
    /\ UNCHANGED <<status, keys, qr, shown, held, task, request, disturbed, mishaps>>

\* The server stops: rotations and requests end where they are.
Restart ==
    /\ mishaps < MaxMishap
    /\ mishaps' = mishaps + 1
    /\ disturbed' = [p \in Pairing |->
                        IF \E a \in Admin : task[a].step = "qr" /\ task[a].of = p
                        THEN disturbed[p] \cup {"cut"} ELSE disturbed[p]]
    /\ task' = [a \in Admin |-> Idle]
    /\ request' = [p \in Pairing |-> NoRequest]
    /\ UNCHANGED <<status, keys, qr, shown, held, clock>>

RotationStep(a) == Mint(a) \/ PersistQR(a)

DeviceStep(p) == KeyLookup(p) \/ adoptKey(p) \/ HandshakeRow(p) \/ Handshake(p)

Next ==
    \/ \E p \in Pairing : \/ CreatePairing(p) \/ RevokePairing(p) \/ DeletePairing(p)
                          \/ Reveal(p) \/ ScanCode(p)
                          \/ DeviceStep(p) \/ AdoptTimesOut(p) \/ AnswerLost(p)
    \/ \E a \in Admin : \/ \E p \in Pairing : RotateKey(a, p)
                        \/ RotationStep(a) \/ RotateFails(a)
    \/ Tick
    \/ Restart

\* A rotation's transactions get their turn at the writer, and a device that
\* is switched on goes on making requests.
Fairness ==
    /\ \A a \in Admin : WF_vars(RotationStep(a))
    /\ \A p \in Pairing : WF_vars(DeviceStep(p))

Spec == Init /\ [][Next]_vars /\ Fairness

-----------------------------------------------------------------------------
(* Properties.                                                             *)

KeyRow == [of : Pairing, created : 0 .. MaxClock, expires : 0 .. Never,
           revoked : BOOLEAN, sealed : BOOLEAN, awaiting : BOOLEAN, adopted : BOOLEAN]

\* Every variable has its type.
TypeOK ==
    /\ status \in [Pairing -> {"none", "live", "revoked", "deleted"}]
    /\ keys \in Seq(KeyRow) /\ Len(keys) <= MaxKey
    /\ qr \in [Pairing -> KeyId \cup {NoKey}]
    /\ shown \in [Pairing -> KeyId \cup {NoKey}]
    /\ held \in [Pairing -> KeyId \cup {NoKey}]
    /\ task \in [Admin -> [step : {"idle", "mint", "qr"}, of : Pairing \cup {NoKey},
                           now : 0 .. MaxClock, key : KeyId \cup {NoKey}]]
    /\ request \in [Pairing -> [step : {"none", "adopt", "row", "newer"},
                                key : KeyId \cup {NoKey}]]
    /\ clock \in 0 .. MaxClock
    /\ disturbed \in [Pairing -> SUBSET {"overlap", "cut"}]
    /\ mishaps \in 0 .. MaxMishap

\* Once a device has made a request with a rotated key and its adoption is
\* recorded, no key minted before it is accepted any more, whatever
\* rotations, timeouts and restarts came between (adoptKey).
OldKeysStop ==
    \A k \in DOMAIN keys : keys[k].adopted =>
        \A j \in KeysOf(keys[k].of) : j < k => ~Active(j)

\* When no rotation is under way, the stored code shows the newest key,
\* unless rotations overlapped (the last writer wins) or one was cut short
\* between its two transactions.
QRFollows ==
    \A p \in Pairing :
        status[p] = "live" /\ Rotating(p) = {} /\ disturbed[p] = {}
            => \A k \in KeysOf(p) : k <= qr[p]

\* A device that goes on making requests with an accepted key ends on the
\* newest key of its pairing, and then no other key is accepted; rotations
\* that overlap are the exception (the time that orders the keys is read
\* before their transactions, so the newest by time may have lost its copy).
DeviceCatchesUp ==
    \A p \in Pairing : <>[](
        "overlap" \notin disturbed[p] /\ Accepted(held[p])
            => \A k \in KeysOf(p) : k # held[p] => k < held[p] /\ ~Active(k))
=============================================================================
