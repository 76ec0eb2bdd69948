---------------------------- MODULE Pairing_proofs ----------------------------
(***************************************************************************)
(* Proofs about Pairing for any number of pairings, of administrators, of  *)
(* keys and of seconds.                                                    *)
(***************************************************************************)
EXTENDS Pairing, SequenceTheorems, WellFoundedInduction, TLAPS

LEMMA Numbers ==
    /\ Grace \in Nat /\ Grace > 0 /\ MaxClock \in Nat /\ MaxKey \in Nat /\ MaxMishap \in Nat
    /\ Never \in Nat /\ \A t \in 0 .. MaxClock : t < Never /\ t + Grace \in 0 .. Never - 1
BY PairingAssumption DEF Never

----------------------------------------------------------------------------
\* The rows of keys.

\* A sequence stays one when each of its members is replaced.
LEMMA Replaced ==
    ASSUME NEW S, NEW s \in Seq(S), NEW f \in [DOMAIN s -> S]
    PROVE  f \in Seq(S) /\ Len(f) = Len(s) /\ DOMAIN f = DOMAIN s
<1>1. Len(s) \in Nat /\ DOMAIN s = 1 .. Len(s)
    BY LenProperties
<1>2. f \in [1 .. Len(s) -> S]
    BY <1>1
<1>3. QED
    BY <1>1, <1>2

\* A non-empty set of numbers has a least member.
LEMMA Least ==
    ASSUME NEW S \in SUBSET Nat, S # {}
    PROVE  \E m \in S : \A x \in S : m <= x
<1>1. PICK m \in S : \A x \in S : ~(<<x, m>> \in OpToRel(<, Nat))
    BY WFMin, NatLessThanWellFounded
<1>2. ASSUME NEW x \in S, x < m PROVE FALSE
  <2>1. <<x, m>> \in Nat \X Nat /\ <<x, m>>[1] < <<x, m>>[2]
    BY <1>2
  <2>2. <<x, m>> \in OpToRel(<, Nat)
    BY <2>1 DEF OpToRel
  <2>3. QED
    BY <1>1, <2>2
<1>3. QED
    BY <1>2

\* What a statement may do to a row: it keeps its pairing and its time, and an end
\* or a revocation is not taken back.
Ends(r, s) ==
    /\ s.of = r.of
    /\ r.revoked => s.revoked
    /\ r.expires # Never => s.expires <= r.expires

\* ... and it does not adopt a key.
Kept(rows, result) ==
    /\ result \in Seq(KeyRow) /\ Len(result) = Len(rows) /\ DOMAIN result = DOMAIN rows
    /\ \A k \in DOMAIN rows : Ends(rows[k], result[k])
                              /\ (result[k].adopted => rows[k].adopted)

LEMMA RowTypes ==
    ASSUME NEW p \in Pairing, NEW now \in 0 .. MaxClock
    PROVE  Row(p, now) \in KeyRow
BY Numbers DEF Row, KeyRow

LEMMA KeyRows ==
    ASSUME NEW rows \in Seq(KeyRow)
    PROVE  /\ DOMAIN rows = 1 .. Len(rows) /\ Len(rows) \in Nat
           /\ \A k \in DOMAIN rows : rows[k] \in KeyRow
BY LenProperties, ElementOfSeq

Becomes(r, s) == s \in KeyRow /\ Ends(r, s) /\ (s.adopted => r.adopted)

\* The changes the statements make to one row.
LEMMA RowChanges ==
    ASSUME NEW r \in KeyRow, NEW p \in Pairing, NEW now \in 0 .. MaxClock
    PROVE  /\ Becomes(r, r)
           /\ r.expires = Never => Becomes(r, [r EXCEPT !.expires = now + Grace])
           /\ Becomes(r, [r EXCEPT !.sealed = FALSE])
           /\ Becomes(r, [r EXCEPT !.revoked = TRUE, !.sealed = FALSE, !.awaiting = FALSE])
           /\ r.of = p => Becomes(r, [Row(p, 0) EXCEPT !.expires = 0, !.revoked = TRUE])
<1>0. Never \in Nat /\ now + Grace \in 0 .. Never /\ 0 \in 0 .. Never
    BY Numbers
<1>1. Becomes(r, r)
    BY <1>0 DEF Becomes, Ends, KeyRow
<1>2. ASSUME r.expires = Never
      PROVE  Becomes(r, [r EXCEPT !.expires = now + Grace])
  <2>1. [r EXCEPT !.expires = now + Grace] \in KeyRow
    BY <1>0 DEF KeyRow
  <2>2. /\ Ends(r, [r EXCEPT !.expires = now + Grace])
        /\ [r EXCEPT !.expires = now + Grace].adopted => r.adopted
    BY <1>0, <1>2 DEF KeyRow, Ends
  <2>3. QED
    BY <2>1, <2>2 DEF Becomes
<1>3. Becomes(r, [r EXCEPT !.sealed = FALSE])
  <2>1. [r EXCEPT !.sealed = FALSE] \in KeyRow
    BY <1>0 DEF KeyRow
  <2>2. Ends(r, [r EXCEPT !.sealed = FALSE]) /\ ([r EXCEPT !.sealed = FALSE].adopted => r.adopted)
    BY <1>0 DEF KeyRow, Ends
  <2>3. QED
    BY <2>1, <2>2 DEF Becomes
<1>4. Becomes(r, [r EXCEPT !.revoked = TRUE, !.sealed = FALSE, !.awaiting = FALSE])
  <2>1. [r EXCEPT !.revoked = TRUE, !.sealed = FALSE, !.awaiting = FALSE] \in KeyRow
    BY <1>0 DEF KeyRow
  <2>2. /\ Ends(r, [r EXCEPT !.revoked = TRUE, !.sealed = FALSE, !.awaiting = FALSE])
        /\ [r EXCEPT !.revoked = TRUE, !.sealed = FALSE, !.awaiting = FALSE].adopted
              => r.adopted
    BY <1>0 DEF KeyRow, Ends
  <2>3. QED
    BY <2>1, <2>2 DEF Becomes
<1>5. ASSUME r.of = p
      PROVE  Becomes(r, [Row(p, 0) EXCEPT !.expires = 0, !.revoked = TRUE])
  <2>1. 0 \in 0 .. MaxClock
    BY Numbers
  <2>2. Row(p, 0) \in KeyRow
    BY <2>1, RowTypes
  <2>3. [Row(p, 0) EXCEPT !.expires = 0, !.revoked = TRUE] \in KeyRow
    BY <1>0, <2>2 DEF KeyRow
  <2>4. /\ Ends(r, [Row(p, 0) EXCEPT !.expires = 0, !.revoked = TRUE])
        /\ ~[Row(p, 0) EXCEPT !.expires = 0, !.revoked = TRUE].adopted
    BY <1>0, <1>5 DEF KeyRow, Ends, Row
  <2>5. QED
    BY <2>3, <2>4 DEF Becomes
<1>6. QED
    BY <1>1, <1>2, <1>3, <1>4, <1>5

LEMMA BecomesKept ==
    ASSUME NEW rows \in Seq(KeyRow), NEW f, f = [k \in DOMAIN rows |-> f[k]],
           \A k \in DOMAIN rows : Becomes(rows[k], f[k])
    PROVE  Kept(rows, f)
<1>1. f \in [DOMAIN rows -> KeyRow]
    BY DEF Becomes
<1>2. QED
    BY <1>1, Replaced DEF Kept, Becomes

LEMMA StatementsKeep ==
    ASSUME NEW rows \in Seq(KeyRow), NEW p \in Pairing, NEW now \in 0 .. MaxClock
    PROVE  /\ Kept(rows, SetActiveKeyExpirations(rows, p, now + Grace))
           /\ Kept(rows, ClearSuperseded(rows, p))
           /\ Kept(rows, RevokeAll(rows, p, now))
           /\ Kept(rows, Blank(rows, p))
           /\ \A k \in DOMAIN rows : Kept(rows, RetireOlder(rows, k, now))
<1>2. ASSUME NEW k \in DOMAIN rows
      PROVE  /\ Becomes(rows[k], rows[k])
             /\ rows[k].expires = Never
                    => Becomes(rows[k], [rows[k] EXCEPT !.expires = now + Grace])
             /\ Becomes(rows[k], [rows[k] EXCEPT !.sealed = FALSE])
             /\ Becomes(rows[k], [rows[k] EXCEPT !.revoked = TRUE, !.sealed = FALSE,
                                                 !.awaiting = FALSE])
             /\ rows[k].of = p
                    => Becomes(rows[k], [Row(p, 0) EXCEPT !.expires = 0, !.revoked = TRUE])
    BY <1>2, KeyRows, RowChanges
<1>3. Kept(rows, SetActiveKeyExpirations(rows, p, now + Grace))
  <2> DEFINE f == SetActiveKeyExpirations(rows, p, now + Grace)
  <2>1. f = [k \in DOMAIN rows |-> f[k]]
    BY DEF SetActiveKeyExpirations
  <2>2. ASSUME NEW k \in DOMAIN rows PROVE Becomes(rows[k], f[k])
    BY <1>2 DEF SetActiveKeyExpirations
  <2>3. QED
    BY <2>1, <2>2, BecomesKept
<1>4. Kept(rows, ClearSuperseded(rows, p))
  <2> DEFINE f == ClearSuperseded(rows, p)
  <2>1. f = [k \in DOMAIN rows |-> f[k]]
    BY DEF ClearSuperseded
  <2>2. ASSUME NEW k \in DOMAIN rows PROVE Becomes(rows[k], f[k])
    BY <1>2 DEF ClearSuperseded
  <2>3. QED
    BY <2>1, <2>2, BecomesKept
<1>5. Kept(rows, RevokeAll(rows, p, now))
  <2> DEFINE f == RevokeAll(rows, p, now)
  <2>1. f = [k \in DOMAIN rows |-> f[k]]
    BY DEF RevokeAll
  <2>2. ASSUME NEW k \in DOMAIN rows PROVE Becomes(rows[k], f[k])
    BY <1>2 DEF RevokeAll
  <2>3. QED
    BY <2>1, <2>2, BecomesKept
<1>6. Kept(rows, Blank(rows, p))
  <2> DEFINE f == Blank(rows, p)
  <2>1. f = [k \in DOMAIN rows |-> f[k]]
    BY DEF Blank
  <2>2. ASSUME NEW k \in DOMAIN rows PROVE Becomes(rows[k], f[k])
    BY <1>2 DEF Blank
  <2>3. QED
    BY <2>1, <2>2, BecomesKept
<1>7. ASSUME NEW k \in DOMAIN rows PROVE Kept(rows, RetireOlder(rows, k, now))
  <2> DEFINE f == RetireOlder(rows, k, now)
  <2>1. f = [j \in DOMAIN rows |-> f[j]]
    BY DEF RetireOlder
  <2>2. ASSUME NEW j \in DOMAIN rows PROVE Becomes(rows[j], f[j])
    BY <1>2 DEF RetireOlder
  <2>3. QED
    BY <2>1, <2>2, BecomesKept
<1>8. QED
    BY <1>3, <1>4, <1>5, <1>6, <1>7

LEMMA EndsReflexive == ASSUME NEW r \in KeyRow PROVE Ends(r, r)
BY Numbers DEF Ends, KeyRow

LEMMA EndsTransitive ==
    ASSUME NEW r \in KeyRow, NEW s \in KeyRow, NEW t \in KeyRow, Ends(r, s), Ends(s, t)
    PROVE  Ends(r, t)
BY Numbers DEF Ends, KeyRow

\* The rows after the first transaction of a rotation.
LEMMA MintedRows ==
    ASSUME NEW rows \in Seq(KeyRow), NEW p \in Pairing, NEW now \in 0 .. MaxClock
    PROVE  LET new == Minted(rows, p, now)
           IN  /\ new \in Seq(KeyRow) /\ Len(new) = Len(rows) + 1
               /\ \A k \in DOMAIN rows : Ends(rows[k], new[k])
                                         /\ (new[k].adopted => rows[k].adopted)
               /\ new[Len(rows) + 1].of = p /\ ~new[Len(rows) + 1].adopted
<1> DEFINE ended == SetActiveKeyExpirations(rows, p, now + Grace)
           cleared == ClearSuperseded(ended, p)
           row == [Row(p, now) EXCEPT !.sealed = TRUE, !.awaiting = TRUE]
<1>1. Kept(rows, ended)
    BY StatementsKeep
<1>2. ended \in Seq(KeyRow)
    BY <1>1 DEF Kept
<1>3. Kept(ended, cleared)
    BY <1>2, StatementsKeep
<1>4. row \in KeyRow /\ row.of = p /\ ~row.adopted
    BY RowTypes DEF Row, KeyRow
<1> HIDE DEF ended, cleared, row
<1>5. \A k \in DOMAIN rows : Ends(rows[k], cleared[k])
                             /\ (cleared[k].adopted => rows[k].adopted)
  <2>1. ASSUME NEW k \in DOMAIN rows
        PROVE  rows[k] \in KeyRow /\ ended[k] \in KeyRow /\ cleared[k] \in KeyRow
    BY <1>1, <1>3, KeyRows DEF Kept
  <2>2. QED
    BY <2>1, <1>1, <1>3, EndsTransitive DEF Kept
<1>6. /\ cleared \in Seq(KeyRow) /\ Len(cleared) = Len(rows) /\ DOMAIN rows = 1 .. Len(rows)
      /\ Len(rows) \in Nat
    BY <1>1, <1>3, KeyRows DEF Kept
<1>7. /\ Append(cleared, row) \in Seq(KeyRow) /\ Len(Append(cleared, row)) = Len(rows) + 1
      /\ \A k \in DOMAIN rows : Append(cleared, row)[k] = cleared[k]
      /\ Append(cleared, row)[Len(rows) + 1] = row
  <2>1. /\ Append(cleared, row) \in Seq(KeyRow)
        /\ Len(Append(cleared, row)) = Len(cleared) + 1
        /\ \A k \in 1 .. Len(cleared) : Append(cleared, row)[k] = cleared[k]
        /\ Append(cleared, row)[Len(cleared) + 1] = row
    BY <1>4, <1>6, AppendProperties
  <2>2. QED
    BY <2>1, <1>6
<1>8. Minted(rows, p, now) = Append(cleared, row)
    BY DEF Minted, cleared, ended, row
<1>9. QED
    BY <1>4, <1>5, <1>7, <1>8

\* The rows after a key's adoption.
LEMMA AdoptedRows ==
    ASSUME NEW rows \in Seq(KeyRow), NEW k \in DOMAIN rows, NEW now \in 0 .. MaxClock
    PROVE  LET new == Adopted(rows, k, now)
           IN  /\ new \in Seq(KeyRow) /\ Len(new) = Len(rows)
               /\ \A j \in DOMAIN rows : Ends(rows[j], new[j])
               /\ \A j \in DOMAIN rows : new[j].adopted /\ ~rows[j].adopted =>
                    /\ j = k
                    /\ \A i \in DOMAIN rows : rows[i].of = rows[k].of /\ i < k =>
                            new[i].revoked \/ ~Unexpired(new[i], now)
<1>1. CASE ~rows[k].awaiting
  <2>1. Adopted(rows, k, now) = rows
    BY <1>1 DEF Adopted
  <2>2. \A j \in DOMAIN rows : Ends(rows[j], rows[j])
    BY KeyRows, EndsReflexive
  <2>3. QED
    BY <2>1, <2>2
<1>2. CASE rows[k].awaiting
  <2> DEFINE row == [rows[k] EXCEPT !.awaiting = FALSE, !.adopted = TRUE, !.sealed = FALSE]
             used == [rows EXCEPT ![k] = row]
             new == RetireOlder(used, k, now)
  <2>1. rows[k] \in KeyRow /\ k \in 1 .. Len(rows) /\ DOMAIN rows = 1 .. Len(rows)
    BY KeyRows
  <2>2. row \in KeyRow /\ Ends(rows[k], row)
    <3>1. row \in KeyRow
        BY <2>1 DEF KeyRow
    <3>2. Ends(rows[k], row)
        BY <2>1, Numbers DEF KeyRow, Ends
    <3>3. QED
        BY <3>1, <3>2
  <2>3. Adopted(rows, k, now) = new
    BY <1>2 DEF Adopted
  <2> HIDE DEF row
  <2>4. /\ used \in Seq(KeyRow) /\ Len(used) = Len(rows) /\ DOMAIN used = DOMAIN rows
        /\ \A j \in DOMAIN rows : used[j] = IF j = k THEN row ELSE rows[j]
    BY <2>1, <2>2, ExceptSeq, KeyRows
  <2> HIDE DEF used
  <2>5. PICK p \in Pairing : TRUE
    BY <2>1 DEF KeyRow
  <2>6. Kept(used, new)
    BY <2>4, <2>5, StatementsKeep
  <2>7. \A j \in DOMAIN rows : new[j] = IF used[j].of = used[k].of /\ j < k
                                           /\ ~used[j].revoked /\ Unexpired(used[j], now)
             THEN [used[j] EXCEPT !.revoked = TRUE, !.sealed = FALSE, !.awaiting = FALSE]
             ELSE used[j]
    BY <2>4 DEF RetireOlder
  <2>8. \A j \in DOMAIN rows : used[j] \in KeyRow
    BY <2>4, KeyRows
  <2> HIDE DEF new
  <2>9. ASSUME NEW i \in DOMAIN rows, rows[i].of = rows[k].of, i < k
        PROVE  new[i].revoked \/ ~Unexpired(new[i], now)
    <3>1. used[i].of = used[k].of
        BY <2>2, <2>4, <2>9 DEF Ends
    <3>2. CASE ~used[i].revoked /\ Unexpired(used[i], now)
      <4>1. new[i] = [used[i] EXCEPT !.revoked = TRUE, !.sealed = FALSE, !.awaiting = FALSE]
        BY <2>7, <2>9, <3>1, <3>2
      <4>2. [used[i] EXCEPT !.revoked = TRUE, !.sealed = FALSE, !.awaiting = FALSE].revoked
        BY <2>8, <2>9 DEF KeyRow
      <4>3. QED
        BY <4>1, <4>2
    <3>3. CASE used[i].revoked \/ ~Unexpired(used[i], now)
        BY <2>7, <3>3
    <3>4. QED
        BY <3>2, <3>3
  <2>10. \A j \in DOMAIN rows : Ends(rows[j], new[j])
    <3>1. ASSUME NEW j \in DOMAIN rows PROVE Ends(rows[j], used[j])
      <4>1. Ends(rows[j], rows[j])
        BY <3>1, KeyRows, EndsReflexive
      <4>2. QED
        BY <2>2, <2>4, <4>1
    <3>2. ASSUME NEW j \in DOMAIN rows PROVE Ends(rows[j], new[j])
        BY <3>1, <2>4, <2>6, <2>8, KeyRows, EndsTransitive DEF Kept
    <3>3. QED
        BY <3>2
  <2>11. ASSUME NEW j \in DOMAIN rows, new[j].adopted, ~rows[j].adopted PROVE j = k
    BY <2>4, <2>6, <2>11 DEF Kept
  <2>12. QED
    BY <2>3, <2>4, <2>6, <2>9, <2>10, <2>11 DEF Kept
<1>3. QED
    BY <1>1, <1>2

----------------------------------------------------------------------------
\* The inductive invariant.

\* A rotation is of a pairing that was created, a request is made with a key
\* that was minted.
TaskOf ==
    \A a \in Admin : task[a].step # "idle" =>
        task[a].of \in Pairing /\ status[task[a].of] # "none"

RequestOf == \A p \in Pairing : request[p].step # "none" => request[p].key \in DOMAIN keys

\* Two rotations of a pairing side by side are recorded as overlapping.
OneRotation ==
    \A a, b \in Admin :
        /\ a # b /\ task[a].step # "idle" /\ task[b].step # "idle" /\ task[a].of = task[b].of
        => disturbed[task[a].of] # {}

\* The stored code shows the newest key, or the one rotation under way will store it.
QRNext ==
    \A p \in Pairing : status[p] = "live" /\ disturbed[p] = {} =>
        /\ (\A a \in Rotating(p) : task[a].step = "mint") => \A k \in KeysOf(p) : k <= qr[p]
        /\ \A a \in Rotating(p) : task[a].step = "qr" =>
              \A k \in KeysOf(p) : k <= task[a].key

Inv == TypeOK /\ TaskOf /\ RequestOf /\ OldKeysStop /\ OneRotation /\ QRNext

----------------------------------------------------------------------------
\* What a step may do to the keys.

KeysMove ==
    /\ keys' \in Seq(KeyRow) /\ Len(keys') <= MaxKey /\ Len(keys) <= Len(keys')
    /\ \A k \in DOMAIN keys : Ends(keys[k], keys'[k])
    /\ \A k \in DOMAIN keys' : keys'[k].adopted =>
          /\ k \in DOMAIN keys
          /\ \/ keys[k].adopted
             \/ \A j \in KeysOf(keys[k].of) : j < k =>
                    keys'[j].revoked \/ ~Unexpired(keys'[j], clock)

LEMMA SameKeys == ASSUME TypeOK, UNCHANGED keys PROVE KeysMove
<1>1. /\ keys \in Seq(KeyRow) /\ Len(keys) <= MaxKey /\ Len(keys) \in Nat
      /\ \A k \in DOMAIN keys : keys[k] \in KeyRow
    BY KeyRows DEF TypeOK
<1>2. \A k \in DOMAIN keys : Ends(keys[k], keys[k])
    BY <1>1, EndsReflexive
<1>3. QED
    BY <1>1, <1>2 DEF KeysMove

LEMMA KeptKeys ==
    ASSUME TypeOK, Kept(keys, keys')
    PROVE  KeysMove
<1>1. Len(keys) \in Nat /\ Len(keys) <= MaxKey
    BY KeyRows DEF TypeOK
<1>2. QED
    BY <1>1 DEF Kept, KeysMove

LEMMA GrownKeys ==
    ASSUME TypeOK, Len(keys) < MaxKey,
           keys' \in Seq(KeyRow), Len(keys') = Len(keys) + 1,
           \A k \in DOMAIN keys : Ends(keys[k], keys'[k]) /\ (keys'[k].adopted => keys[k].adopted),
           ~keys'[Len(keys) + 1].adopted
    PROVE  KeysMove
<1>1. /\ DOMAIN keys = 1 .. Len(keys) /\ Len(keys) \in Nat
      /\ DOMAIN keys' = 1 .. Len(keys) + 1
    BY KeyRows DEF TypeOK
<1>2. \A k \in DOMAIN keys' : keys'[k].adopted => k \in DOMAIN keys
    BY <1>1
<1>3. QED
    BY <1>1, <1>2, Numbers DEF KeysMove

LEMMA KeySteps ==
    ASSUME TypeOK, TaskOf, RequestOf, [Next]_vars
    PROVE  KeysMove
<1>1. keys \in Seq(KeyRow) /\ clock \in 0 .. MaxClock
    BY DEF TypeOK
<1>2. CASE UNCHANGED keys
    BY <1>2, SameKeys
<1>3. ASSUME NEW p \in Pairing, CreatePairing(p) PROVE KeysMove
  <2>1. keys' = Append(keys, Row(p, clock)) /\ Len(keys) < MaxKey
    BY <1>3 DEF CreatePairing
  <2>2. Row(p, clock) \in KeyRow /\ ~Row(p, clock).adopted
    BY <1>1, RowTypes DEF Row
  <2>3. /\ keys' \in Seq(KeyRow) /\ Len(keys') = Len(keys) + 1
        /\ \A k \in 1 .. Len(keys) : keys'[k] = keys[k]
        /\ keys'[Len(keys) + 1] = Row(p, clock)
    BY <1>1, <2>1, <2>2, AppendProperties
  <2>4. \A k \in DOMAIN keys : Ends(keys[k], keys'[k]) /\ (keys'[k].adopted => keys[k].adopted)
    BY <1>1, <2>3, KeyRows, EndsReflexive
  <2>5. QED
    BY <2>1, <2>2, <2>3, <2>4, GrownKeys
<1>4. ASSUME NEW a \in Admin, Mint(a) PROVE KeysMove
  <2>1. CASE status[task[a].of] = "live" /\ Len(keys) < MaxKey
    <3>1. keys' = Minted(keys, task[a].of, task[a].now)
        BY <1>4, <2>1 DEF Mint
    <3>2. task[a].of \in Pairing /\ task[a].now \in 0 .. MaxClock
        BY <1>4 DEF Mint, TaskOf, TypeOK
    <3>3. QED
        BY <1>1, <2>1, <3>1, <3>2, MintedRows, GrownKeys
  <2>2. QED
    BY <1>2, <1>4, <2>1 DEF Mint
<1>5. ASSUME NEW p \in Pairing, RevokePairing(p) \/ DeletePairing(p) PROVE KeysMove
    BY <1>1, <1>5, StatementsKeep, KeptKeys, Numbers DEF RevokePairing, DeletePairing
<1>6. ASSUME NEW p \in Pairing, adoptKey(p) PROVE KeysMove
  <2>1. keys' = Adopted(keys, request[p].key, clock) /\ request[p].key \in DOMAIN keys
    BY <1>6 DEF adoptKey, RequestOf
  <2>2. /\ keys' \in Seq(KeyRow) /\ Len(keys') = Len(keys)
        /\ \A j \in DOMAIN keys : Ends(keys[j], keys'[j])
        /\ \A j \in DOMAIN keys : keys'[j].adopted /\ ~keys[j].adopted =>
             \A i \in DOMAIN keys : keys[i].of = keys[j].of /\ i < j =>
                 keys'[i].revoked \/ ~Unexpired(keys'[i], clock)
    BY <1>1, <2>1, AdoptedRows
  <2>3. Len(keys) <= MaxKey /\ Len(keys) \in Nat /\ DOMAIN keys' = DOMAIN keys
    BY <1>1, <2>2, KeyRows DEF TypeOK
  <2>4. QED
    BY <2>2, <2>3 DEF KeysMove, KeysOf
<1>7. QED
    BY <1>2, <1>3, <1>4, <1>5, <1>6
    DEF Next, vars, Reveal, ScanCode, DeviceStep, KeyLookup, HandshakeRow, Handshake,
        AdoptTimesOut, AnswerLost, RotateKey, RotationStep, PersistQR, RotateFails, Tick,
        Restart

\* An ended key never becomes active again, and time goes on: so the keys that an
\* adoption has stopped remain so.
LEMMA StaysInactive ==
    ASSUME TypeOK, KeysMove, clock' \in Nat, clock <= clock',
           NEW k \in DOMAIN keys, keys'[k].revoked \/ ~Unexpired(keys[k], clock) \/ keys[k].revoked
    PROVE  ~Active(k)'
<1>1. keys[k] \in KeyRow /\ clock \in 0 .. MaxClock
    BY KeyRows DEF TypeOK
<1>2. keys'[k] \in KeyRow /\ Ends(keys[k], keys'[k])
    <2>1. DOMAIN keys \subseteq DOMAIN keys'
        BY KeyRows DEF KeysMove, TypeOK
    <2>2. QED
        BY <2>1, KeyRows DEF KeysMove
<1>3. clock < Never /\ Never \in Nat
    BY <1>1, Numbers
<1>4. QED
    BY <1>1, <1>2, <1>3 DEF Active, Unexpired, Ends, KeyRow

\* The clock only goes on.
LEMMA ClockSteps ==
    ASSUME TypeOK, [Next]_vars
    PROVE  clock' \in 0 .. MaxClock /\ clock <= clock'
<1>1. clock \in 0 .. MaxClock /\ MaxClock \in Nat
    BY Numbers DEF TypeOK
<1>2. clock' = clock \/ (clock < MaxClock /\ clock' = clock + 1)
    BY DEF Next, vars, CreatePairing, RevokePairing, DeletePairing, Reveal, ScanCode, DeviceStep,
           KeyLookup, adoptKey, HandshakeRow, Handshake, AdoptTimesOut, AnswerLost, RotateKey,
           RotationStep, Mint, PersistQR, RotateFails, Tick, Restart
<1>3. QED
    BY <1>1, <1>2

LEMMA StopsStep ==
    ASSUME TypeOK, OldKeysStop, KeysMove, clock' \in 0 .. MaxClock, clock <= clock'
    PROVE  OldKeysStop'
<1>1. /\ DOMAIN keys = 1 .. Len(keys) /\ DOMAIN keys' = 1 .. Len(keys')
      /\ Len(keys) \in Nat /\ Len(keys') \in Nat /\ clock' \in Nat
      /\ \A k \in DOMAIN keys : k \in DOMAIN keys' /\ keys'[k].of = keys[k].of
    BY KeyRows, Numbers DEF TypeOK, KeysMove, Ends
<1>2. ASSUME NEW k \in DOMAIN keys', keys'[k].adopted,
             NEW j \in DOMAIN keys', keys'[j].of = keys'[k].of, j < k
      PROVE  ~Active(j)'
  <2>1. /\ k \in DOMAIN keys
        /\ \/ keys[k].adopted
           \/ \A i \in KeysOf(keys[k].of) : i < k => keys'[i].revoked \/ ~Unexpired(keys'[i], clock)
    BY <1>2 DEF KeysMove
  <2>2. j \in DOMAIN keys /\ j \in KeysOf(keys[k].of)
    BY <1>1, <1>2, <2>1 DEF KeysOf
  <2>3. CASE keys[k].adopted
    <3>1. keys[j].revoked \/ ~Unexpired(keys[j], clock)
        BY <1>2, <2>1, <2>2, <2>3 DEF OldKeysStop, Active
    <3>2. QED
        BY <1>1, <2>2, <3>1, StaysInactive
  <2>4. CASE keys'[j].revoked \/ ~Unexpired(keys'[j], clock)
    <3>1. keys'[j] \in KeyRow /\ clock \in Nat
        BY <1>2, KeyRows, Numbers DEF KeysMove, TypeOK
    <3>2. QED
        BY <1>1, <2>4, <3>1, Numbers DEF Active, Unexpired, KeyRow
  <2>5. QED
    BY <1>2, <2>1, <2>2, <2>3, <2>4
<1>3. QED
    BY <1>2 DEF OldKeysStop, KeysOf

----------------------------------------------------------------------------
\* Types.

\* The newest of the keys after another is one of them: the order by time and
\* number has a last member.
LEMMA NewestIsKey ==
    ASSUME TypeOK, NEW k \in DOMAIN keys
    PROVE  NewestAfter(k) \in DOMAIN keys \cup {NoKey}
<1> DEFINE later == {j \in KeysOf(keys[k].of) : Active(j) /\ Before(k, j)}
           Last(j) == \A i \in later : i = j \/ Before(i, j)
<1>1. /\ DOMAIN keys = 1 .. Len(keys) /\ Len(keys) \in Nat /\ later \subseteq DOMAIN keys
      /\ \A j \in DOMAIN keys : keys[j].created \in 0 .. MaxClock
    BY KeyRows DEF TypeOK, KeyRow, KeysOf
<1>2. ASSUME later # {} PROVE \E j \in later : Last(j)
  <2> DEFINE times == {MaxClock - keys[j].created : j \in later}
  <2>1. times \in SUBSET Nat /\ times # {}
    BY <1>1, <1>2, Numbers
  <2>2. PICK t \in times : \A x \in times : t <= x
    BY <2>1, Least
  <2> DEFINE latest == {j \in later : MaxClock - keys[j].created = t}
             places == {Len(keys) - j : j \in latest}
  <2>3. places \in SUBSET Nat /\ places # {}
    BY <1>1, <2>2
  <2>4. PICK q \in places : \A x \in places : q <= x
    BY <2>3, Least
  <2>5. PICK j \in latest : Len(keys) - j = q
    BY <2>4
  <2>6. ASSUME NEW i \in later, i # j PROVE Before(i, j)
    <3>1. t <= MaxClock - keys[i].created /\ t = MaxClock - keys[j].created
        BY <2>2, <2>5, <2>6
    <3>2. keys[i].created = keys[j].created => q <= Len(keys) - i
        BY <2>4, <2>5, <2>6
    <3>3. i \in Nat /\ j \in Nat /\ keys[i].created \in Nat /\ keys[j].created \in Nat
        BY <1>1, <2>5, <2>6, Numbers
    <3>4. QED
        BY <1>1, <2>5, <2>6, <3>1, <3>2, <3>3, Numbers, SMTT(30) DEF Before
  <2>7. QED
    BY <2>5, <2>6
<1>3. CASE later = {}
    BY <1>3 DEF NewestAfter
<1>4. CASE later # {}
  <2>1. NewestAfter(k) = CHOOSE j \in later : Last(j)
    BY <1>4 DEF NewestAfter
  <2>2. QED
    BY <1>1, <1>2, <1>4, <2>1
<1>5. QED
    BY <1>3, <1>4

Key == KeyId \cup {NoKey}

LEMMA KeyIds ==
    ASSUME TypeOK
    PROVE  /\ \A k \in DOMAIN keys : k \in Key
           /\ NoKey \in Key
           /\ KeysMove => \A k \in DOMAIN keys' : k \in Key
           /\ KeysMove => DOMAIN keys \subseteq DOMAIN keys'
<1>1. DOMAIN keys = 1 .. Len(keys) /\ Len(keys) \in Nat /\ Len(keys) <= MaxKey
    BY KeyRows DEF TypeOK
<1>2. KeysMove => DOMAIN keys' = 1 .. Len(keys') /\ Len(keys') \in Nat
    BY KeyRows DEF KeysMove
<1>3. QED
    BY <1>1, <1>2, Numbers DEF Key, KeyId, KeysMove

TaskSet == [step : {"idle", "mint", "qr"}, of : Pairing \cup {NoKey},
            now : 0 .. MaxClock, key : Key]

RequestSet == [step : {"none", "adopt", "row", "newer"}, key : Key]

\* The variables other than keys and clock.
Rest ==
    /\ status \in [Pairing -> {"none", "live", "revoked", "deleted"}]
    /\ qr \in [Pairing -> Key] /\ shown \in [Pairing -> Key] /\ held \in [Pairing -> Key]
    /\ task \in [Admin -> TaskSet]
    /\ request \in [Pairing -> RequestSet]
    /\ disturbed \in [Pairing -> SUBSET {"overlap", "cut"}]
    /\ mishaps \in 0 .. MaxMishap

LEMMA RestTypes == TypeOK => Rest
BY DEF TypeOK, Rest, TaskSet, RequestSet, Key

LEMMA Idles == Idle \in TaskSet /\ NoRequest \in RequestSet
BY Numbers DEF Idle, NoRequest, TaskSet, RequestSet, Key

LEMMA DeliveredKey ==
    ASSUME TypeOK, NEW k \in DOMAIN keys
    PROVE  Delivered(k) \in Key
BY NewestIsKey, KeyIds DEF Delivered

\* The administrators' steps keep the types of what they change.
LEMMA AdminTypes ==
    ASSUME TypeOK, TaskOf, KeysMove,
           \/ \E p \in Pairing : CreatePairing(p) \/ RevokePairing(p) \/ DeletePairing(p)
                                 \/ Reveal(p)
           \/ \E a \in Admin : (\E p \in Pairing : RotateKey(a, p)) \/ RotationStep(a)
                               \/ RotateFails(a)
    PROVE  Rest'
<1>1. Rest /\ clock \in 0 .. MaxClock
    BY RestTypes DEF TypeOK
<1>2. ASSUME NEW p \in Pairing, CreatePairing(p) PROVE Rest'
  <2>1. Len(keys') \in DOMAIN keys'
    <3>1. keys' # <<>> /\ keys' \in Seq(KeyRow)
      <4>1. Row(p, clock) \in KeyRow /\ keys \in Seq(KeyRow)
        BY <1>1, RowTypes DEF TypeOK
      <4>2. keys' = Append(keys, Row(p, clock))
        BY <1>2 DEF CreatePairing
      <4>3. QED
        BY <4>1, <4>2, AppendProperties
    <3>2. QED
        BY <3>1, EmptySeq, LenProperties
  <2>2. Len(keys') \in Key
    BY <2>1, KeyIds
  <2>3. QED
    BY <1>1, <1>2, <2>2 DEF CreatePairing, Rest
<1>3. ASSUME NEW p \in Pairing, RevokePairing(p) \/ DeletePairing(p) \/ Reveal(p) PROVE Rest'
    BY <1>1, <1>3, KeyIds DEF RevokePairing, DeletePairing, Reveal, ActiveCredentials, Rest
<1>4. ASSUME NEW a \in Admin, NEW p \in Pairing, RotateKey(a, p) PROVE Rest'
  <2>1. [step |-> "mint", of |-> p, now |-> clock, key |-> NoKey] \in TaskSet
    BY <1>1, KeyIds DEF TaskSet
  <2>2. QED
    BY <1>1, <1>4, <2>1 DEF RotateKey, Rest
<1>5. ASSUME NEW a \in Admin, Mint(a) PROVE Rest'
  <2>1. CASE task' = [task EXCEPT ![a] = Idle]
    BY <1>1, <1>5, <2>1, Idles DEF Mint, Rest
  <2>2. CASE keys' = Minted(keys, task[a].of, task[a].now)
             /\ task' = [task EXCEPT ![a].step = "qr", ![a].key = Len(keys')]
    <3>1. task[a].of \in Pairing /\ task[a].now \in 0 .. MaxClock /\ keys \in Seq(KeyRow)
        BY <1>5 DEF Mint, TaskOf, TypeOK
    <3>2. Len(keys') = Len(keys) + 1 /\ Len(keys) \in Nat /\ keys' \in Seq(KeyRow)
        BY <2>2, <3>1, MintedRows, KeyRows
    <3>3. Len(keys') \in Key
        BY <3>2, KeyIds, KeyRows
    <3>4. task' \in [Admin -> TaskSet]
        BY <1>1, <2>2, <3>3, ZenonT(60) DEF Rest, TaskSet
    <3>5. QED
        BY <1>1, <1>5, <3>4 DEF Mint, Rest
  <2>3. QED
    BY <1>5, <2>1, <2>2 DEF Mint
<1>6. ASSUME NEW a \in Admin, PersistQR(a) PROVE Rest'
  <2>1. task[a].of \in Pairing /\ task[a].key \in Key
    BY <1>1, <1>6 DEF PersistQR, TaskOf, Rest, TaskSet
  <2>2. /\ qr' \in [Pairing -> Key] /\ shown' \in [Pairing -> Key]
        /\ mishaps' \in 0 .. MaxMishap
    BY <1>1, <1>6, <2>1, Numbers DEF PersistQR, StoredQR, Rest
  <2>3. task' \in [Admin -> TaskSet]
    BY <1>1, <1>6, Idles DEF PersistQR, Rest
  <2>4. QED
    BY <1>1, <1>6, <2>2, <2>3 DEF PersistQR, Rest
<1>7. ASSUME NEW a \in Admin, RotateFails(a) PROVE Rest'
  <2>1. task' \in [Admin -> TaskSet] /\ mishaps' \in 0 .. MaxMishap
    BY <1>1, <1>7, Idles, Numbers DEF RotateFails, Rest
  <2>2. disturbed' \in [Pairing -> SUBSET {"overlap", "cut"}]
    BY <1>1, <1>7 DEF RotateFails, Rest
  <2>3. QED
    BY <1>1, <1>7, <2>1, <2>2 DEF RotateFails, Rest
<1>8. QED
    BY <1>2, <1>3, <1>4, <1>5, <1>6, <1>7 DEF RotationStep

\* So do those of the devices.
LEMMA DeviceTypes ==
    ASSUME TypeOK, RequestOf,
           NEW p \in Pairing, DeviceStep(p) \/ ScanCode(p) \/ AdoptTimesOut(p) \/ AnswerLost(p)
    PROVE  Rest'
<1>1. Rest
    BY RestTypes
<1>2. mishaps' \in 0 .. MaxMishap
    BY <1>1, Numbers DEF DeviceStep, KeyLookup, adoptKey, HandshakeRow, Handshake, ScanCode,
                         AdoptTimesOut, AnswerLost, Rest
<1>3. CASE KeyLookup(p)
  <2>1. [step |-> IF keys[held[p]].awaiting THEN "adopt" ELSE "row", key |-> held[p]]
            \in RequestSet
    BY <1>1 DEF Rest, RequestSet
  <2>2. QED
    BY <1>1, <1>3, <2>1 DEF KeyLookup, Rest
<1>4. CASE adoptKey(p)
  <2>1. request' \in [Pairing -> RequestSet]
    BY <1>1, <1>4 DEF adoptKey, Rest, RequestSet
  <2>2. QED
    BY <1>1, <1>4, <2>1 DEF adoptKey, Rest
<1>5. CASE HandshakeRow(p)
  <2>1. request' \in [Pairing -> RequestSet]
    BY <1>1, <1>5, Idles DEF HandshakeRow, Rest, RequestSet
  <2>2. QED
    BY <1>1, <1>5, <2>1 DEF HandshakeRow, Rest
<1>6. CASE Handshake(p)
  <2>1. Delivered(request[p].key) \in Key
    BY <1>6, DeliveredKey DEF Handshake, RequestOf
  <2>2. QED
    BY <1>1, <1>6, <2>1, Idles DEF Handshake, Rest
<1>7. CASE ScanCode(p)
    BY <1>1, <1>2, <1>7 DEF ScanCode, Rest
<1>8. CASE AdoptTimesOut(p)
  <2>1. request' \in [Pairing -> RequestSet]
    BY <1>1, <1>8 DEF AdoptTimesOut, Rest, RequestSet
  <2>2. QED
    BY <1>1, <1>2, <1>8, <2>1 DEF AdoptTimesOut, Rest
<1>9. CASE AnswerLost(p)
    BY <1>1, <1>2, <1>9, Idles DEF AnswerLost, Rest
<1>10. QED
    BY <1>3, <1>4, <1>5, <1>6, <1>7, <1>8, <1>9 DEF DeviceStep

LEMMA TypeStep ==
    ASSUME TypeOK, TaskOf, RequestOf, [Next]_vars
    PROVE  TypeOK'
<1>1. KeysMove /\ clock' \in 0 .. MaxClock
    BY KeySteps, ClockSteps
<1>2. Rest
    BY RestTypes
<1>3. ASSUME UNCHANGED <<status, qr, shown, held, task, request, disturbed, mishaps>>
      PROVE  Rest'
    BY <1>2, <1>3 DEF Rest
<1>4. ASSUME Restart PROVE Rest'
  <2>1. task' \in [Admin -> TaskSet] /\ request' \in [Pairing -> RequestSet]
    BY <1>4, Idles DEF Restart
  <2>2. mishaps' \in 0 .. MaxMishap
    BY <1>2, <1>4, Numbers DEF Restart, Rest
  <2>3. disturbed' \in [Pairing -> SUBSET {"overlap", "cut"}]
    BY <1>2, <1>4 DEF Restart, Rest
  <2>4. QED
    BY <1>2, <1>4, <2>1, <2>2, <2>3 DEF Restart, Rest
<1>5. Rest'
  <2>1. CASE Tick \/ UNCHANGED vars
    BY <1>3, <2>1 DEF Tick, vars
  <2>2. ASSUME NEW p \in Pairing,
               DeviceStep(p) \/ ScanCode(p) \/ AdoptTimesOut(p) \/ AnswerLost(p)
        PROVE  Rest'
    BY <2>2, DeviceTypes
  <2>3. QED
    BY <1>1, <1>4, <2>1, <2>2, AdminTypes DEF Next
<1>6. QED
    BY <1>1, <1>5 DEF KeysMove, Rest, TypeOK, TaskSet, RequestSet, Key

----------------------------------------------------------------------------
\* Which rotations are under way, and of what.

\* A step starts at most one rotation; it ends or moves at most one, or all end.
TasksGoOn ==
    /\ \A a \in Admin : task'[a].step # "idle" =>
            task[a].step # "idle" /\ task'[a].of = task[a].of
    /\ \A p \in Pairing : disturbed[p] \subseteq disturbed'[p]

LEMMA TaskMoves ==
    ASSUME TypeOK, TaskOf, [Next]_vars
    PROVE  /\ \A p \in Pairing : status[p] # "none" => status'[p] # "none"
           /\ TasksGoOn \/ \E a \in Admin, p \in Pairing : RotateKey(a, p)
<1>1. Rest
    BY RestTypes
<1>2. ASSUME UNCHANGED <<status, task, disturbed>>
      PROVE  (\A p \in Pairing : status[p] # "none" => status'[p] # "none") /\ TasksGoOn
    BY <1>2 DEF TasksGoOn
<1>3. ASSUME NEW p \in Pairing, CreatePairing(p) \/ RevokePairing(p) \/ DeletePairing(p)
      PROVE  (\A q \in Pairing : status[q] # "none" => status'[q] # "none") /\ TasksGoOn
    BY <1>1, <1>3 DEF CreatePairing, RevokePairing, DeletePairing, Rest, TasksGoOn
<1>4. ASSUME NEW a \in Admin, NEW p \in Pairing, RotateKey(a, p)
      PROVE  \A q \in Pairing : status[q] # "none" => status'[q] # "none"
    BY <1>4 DEF RotateKey
<1>5. ASSUME NEW a \in Admin, RotationStep(a) \/ RotateFails(a)
      PROVE  (\A p \in Pairing : status[p] # "none" => status'[p] # "none") /\ TasksGoOn
  <2>1. task[a].step # "idle" /\ task[a].of \in Pairing /\ UNCHANGED status
    BY <1>5 DEF RotationStep, Mint, PersistQR, RotateFails, TaskOf
  <2>2. \A p \in Pairing : disturbed[p] \subseteq disturbed'[p]
    BY <1>1, <1>5, <2>1 DEF RotationStep, Mint, PersistQR, RotateFails, Rest
  <2>3. \A b \in Admin : b # a => task'[b] = task[b]
    BY <1>1, <1>5 DEF RotationStep, Mint, PersistQR, RotateFails, Rest
  <2>4. task'[a] = Idle \/ task'[a].of = task[a].of
    BY <1>1, <1>5 DEF RotationStep, Mint, PersistQR, RotateFails, Rest, TaskSet
  <2>5. QED
    BY <2>1, <2>2, <2>3, <2>4 DEF TasksGoOn, Idle
<1>6. ASSUME Restart
      PROVE  (\A p \in Pairing : status[p] # "none" => status'[p] # "none") /\ TasksGoOn
    BY <1>1, <1>6 DEF Restart, Idle, Rest, TasksGoOn
<1>7. QED
    BY <1>2, <1>3, <1>4, <1>5, <1>6
    DEF Next, vars, Reveal, ScanCode, DeviceStep, KeyLookup, adoptKey, HandshakeRow, Handshake,
        AdoptTimesOut, AnswerLost, Tick

LEMMA TaskOfStep ==
    ASSUME TypeOK, TaskOf, [Next]_vars
    PROVE  TaskOf'
<1>1. CASE TasksGoOn
    BY <1>1, TaskMoves DEF TaskOf, TasksGoOn
<1>2. ASSUME NEW a \in Admin, NEW p \in Pairing, RotateKey(a, p) PROVE TaskOf'
  <2>1. \A b \in Admin : b # a => task'[b] = task[b]
    BY <1>2 DEF RotateKey, TypeOK
  <2>2. task'[a].of = p /\ status'[p] # "none"
    BY <1>2 DEF RotateKey, TypeOK
  <2>3. QED
    BY <2>1, <2>2, TaskMoves DEF TaskOf
<1>3. QED
    BY <1>1, <1>2, TaskMoves

LEMMA RequestOfStep ==
    ASSUME TypeOK, RequestOf, KeysMove, [Next]_vars
    PROVE  RequestOf'
<1>1. Rest /\ DOMAIN keys \subseteq DOMAIN keys'
    BY RestTypes, KeyIds
<1>2. \A p \in Pairing : request'[p].step # "none" =>
            \/ request[p].step # "none" /\ request'[p].key = request[p].key
            \/ request'[p].key \in DOMAIN keys
  <2>1. CASE UNCHANGED request
    BY <2>1
  <2>2. ASSUME NEW p \in Pairing, DeviceStep(p) \/ AdoptTimesOut(p) \/ AnswerLost(p),
               NEW q \in Pairing, request'[q].step # "none"
        PROVE  \/ request[q].step # "none" /\ request'[q].key = request[q].key
               \/ request'[q].key \in DOMAIN keys
    <3>1. CASE q # p
        BY <1>1, <2>2, <3>1 DEF DeviceStep, KeyLookup, adoptKey, HandshakeRow, Handshake,
                                AdoptTimesOut, AnswerLost, Rest
    <3>2. CASE q = p /\ KeyLookup(p)
        BY <1>1, <2>2, <3>2 DEF KeyLookup, Admitted, Accepted, Rest
    <3>3. CASE q = p /\ (adoptKey(p) \/ AdoptTimesOut(p))
        BY <1>1, <2>2, <3>3 DEF adoptKey, AdoptTimesOut, Rest, RequestSet
    <3>4. CASE q = p /\ HandshakeRow(p)
      <4>1. request'[p] \in {[request[p] EXCEPT !.step = "newer"], NoRequest}
        BY <1>1, <3>4 DEF HandshakeRow, Rest
      <4>2. request'[p].step # "none" => request'[p] = [request[p] EXCEPT !.step = "newer"]
        BY <4>1 DEF NoRequest
      <4>3. request[p].step = "row"
        BY <3>4 DEF HandshakeRow
      <4>4. QED
        BY <1>1, <2>2, <3>4, <4>2, <4>3 DEF Rest, RequestSet
    <3>5. CASE q = p /\ (Handshake(p) \/ AnswerLost(p))
        BY <1>1, <2>2, <3>5 DEF Handshake, AnswerLost, NoRequest, Rest
    <3>6. QED
        BY <2>2, <3>1, <3>2, <3>3, <3>4, <3>5 DEF DeviceStep
  <2>3. CASE Restart
    BY <2>3 DEF Restart, NoRequest
  <2>4. QED
    BY <2>1, <2>2, <2>3
    DEF Next, vars, CreatePairing, RevokePairing, DeletePairing, Reveal, ScanCode, RotateKey,
        RotationStep, Mint, PersistQR, RotateFails, Tick
<1>3. QED
    BY <1>1, <1>2 DEF RequestOf

LEMMA OneRotationStep ==
    ASSUME TypeOK, TaskOf, OneRotation, [Next]_vars
    PROVE  OneRotation'
<1>1. CASE TasksGoOn
    BY <1>1 DEF OneRotation, TasksGoOn, TaskOf
<1>2. ASSUME NEW a \in Admin, NEW p \in Pairing, RotateKey(a, p) PROVE OneRotation'
  <2>1. \A b \in Admin : b # a => task'[b] = task[b]
    BY <1>2 DEF RotateKey, TypeOK
  <2>2. task'[a].of = p
    BY <1>2 DEF RotateKey, TypeOK
  <2>3. \A q \in Pairing : disturbed[q] \subseteq disturbed'[q]
    BY <1>2 DEF RotateKey, TypeOK
  <2>4. ASSUME NEW b \in Admin, b # a, task[b].step # "idle", task[b].of = p
        PROVE  disturbed'[p] # {}
    <3>1. Rotating(p) # {}
        BY <2>4 DEF Rotating
    <3>2. QED
        BY <1>2, <3>1 DEF RotateKey, TypeOK
  <2>5. QED
    BY <2>1, <2>2, <2>3, <2>4 DEF OneRotation, TaskOf
<1>3. QED
    BY <1>1, <1>2, TaskMoves

----------------------------------------------------------------------------
\* The stored code.

LEMMA SameNumber ==
    ASSUME TypeOK, KeysMove, Len(keys') = Len(keys)
    PROVE  \A p \in Pairing : KeysOf(p)' = KeysOf(p)
<1>1. DOMAIN keys' = DOMAIN keys /\ \A k \in DOMAIN keys : keys'[k].of = keys[k].of
    BY KeyRows DEF TypeOK, KeysMove, Ends
<1>2. QED
    BY <1>1 DEF KeysOf

\* A key more of q.
LEMMA OneMore ==
    ASSUME TypeOK, KeysMove, Len(keys') = Len(keys) + 1,
           NEW q \in Pairing, keys'[Len(keys) + 1].of = q
    PROVE  /\ \A p \in Pairing : p # q => KeysOf(p)' = KeysOf(p)
           /\ \A k \in KeysOf(q)' : k <= Len(keys')
<1>1. /\ DOMAIN keys = 1 .. Len(keys) /\ Len(keys) \in Nat
      /\ DOMAIN keys' = 1 .. Len(keys) + 1
      /\ \A k \in DOMAIN keys : keys'[k].of = keys[k].of
    BY KeyRows DEF TypeOK, KeysMove, Ends
<1>2. QED
    BY <1>1 DEF KeysOf

QRHeld(p) ==
    status[p] = "live" /\ disturbed[p] = {} =>
        /\ (\A a \in Rotating(p) : task[a].step = "mint") => \A k \in KeysOf(p) : k <= qr[p]
        /\ \A a \in Rotating(p) : task[a].step = "qr" => \A k \in KeysOf(p) : k <= task[a].key

\* A step that is not about p's rotations, keys and code.
LEMMA QRAside ==
    ASSUME NEW p \in Pairing, QRHeld(p),
           status'[p] = "live" /\ disturbed'[p] = {} =>
               /\ status[p] = "live" /\ disturbed[p] = {} /\ qr'[p] = qr[p]
               /\ KeysOf(p)' = KeysOf(p)
               /\ Rotating(p)' = Rotating(p)
               /\ \A a \in Rotating(p) : task'[a] = task[a]
    PROVE  QRHeld(p)'
BY DEF QRHeld

\* The rotation a ends without a new key.
LEMMA QRDropped ==
    ASSUME TypeOK, NEW p \in Pairing, QRHeld(p),
           NEW a \in Admin, task[a].step = "mint", task' = [task EXCEPT ![a] = Idle],
           status' = status, disturbed' = disturbed, qr' = qr, KeysOf(p)' = KeysOf(p)
    PROVE  QRHeld(p)'
<1>1. /\ \A b \in Admin : b # a => task'[b] = task[b]
      /\ task'[a].step = "idle"
    BY DEF TypeOK, Idle
<1>2. \A b \in Admin : b \in Rotating(p)' <=> b \in Rotating(p) /\ b # a
    BY <1>1 DEF Rotating
<1>3. QED
    BY <1>1, <1>2 DEF QRHeld, Rotating

LEMMA QRAdmin ==
    ASSUME TypeOK, TaskOf, OneRotation, KeysMove, NEW p \in Pairing, QRHeld(p),
           NEW a \in Admin,
           (\E q \in Pairing : RotateKey(a, q)) \/ RotationStep(a) \/ RotateFails(a)
    PROVE  QRHeld(p)'
<1>1. Rest
    BY RestTypes
<1>2. \A b \in Admin : b # a => task'[b] = task[b]
    BY <1>1 DEF RotateKey, RotationStep, Mint, PersistQR, RotateFails, Rest
<1>3. keys' = keys => KeysOf(p)' = KeysOf(p)
    BY DEF KeysOf
<1>4. ASSUME NEW q \in Pairing, RotateKey(a, q) PROVE QRHeld(p)'
  <2>1. task'[a].step = "mint" /\ task'[a].of = q /\ task[a].step = "idle"
    BY <1>1, <1>4 DEF RotateKey, Rest
  <2>2. UNCHANGED <<status, qr>> /\ KeysOf(p)' = KeysOf(p)
    BY <1>3, <1>4 DEF RotateKey
  <2>3. CASE p # q
    <3>1. disturbed'[p] = disturbed[p]
        BY <1>1, <1>4, <2>3 DEF RotateKey, Rest
    <3>2. Rotating(p)' = Rotating(p) /\ a \notin Rotating(p)
        BY <1>2, <2>1, <2>3 DEF Rotating
    <3>3. QED
        BY <1>2, <2>2, <3>1, <3>2, QRAside DEF Rotating
  <2>4. CASE p = q /\ Rotating(p) = {}
    <3>1. disturbed' = disturbed
        BY <1>4, <2>4 DEF RotateKey
    <3>2. \A b \in Rotating(p)' : b = a
        BY <1>2, <2>4 DEF Rotating
    <3>3. QED
        BY <2>1, <2>2, <2>4, <3>1, <3>2 DEF QRHeld
  <2>5. CASE p = q /\ Rotating(p) # {}
    <3>1. disturbed'[p] # {}
        BY <1>1, <1>4, <2>5 DEF RotateKey, Rest
    <3>2. QED
        BY <3>1 DEF QRHeld
  <2>6. QED
    BY <2>3, <2>4, <2>5
<1>5. ASSUME Mint(a) PROVE QRHeld(p)'
  <2>1. task[a].step = "mint" /\ UNCHANGED <<status, qr, disturbed>> /\ task[a].of \in Pairing
    BY <1>5 DEF Mint, TaskOf
  <2>2. CASE keys' = keys /\ task' = [task EXCEPT ![a] = Idle]
    BY <1>3, <2>1, <2>2, QRDropped
  <2>3. CASE /\ keys' = Minted(keys, task[a].of, task[a].now)
             /\ task' = [task EXCEPT ![a].step = "qr", ![a].key = Len(keys')]
    <3>1. keys \in Seq(KeyRow) /\ task[a].now \in 0 .. MaxClock
        BY DEF TypeOK
    <3>2. Len(keys') = Len(keys) + 1 /\ keys'[Len(keys) + 1].of = task[a].of
        BY <2>1, <2>3, <3>1, MintedRows, SMTT(30)
    <3>3. /\ p # task[a].of => KeysOf(p)' = KeysOf(p)
          /\ p = task[a].of => \A k \in KeysOf(p)' : k <= Len(keys')
        BY <2>1, <3>2, OneMore
    <3>4. task'[a].step = "qr" /\ task'[a].of = task[a].of /\ task'[a].key = Len(keys')
        BY <1>1, <2>3 DEF Rest, TaskSet
    <3>5. Rotating(p)' = Rotating(p)
        BY <1>2, <2>1, <3>4 DEF Rotating
    <3>6. CASE p # task[a].of
        BY <1>2, <2>1, <3>3, <3>5, <3>6, QRAside DEF Rotating
    <3>7. CASE p = task[a].of
      <4>1. disturbed[p] = {} => \A b \in Rotating(p) : b = a
        BY <2>1, <3>7 DEF Rotating, OneRotation
      <4>2. a \in Rotating(p)
        BY <2>1, <3>7 DEF Rotating
      <4>3. QED
        BY <2>1, <3>3, <3>4, <3>5, <3>7, <4>1, <4>2 DEF QRHeld
    <3>8. QED
        BY <3>6, <3>7
  <2>4. QED
    BY <1>5, <2>2, <2>3 DEF Mint
<1>6. ASSUME PersistQR(a) PROVE QRHeld(p)'
  <2>1. /\ task[a].step = "qr" /\ task[a].of \in Pairing /\ UNCHANGED <<status, disturbed>>
        /\ task'[a].step = "idle" /\ KeysOf(p)' = KeysOf(p)
    BY <1>1, <1>3, <1>6 DEF PersistQR, TaskOf, Rest, Idle
  <2>2. CASE p # task[a].of
    <3>1. qr'[p] = qr[p]
        BY <1>1, <1>6, <2>2 DEF PersistQR, StoredQR, Rest
    <3>2. Rotating(p)' = Rotating(p) /\ a \notin Rotating(p)
        BY <1>2, <2>1, <2>2 DEF Rotating
    <3>3. QED
        BY <1>2, <2>1, <3>1, <3>2, QRAside DEF Rotating
  <2>3. CASE p = task[a].of
    <3>1. status[p] = "live" => qr'[p] = task[a].key
        BY <1>1, <1>6, <2>1, <2>3 DEF PersistQR, StoredQR, Rest
    <3>2. a \in Rotating(p)
        BY <2>1, <2>3 DEF Rotating
    <3>3. disturbed[p] = {} => Rotating(p)' = {}
        BY <1>2, <2>1, <2>3 DEF Rotating, OneRotation
    <3>4. QED
        BY <2>1, <3>1, <3>2, <3>3 DEF QRHeld
  <2>4. QED
    BY <2>2, <2>3
<1>7. ASSUME RotateFails(a) PROVE QRHeld(p)'
  <2>1. CASE task[a].step = "mint"
    BY <1>3, <1>7, <2>1, QRDropped DEF RotateFails
  <2>2. CASE task[a].step # "mint" /\ p = task[a].of
    <3>1. disturbed'[p] # {}
        BY <1>1, <1>7, <2>2 DEF RotateFails, Rest
    <3>2. QED
        BY <3>1 DEF QRHeld
  <2>3. CASE task[a].step # "mint" /\ p # task[a].of
    <3>1. disturbed'[p] = disturbed[p] /\ UNCHANGED <<status, qr>>
        BY <1>1, <1>7, <2>3 DEF RotateFails, Rest
    <3>2. task'[a].step = "idle" /\ KeysOf(p)' = KeysOf(p)
        BY <1>1, <1>3, <1>7 DEF RotateFails, Rest, Idle
    <3>3. Rotating(p)' = Rotating(p) /\ a \notin Rotating(p)
        BY <1>2, <2>3, <3>2 DEF Rotating
    <3>4. QED
        BY <1>2, <3>1, <3>2, <3>3, QRAside DEF Rotating
  <2>4. QED
    BY <2>1, <2>2, <2>3
<1>8. QED
    BY <1>4, <1>5, <1>6, <1>7 DEF RotationStep

LEMMA QRStep ==
    ASSUME TypeOK, TaskOf, RequestOf, OneRotation, QRNext, KeysMove, [Next]_vars
    PROVE  QRNext'
<1> SUFFICES ASSUME NEW p \in Pairing PROVE QRHeld(p)'
    BY DEF QRNext, QRHeld
<1>1. Rest /\ QRHeld(p)
    BY RestTypes DEF QRNext, QRHeld
<1>2. UNCHANGED task => UNCHANGED Rotating(p)
    BY DEF Rotating
<1>3. ASSUME UNCHANGED <<status, qr, task, disturbed>>, Len(keys') = Len(keys) PROVE QRHeld(p)'
    BY <1>1, <1>2, <1>3, SameNumber, QRAside
<1>4. ASSUME NEW q \in Pairing, CreatePairing(q) PROVE QRHeld(p)'
  <2>1. keys \in Seq(KeyRow) /\ Row(q, clock) \in KeyRow /\ Row(q, clock).of = q
    BY RowTypes DEF TypeOK, Row
  <2>2. Len(keys') = Len(keys) + 1 /\ keys'[Len(keys) + 1] = Row(q, clock)
    BY <1>4, <2>1, AppendProperties DEF CreatePairing
  <2>3. CASE p = q
    <3>1. Rotating(p)' = {}
        BY <1>4, <2>3 DEF CreatePairing, Rotating, TaskOf
    <3>2. qr'[p] = Len(keys')
        BY <1>1, <1>4, <2>3 DEF CreatePairing, Rest
    <3>3. QED
        BY <2>1, <2>2, <2>3, <3>1, <3>2, OneMore DEF QRHeld
  <2>4. CASE p # q
    <3>1. status'[p] = status[p] /\ qr'[p] = qr[p] /\ UNCHANGED <<task, disturbed>>
        BY <1>1, <1>4, <2>4 DEF CreatePairing, Rest
    <3>2. KeysOf(p)' = KeysOf(p)
        BY <2>1, <2>2, <2>4, OneMore
    <3>3. QED
        BY <1>1, <1>2, <3>1, <3>2, QRAside
  <2>5. QED
    BY <2>3, <2>4
<1>5. ASSUME NEW q \in Pairing, RevokePairing(q) \/ DeletePairing(q) PROVE QRHeld(p)'
  <2>1. Len(keys') = Len(keys)
    BY <1>5, StatementsKeep, Numbers DEF RevokePairing, DeletePairing, TypeOK, Kept
  <2>2. UNCHANGED <<task, disturbed>>
    BY <1>5 DEF RevokePairing, DeletePairing
  <2>3. status'[p] = "live" => status[p] = "live" /\ qr'[p] = qr[p]
    BY <1>1, <1>5 DEF RevokePairing, DeletePairing, Rest
  <2>4. QED
    BY <1>1, <1>2, <2>1, <2>2, <2>3, SameNumber, QRAside
<1>6. ASSUME NEW q \in Pairing, adoptKey(q) PROVE QRHeld(p)'
  <2>1. Len(keys') = Len(keys)
    BY <1>6, AdoptedRows DEF adoptKey, RequestOf, TypeOK
  <2>2. QED
    BY <1>3, <1>6, <2>1 DEF adoptKey
<1>7. ASSUME Restart PROVE QRHeld(p)'
  <2>1. Rotating(p)' = {} /\ KeysOf(p)' = KeysOf(p) /\ UNCHANGED <<status, qr>>
    BY <1>7 DEF Restart, Rotating, Idle, KeysOf
  <2>2. CASE \E a \in Admin : task[a].step = "qr" /\ task[a].of = p
    <3>1. disturbed'[p] # {}
        BY <1>7, <2>2 DEF Restart
    <3>2. QED
        BY <3>1 DEF QRHeld
  <2>3. CASE ~\E a \in Admin : task[a].step = "qr" /\ task[a].of = p
    <3>1. disturbed'[p] = disturbed[p]
        BY <1>7, <2>3 DEF Restart
    <3>2. \A a \in Rotating(p) : task[a].step = "mint"
        BY <1>1, <2>3 DEF Rotating, Rest, TaskSet
    <3>3. QED
        BY <1>1, <2>1, <3>1, <3>2 DEF QRHeld
  <2>4. QED
    BY <2>2, <2>3
<1>8. ASSUME NEW a \in Admin,
             (\E q \in Pairing : RotateKey(a, q)) \/ RotationStep(a) \/ RotateFails(a)
      PROVE  QRHeld(p)'
    BY <1>1, <1>8, QRAdmin
<1>9. QED
    BY <1>3, <1>4, <1>5, <1>6, <1>7, <1>8
    DEF Next, vars, Reveal, ScanCode, DeviceStep, KeyLookup, HandshakeRow, Handshake,
        AdoptTimesOut, AnswerLost, Tick

----------------------------------------------------------------------------
LEMMA InitInv == Init => Inv
<1> SUFFICES ASSUME Init PROVE Inv
    OBVIOUS
<1>1. keys = <<>> /\ keys \in Seq(KeyRow) /\ Len(keys) = 0 /\ DOMAIN keys = {}
    BY EmptySeq, KeyRows DEF Init
<1>2. Rest
    BY Idles, Numbers DEF Init, Rest, Key
<1>3. TypeOK
    BY <1>1, <1>2, Numbers DEF Init, Rest, TypeOK, TaskSet, RequestSet, Key
<1>4. QED
    BY <1>1, <1>3 DEF Init, Inv, TaskOf, RequestOf, OldKeysStop, OneRotation, QRNext, Idle,
                      NoRequest

LEMMA InvStep == Inv /\ [Next]_vars => Inv'
<1> SUFFICES ASSUME Inv, [Next]_vars PROVE Inv'
    OBVIOUS
<1>1. KeysMove /\ clock' \in 0 .. MaxClock /\ clock <= clock'
    BY KeySteps, ClockSteps DEF Inv
<1>2. QED
    BY <1>1, TypeStep, TaskOfStep, RequestOfStep, StopsStep, OneRotationStep, QRStep DEF Inv

LEMMA Invariance == Spec => []Inv
BY InitInv, InvStep, PTL DEF Spec

\* Every variable keeps its type; in particular, the newest key that a handshake
\* looks for exists (pairing/service.go, PendingRotationFor).
THEOREM TypeCorrect == Spec => []TypeOK
BY Invariance, PTL DEF Inv

\* A rotated key that has been used stops every older key of its pairing for good,
\* with any number of rotations, restarts and timeouts in between (adoptKey).
THEOREM AdoptionStopsOldKeys == Spec => []OldKeysStop
BY Invariance, PTL DEF Inv

\* Between rotations the stored code shows the newest key, except after rotations
\* of one pairing that overlapped or were cut short (RotateKey, persistQR).
THEOREM CodeFollowsKeys == Spec => []QRFollows
<1>1. Inv => QRFollows
    BY DEF Inv, QRNext, QRFollows
<1>2. QED
    BY <1>1, Invariance, PTL

\* No step makes a key valid that had expired or been revoked.
KeysOnlyEnd == \A k \in DOMAIN keys : ~Active(k) => ~Active(k)'

\* A key that has expired or been revoked is never accepted again: not by a
\* rotation, an adoption, a revocation or a deletion (device_pairing_keys.sql).
THEOREM KeysNeverReturn == Spec => [][KeysOnlyEnd]_vars
<1>1. Inv /\ [Next]_vars => KeysOnlyEnd
  <2> SUFFICES ASSUME Inv, [Next]_vars, NEW k \in DOMAIN keys, ~Active(k) PROVE ~Active(k)'
    BY DEF KeysOnlyEnd
  <2>1. KeysMove /\ clock' \in Nat /\ clock <= clock' /\ TypeOK
    BY KeySteps, ClockSteps, Numbers DEF Inv
  <2>2. QED
    BY <2>1, StaysInactive DEF Active
<1>2. QED
    BY <1>1, Invariance, PTL DEF Spec
=============================================================================
