------------------------------- MODULE Limiter -------------------------------
(***************************************************************************)
(* The sliding-window limiter of internal/auth/ratelimit/ratelimit.go, for *)
(* one client address.  A tick of the clock is longer than sweepInterval,  *)
(* so the sweep that opens every operation runs whenever it could change   *)
(* something; a swept-away entry is the entry of an address never seen.    *)
(*                                                                         *)
(* The failures are a slice of times in the code, of which only their      *)
(* number within a window is ever asked: here a set of times, each with a  *)
(* number that tells the failures of one tick apart.                       *)
(***************************************************************************)
EXTENDS Integers, FiniteSets

CONSTANTS
    MaxFast, FastWindow, CoolOffFast,   \* failures, ticks, ticks
    MaxSlow, SlowWindow, CoolOffSlow

ASSUME LimiterAssumption ==
    /\ {MaxFast, FastWindow, CoolOffFast, MaxSlow, SlowWindow, CoolOffSlow} \subseteq Nat \ {0}
    /\ FastWindow <= SlowWindow

Fresh == [inflight |-> 0, failures |-> {}, coolOffUntil |-> 0]

evictOlderThan(failures, now, window) ==
    {f \in failures : f.at > now - window}

countWithin(failures, now, window) == Cardinality(evictOlderThan(failures, now, window))

maybeSweep(l, now) ==
    IF now < l.coolOffUntil \/ l.inflight > 0 THEN l
    ELSE [l EXCEPT !.failures = evictOlderThan(@, now, SlowWindow)]

\* Mutant: only failures that were recorded count, not attempts under way.
AllowedRecorded(l, now) ==
    LET s == maybeSweep(l, now)
    IN  /\ now >= s.coolOffUntil
        /\ countWithin(s.failures, now, FastWindow) < MaxFast
        /\ Cardinality(s.failures) < MaxSlow

\* Begin's decision: attempts under way count as failures to come.
Allowed(l, now) ==
    LET s == maybeSweep(l, now)
    IN  /\ now >= s.coolOffUntil
        /\ countWithin(s.failures, now, FastWindow) + s.inflight < MaxFast
        /\ Cardinality(s.failures) + s.inflight < MaxSlow

\* Begin, when it allows the attempt.
Begun(l, now) == [maybeSweep(l, now) EXCEPT !.inflight = @ + 1]

Released(l) == [l EXCEPT !.inflight = IF @ > 0 THEN @ - 1 ELSE 0]

\* One more failure at this time.
Failure(failures, now) ==
    [at |-> now, no |-> CHOOSE i \in 0..Cardinality(failures) : [at |-> now, no |-> i] \notin failures]

RecordFailure(l, now) ==
    LET before == maybeSweep(l, now).failures
        kept == evictOlderThan(before \cup {Failure(before, now)}, now, SlowWindow)
        end == IF Cardinality(kept) >= MaxSlow THEN now + CoolOffSlow
               ELSE IF countWithin(kept, now, FastWindow) >= MaxFast THEN now + CoolOffFast
               ELSE l.coolOffUntil
    IN  [l EXCEPT !.failures = kept, !.coolOffUntil = end]
=============================================================================
