------------------------------ MODULE RateLimit ------------------------------
(***************************************************************************)
(* The guessing budget of trace-node (ratelimit.ts, its SQL in sql.ts, and *)
(* the handlers of auth-plugin.ts that ask it): one row per door and       *)
(* address counts failures and remembers the last one.  A handler reads    *)
(* the row, awaits the credential check, and only then writes the row, so  *)
(* several attempts of one address can be past the read at once.           *)
(*                                                                         *)
(* Rows of different doors or addresses are never read or written          *)
(* together, so the module follows one row: door is which door it is for.  *)
(* Time is kept as the age of the last failure, saturated past the window  *)
(* (no code compares larger ages), in units of 1/Minute minutes: behaviours *)
(* need no bound on the clock.                                             *)
(***************************************************************************)
EXTENDS Integers, FiniteSets

CONSTANTS
    Free,        \* FREE_ATTEMPTS, by door
    Window,      \* WINDOW_SECONDS
    MaxLockout,  \* MAX_LOCKOUT_SECONDS
    Minute,      \* the unit of the lockout curve
    Slots,       \* attempts that can be in flight from one address
    MaxFaults    \* bound on store errors

Doors == {"login", "authorize", "bearer", "register"}

\* 2 ** doublings * 60, before the cap
Wait(doublings) == 2^doublings * Minute

ASSUME RateAssumption ==
    /\ Free \in [Doors -> Nat \ {0}]
    /\ Window \in Nat
    /\ MaxLockout \in Nat
    /\ Minute \in Nat
    /\ IsFiniteSet(Slots)
    /\ MaxFaults \in Nat
    /\ \A doublings \in 0..20 : Wait(doublings) \in Nat

VARIABLES
    door,      \* which bucket the row belongs to; never changes
    failures,  \* the row's failures; 0 stands for no row
    since,     \* the age of the row's last_at, at most Window + 1
    admitted,  \* attempts past retryAfter, verdict not yet recorded
    faults,    \* store errors so far
    guessed    \* history: wrong answers given since the row was begun

vars == <<door, failures, since, admitted, faults, guessed>>

TypeOK ==
    /\ door \in Doors
    /\ failures \in Nat
    /\ since \in 0..(Window + 1)
    /\ admitted \subseteq Slots
    /\ faults \in 0..MaxFaults
    /\ guessed \in Nat

Init ==
    /\ door \in Doors
    /\ failures = 0
    /\ since = Window + 1
    /\ admitted = {}
    /\ faults = 0
    /\ guessed = 0

\* Math.min
AtMost(x, y) == IF x <= y THEN x ELSE y

----------------------------------------------------------------------------
(* The curve and the check. *)

\* lockoutSeconds
Lockout(n) ==
    IF n < Free[door] THEN 0
    ELSE AtMost(Wait(AtMost(n - Free[door] + 1, 20)), MaxLockout)

\* RATE.fail and retryAfter agree that a row this old counts for nothing.
Stale == since > Window

\* retryAfter, from the row as it stands.
Held ==
    IF failures = 0 \/ Stale THEN 0
    ELSE IF Lockout(failures) > since THEN Lockout(failures) - since ELSE 0

\* MUTANT of Admit: an attempt made while held renews the hold.
AdmitOrRenew(s) ==
    /\ s \notin admitted
    /\ admitted' = IF Held = 0 THEN admitted \cup {s} ELSE admitted
    /\ since' = IF Held = 0 THEN since ELSE 0
    /\ UNCHANGED <<door, failures, faults, guessed>>

\* A held attempt is answered 429 and changes nothing.
Admit(s) ==
    /\ s \notin admitted
    /\ Held = 0
    /\ admitted' = admitted \cup {s}
    /\ UNCHANGED <<door, failures, since, faults, guessed>>

\* retryAfter fails open.
AdmitBlind(s) ==
    /\ s \notin admitted
    /\ faults < MaxFaults
    /\ faults' = faults + 1
    /\ admitted' = admitted \cup {s}
    /\ UNCHANGED <<door, failures, since, guessed>>

----------------------------------------------------------------------------
(* Verdicts. *)

\* MUTANT of CountFailure: INSERT OR REPLACE in place of the upsert.
CountFirst ==
    /\ failures' = 1
    /\ since' = 0
    /\ guessed' = IF Stale THEN 1 ELSE guessed + 1

\* MUTANT of CountFailure: last_at written ahead of the clock it is compared to.
CountAhead ==
    /\ failures' = IF Stale THEN 1 ELSE failures + 1
    /\ since' = -1
    /\ guessed' = IF Stale THEN 1 ELSE guessed + 1

\* RATE.fail: one statement, counting on from the row as it is now.
CountFailure ==
    /\ failures' = IF Stale THEN 1 ELSE failures + 1
    /\ since' = 0
    /\ guessed' = IF Stale THEN 1 ELSE guessed + 1

\* A wrong passphrase, a wrong bearer, or any registration at all.
Refuse(s) ==
    /\ s \in admitted
    /\ admitted' = admitted \ {s}
    /\ CountFailure
    /\ UNCHANGED <<door, faults>>

\* recordFailure swallows a store error: the answer is given, not counted.
RefuseUncounted(s) ==
    /\ s \in admitted
    /\ faults < MaxFaults
    /\ faults' = faults + 1
    /\ admitted' = admitted \ {s}
    /\ guessed' = guessed + 1
    /\ UNCHANGED <<door, failures, since>>

\* recordSuccess: only the passphrase doors clear their row.
Accept(s) ==
    /\ s \in admitted
    /\ door # "register"
    /\ admitted' = admitted \ {s}
    /\ IF door \in {"login", "authorize"}
         THEN failures' = 0 /\ since' = Window + 1 /\ guessed' = 0
         ELSE UNCHANGED <<failures, since, guessed>>
    /\ UNCHANGED <<door, faults>>

\* The row write of an accepted attempt fails, or the server stops: nothing
\* is written and the attempt is over.
Drop(s) ==
    /\ s \in admitted
    /\ faults < MaxFaults
    /\ faults' = faults + 1
    /\ admitted' = admitted \ {s}
    /\ UNCHANGED <<door, failures, since, guessed>>

\* The janitor deletes rows a day old: one past the window may be that old,
\* since no action tells the ages past the window apart.
JanitorAttempts ==
    /\ Stale
    /\ failures # 0
    /\ failures' = 0
    /\ guessed' = 0
    /\ UNCHANGED <<door, since, admitted, faults>>

Tick ==
    /\ ~Stale
    /\ since' = since + 1
    /\ UNCHANGED <<door, failures, admitted, faults, guessed>>

----------------------------------------------------------------------------

Next ==
    \/ \E s \in Slots : \/ Admit(s)
                        \/ AdmitBlind(s)
                        \/ Refuse(s)
                        \/ RefuseUncounted(s)
                        \/ Accept(s)
                        \/ Drop(s)
    \/ JanitorAttempts
    \/ Tick

Spec == Init /\ [][Next]_vars

\* Time passes whatever the server does.
FairSpec == Spec /\ WF_vars(Tick)

----------------------------------------------------------------------------
(* Properties. *)

\* While a row counts, the wrong answers given on it do not outrun the curve:
\* all but one per concurrent attempt and one per store error were given at a
\* count whose lockout fits in the window.  A failure that is not counted, an
\* attempt admitted past its lockout, or a row reset before its time would
\* each let more through.
GuessesBounded ==
    ~Stale =>
        \E n \in 0..guessed :
            /\ Lockout(n) <= Window
            /\ guessed - n <= Cardinality(Slots) + faults

\* "A mistake is always recoverable by waiting" (ratelimit.ts:57): a caller
\* who is held is let in some time later, whoever else is trying.
HoldEnds == Held > 0 ~> Held = 0

\* ratelimit.ts:52 and README.md:231: after n failures the caller waits for
\* what the curve says, capped at an hour.
LockoutIsServed == failures > 0 /\ since < Lockout(failures) => Held > 0

=============================================================================
