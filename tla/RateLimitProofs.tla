--------------------------- MODULE RateLimitProofs ---------------------------
(***************************************************************************)
(* Proofs about RateLimit, for any free counts, window, cap and number of  *)
(* concurrent attempts.  The bound on guesses is not inductive: that an    *)
(* attempt already past the check will still be counted, and that the row  *)
(* is at most one per store error behind the guesses, must be added.       *)
(***************************************************************************)
EXTENDS RateLimit, FiniteSetTheorems, TLAPS

\* The row never counts more than was guessed, and misses one guess per fault.
Counted == failures <= guessed /\ guessed <= failures + faults

\* The guesses made and those in flight exceed a count whose lockout fits in
\* the window by at most one per slot and one per fault.
Budget ==
    ~Stale =>
        \E n \in 0..guessed :
            /\ Lockout(n) <= Window
            /\ guessed + Cardinality(admitted)
                    <= n + Cardinality(Slots) + faults

IInv == TypeOK /\ Counted /\ Budget

----------------------------------------------------------------------------
(* The curve. *)

\* The wait after any number of failures is a number.
LEMMA LockoutType == TypeOK => \A n \in Nat : Lockout(n) \in Nat
<1> SUFFICES ASSUME TypeOK, NEW n \in Nat PROVE Lockout(n) \in Nat
  OBVIOUS
<1>1. Free[door] \in Nat
  BY RateAssumption DEF TypeOK
<1>2. CASE n < Free[door]
  BY <1>2 DEF Lockout
<1>3. CASE ~(n < Free[door])
  <2>1. AtMost(n - Free[door] + 1, 20) \in 0..20
    BY <1>1, <1>3 DEF AtMost
  <2>2. Wait(AtMost(n - Free[door] + 1, 20)) \in Nat
    BY <2>1, RateAssumption
  <2> QED
    BY <1>3, <2>2, RateAssumption DEF Lockout, AtMost
<1> QED
  BY <1>2, <1>3

\* The first attempt of a row is free.
LEMMA FirstIsFree == TypeOK => Lockout(0) = 0
  BY RateAssumption DEF TypeOK, Lockout

\* An attempt that finds a live row not held finds a count whose lockout has
\* been served inside the window.
LEMMA ServedInside ==
  ASSUME TypeOK, Held = 0, ~Stale, failures # 0
  PROVE  Lockout(failures) <= Window
<1>1. Lockout(failures) \in Nat
  BY LockoutType DEF TypeOK
<1>2. Lockout(failures) <= since
  BY <1>1 DEF Held, TypeOK
<1> QED
  BY <1>1, <1>2, RateAssumption DEF TypeOK, Stale

----------------------------------------------------------------------------
(* The attempts in flight. *)

\* At most as many are in flight as there are slots, and one more or one less
\* is one more or one less.
LEMMA InFlight ==
  ASSUME TypeOK
  PROVE  /\ Cardinality(Slots) \in Nat
         /\ Cardinality(admitted) \in Nat
         /\ Cardinality(admitted) <= Cardinality(Slots)
         /\ \A s \in Slots \ admitted :
                Cardinality(admitted \cup {s}) = Cardinality(admitted) + 1
         /\ \A s \in Slots \ admitted :
                Cardinality(admitted) + 1 <= Cardinality(Slots)
         /\ \A s \in admitted :
                Cardinality(admitted \ {s}) = Cardinality(admitted) - 1
<1>1. IsFiniteSet(Slots) /\ IsFiniteSet(admitted)
  BY RateAssumption, FS_Subset DEF TypeOK
<1>2. /\ Cardinality(Slots) \in Nat
      /\ Cardinality(admitted) \in Nat
      /\ Cardinality(admitted) <= Cardinality(Slots)
  BY <1>1, FS_CardinalityType, FS_Subset DEF TypeOK
<1>3. \A s \in Slots \ admitted :
          Cardinality(admitted \cup {s}) = Cardinality(admitted) + 1
  BY <1>1, FS_AddElement
<1>4. \A s \in admitted :
          Cardinality(admitted \ {s}) = Cardinality(admitted) - 1
  BY <1>1, FS_RemoveElement
<1>5. ASSUME NEW s \in Slots \ admitted
      PROVE  Cardinality(admitted) + 1 <= Cardinality(Slots)
  <2>1. admitted \cup {s} \subseteq Slots
    BY DEF TypeOK
  <2>2. Cardinality(admitted \cup {s}) <= Cardinality(Slots)
    BY <1>1, <2>1, FS_Subset
  <2> QED
    BY <1>3, <2>2
<1> QED
  BY <1>2, <1>3, <1>4, <1>5

----------------------------------------------------------------------------
(* The invariant. *)

LEMMA InitIInv == Init => IInv
  BY RateAssumption DEF Init, IInv, TypeOK, Counted, Budget, Stale

\* Only the bucket decides the curve, and it never changes.
LEMMA SameCurve ==
  ASSUME door' = door PROVE \A n : Lockout(n)' = Lockout(n)
  BY DEF Lockout

\* Every step keeps the invariant; the budget is looked at action by action,
\* from the count it was met with or, when the row is begun anew, from 0.
LEMMA NextIInv == IInv /\ [Next]_vars => IInv'
<1> SUFFICES ASSUME IInv, [Next]_vars PROVE IInv'
  OBVIOUS
<1> USE DEF IInv
<1>t. TypeOK'
  <2>1. CASE UNCHANGED vars
    BY <2>1 DEF vars, TypeOK
  <2>2. CASE Next
    BY <2>2, RateAssumption DEF Next, TypeOK, Admit, AdmitBlind, Refuse,
       RefuseUncounted, Accept, Drop, JanitorAttempts, Tick, CountFailure, Stale
  <2> QED
    BY <2>1, <2>2
<1>c. Counted'
  <2>1. CASE UNCHANGED vars
    BY <2>1 DEF vars, Counted
  <2>2. CASE Next
    BY <2>2, RateAssumption DEF Next, TypeOK, Counted, Admit, AdmitBlind,
       Refuse, RefuseUncounted, Accept, Drop, JanitorAttempts, Tick,
       CountFailure
  <2> QED
    BY <2>1, <2>2
<1>d. door' = door
  BY DEF Next, vars, Admit, AdmitBlind, Refuse, RefuseUncounted, Accept, Drop,
     JanitorAttempts, Tick
<1>b. Budget'
  <2> SUFFICES ASSUME ~Stale'
               PROVE  \E n \in 0..guessed' :
                        /\ Lockout(n) <= Window
                        /\ guessed' + Cardinality(admitted')
                              <= n + Cardinality(Slots) + faults'
    BY <1>d, SameCurve DEF Budget
  <2> USE InFlight
  <2>n. faults \in Nat /\ guessed \in Nat /\ failures \in Nat
    BY RateAssumption DEF TypeOK
  <2>1. ASSUME NEW s \in Slots, Admit(s)
        PROVE  \E n \in 0..guessed' :
                 /\ Lockout(n) <= Window
                 /\ guessed' + Cardinality(admitted')
                       <= n + Cardinality(Slots) + faults'
    <3>1. ~Stale /\ Held = 0 /\ guessed' = guessed /\ faults' = faults
      BY <2>1 DEF Admit, Stale
    <3>2. Cardinality(admitted') <= Cardinality(Slots)
      BY <2>1 DEF Admit
    <3>3. Cardinality(admitted') \in Nat
      BY <2>1 DEF Admit
    <3>4. CASE failures = 0
      <4>1. Lockout(0) <= Window
        BY FirstIsFree, RateAssumption
      <4> QED
        BY <2>n, <3>1, <3>2, <3>3, <3>4, <4>1 DEF Counted
    <3>5. CASE failures # 0
      <4>1. Lockout(failures) <= Window
        BY <3>1, <3>5, ServedInside
      <4> QED
        BY <2>n, <3>1, <3>2, <3>3, <4>1 DEF Counted
    <3> QED
      BY <3>4, <3>5
  <2>2. ASSUME NEW s \in Slots, AdmitBlind(s)
        PROVE  \E n \in 0..guessed' :
                 /\ Lockout(n) <= Window
                 /\ guessed' + Cardinality(admitted')
                       <= n + Cardinality(Slots) + faults'
    <3>1. ~Stale /\ guessed' = guessed /\ faults' = faults + 1
      BY <2>2 DEF AdmitBlind, Stale
    <3>2. PICK n \in 0..guessed :
             /\ Lockout(n) <= Window
             /\ guessed + Cardinality(admitted)
                   <= n + Cardinality(Slots) + faults
      BY <3>1 DEF Budget
    <3>3. Cardinality(admitted') = Cardinality(admitted) + 1
      BY <2>2 DEF AdmitBlind
    <3> QED
      BY <2>n, <3>1, <3>2, <3>3
  <2>3. ASSUME NEW s \in Slots, Refuse(s)
        PROVE  \E n \in 0..guessed' :
                 /\ Lockout(n) <= Window
                 /\ guessed' + Cardinality(admitted')
                       <= n + Cardinality(Slots) + faults'
    <3>1. Cardinality(admitted') = Cardinality(admitted) - 1 /\ faults' = faults
      BY <2>3 DEF Refuse
    <3>2. CASE Stale
      <4>1. guessed' = 1
        BY <2>3, <3>2 DEF Refuse, CountFailure
      <4>2. Lockout(0) <= Window
        BY FirstIsFree, RateAssumption
      <4> QED
        BY <2>n, <3>1, <4>1, <4>2
    <3>3. CASE ~Stale
      <4>1. guessed' = guessed + 1
        BY <2>3, <3>3 DEF Refuse, CountFailure
      <4>2. PICK n \in 0..guessed :
               /\ Lockout(n) <= Window
               /\ guessed + Cardinality(admitted)
                     <= n + Cardinality(Slots) + faults
        BY <3>3 DEF Budget
      <4> QED
        BY <2>n, <3>1, <4>1, <4>2
    <3> QED
      BY <3>2, <3>3
  <2>4. ASSUME NEW s \in Slots, RefuseUncounted(s)
        PROVE  \E n \in 0..guessed' :
                 /\ Lockout(n) <= Window
                 /\ guessed' + Cardinality(admitted')
                       <= n + Cardinality(Slots) + faults'
    <3>1. ~Stale /\ guessed' = guessed + 1 /\ faults' = faults + 1
      BY <2>4 DEF RefuseUncounted, Stale
    <3>2. PICK n \in 0..guessed :
             /\ Lockout(n) <= Window
             /\ guessed + Cardinality(admitted)
                   <= n + Cardinality(Slots) + faults
      BY <3>1 DEF Budget
    <3>3. Cardinality(admitted') = Cardinality(admitted) - 1
      BY <2>4 DEF RefuseUncounted
    <3> QED
      BY <2>n, <3>1, <3>2, <3>3
  <2>5. ASSUME NEW s \in Slots, Accept(s)
        PROVE  \E n \in 0..guessed' :
                 /\ Lockout(n) <= Window
                 /\ guessed' + Cardinality(admitted')
                       <= n + Cardinality(Slots) + faults'
    <3>1. Cardinality(admitted') = Cardinality(admitted) - 1 /\ faults' = faults
      BY <2>5 DEF Accept
    <3>2. CASE door \in {"login", "authorize"}
      BY <2>5, <3>2, RateAssumption DEF Accept, Stale
    <3>3. CASE door \notin {"login", "authorize"}
      <4>1. ~Stale /\ guessed' = guessed
        BY <2>5, <3>3 DEF Accept, Stale
      <4>2. PICK n \in 0..guessed :
               /\ Lockout(n) <= Window
               /\ guessed + Cardinality(admitted)
                     <= n + Cardinality(Slots) + faults
        BY <4>1 DEF Budget
      <4> QED
        BY <2>n, <3>1, <4>1, <4>2
    <3> QED
      BY <3>2, <3>3
  <2>6. ASSUME NEW s \in Slots, Drop(s)
        PROVE  \E n \in 0..guessed' :
                 /\ Lockout(n) <= Window
                 /\ guessed' + Cardinality(admitted')
                       <= n + Cardinality(Slots) + faults'
    <3>1. ~Stale /\ guessed' = guessed /\ faults' = faults + 1
      BY <2>6 DEF Drop, Stale
    <3>2. PICK n \in 0..guessed :
             /\ Lockout(n) <= Window
             /\ guessed + Cardinality(admitted)
                   <= n + Cardinality(Slots) + faults
      BY <3>1 DEF Budget
    <3>3. Cardinality(admitted') = Cardinality(admitted) - 1
      BY <2>6 DEF Drop
    <3> QED
      BY <2>n, <3>1, <3>2, <3>3
  <2>7. CASE JanitorAttempts
    BY <2>7 DEF JanitorAttempts, Stale
  <2>8. CASE Tick \/ UNCHANGED vars
    <3>1. ~Stale /\ guessed' = guessed /\ faults' = faults /\ admitted' = admitted
      BY <2>8 DEF Tick, vars, Stale
    <3> QED
      BY <3>1 DEF Budget
  <2> QED
    BY <2>1, <2>2, <2>3, <2>4, <2>5, <2>6, <2>7, <2>8 DEF Next
<1> QED
  BY <1>t, <1>c, <1>b

LEMMA Invariance == Spec => []IInv
<1> QED
  BY InitIInv, NextIInv, PTL DEF Spec

----------------------------------------------------------------------------
(* What the invariant gives. *)

\* Every table row and every attempt in flight keeps its type.
THEOREM TypeCorrect == Spec => []TypeOK
<1>1. IInv => TypeOK
  BY DEF IInv
<1> QED
  BY <1>1, Invariance, PTL

\* However attempts interleave, and whatever the store loses, the wrong
\* answers given on a live row stay within the curve plus one per concurrent
\* attempt and one per store error.
THEOREM GuessesAreBounded == Spec => []GuessesBounded
<1>1. IInv => GuessesBounded
  <2> SUFFICES ASSUME IInv, ~Stale PROVE GuessesBounded
    BY DEF GuessesBounded
  <2>1. PICK n \in 0..guessed :
           /\ Lockout(n) <= Window
           /\ guessed + Cardinality(admitted)
                 <= n + Cardinality(Slots) + faults
    BY DEF IInv, Budget
  <2>2. /\ Cardinality(Slots) \in Nat /\ Cardinality(admitted) \in Nat
        /\ faults \in Nat /\ guessed \in Nat
    BY InFlight, RateAssumption DEF IInv, TypeOK
  <2>3. guessed - n <= Cardinality(Slots) + faults
    BY <2>1, <2>2
  <2> QED
    BY <2>1, <2>3 DEF GuessesBounded
<1> QED
  BY <1>1, Invariance, PTL

----------------------------------------------------------------------------
(* Why a hold ends.  That it does is a matter of time passing and is left   *)
(* to TLC; that nothing can keep it from ending is a measure: every step    *)
(* taken while it lasts uses up a store error, else an attempt that was     *)
(* past the check before, else some of the wait.                            *)

\* A hold is never longer than MAX_LOCKOUT_SECONDS, and only of a row that time
\* is still making older.
LEMMA HeldIs ==
  ASSUME TypeOK
  PROVE  /\ Held \in 0..MaxLockout
         /\ Held > 0 => /\ ~Stale /\ failures # 0
                        /\ Held = Lockout(failures) - since
<1>1. Lockout(failures) \in Nat /\ since \in Nat
  BY LockoutType, RateAssumption DEF TypeOK
<1>2. Lockout(failures) <= MaxLockout
  <2>1. ASSUME ~(failures < Free[door])
        PROVE  Wait(AtMost(failures - Free[door] + 1, 20)) \in Nat
    <3>1. AtMost(failures - Free[door] + 1, 20) \in 0..20
      BY <2>1, RateAssumption DEF AtMost, TypeOK
    <3> QED
      BY <3>1, RateAssumption
  <2> QED
    BY <2>1, RateAssumption DEF Lockout, AtMost
<1> QED
  BY <1>1, <1>2, RateAssumption DEF Held

UsesUp ==
    \/ faults' > faults
    \/ faults' = faults /\ Cardinality(admitted') < Cardinality(admitted)
    \/ faults' = faults /\ admitted' = admitted /\ Held' < Held

\* No attempt made while an address is held prolongs the hold: it can only be
\* prolonged by attempts admitted before it or by a store error, of which every
\* one counts once, and otherwise every step shortens it.
THEOREM HoldRunsOut == Spec => [][Held > 0 => Held <= MaxLockout /\ UsesUp]_vars
<1>1. ASSUME TypeOK, Next, Held > 0
      PROVE  Held <= MaxLockout /\ UsesUp
  <2>1. /\ ~Stale /\ Held = Lockout(failures) - since /\ Held \in Nat
        /\ Held <= MaxLockout
    BY <1>1, HeldIs, RateAssumption
  <2>2. faults \in Nat /\ Cardinality(admitted) \in Nat
    BY <1>1, InFlight, RateAssumption DEF TypeOK
  <2>3. ASSUME NEW s \in Slots, Admit(s) \/ AdmitBlind(s) PROVE UsesUp
    BY <1>1, <2>2, <2>3 DEF Admit, AdmitBlind, UsesUp
  <2>4. ASSUME NEW s \in Slots, Refuse(s) \/ Accept(s) PROVE UsesUp
    <3>1. s \in admitted /\ admitted' = admitted \ {s} /\ faults' = faults
      BY <2>4 DEF Refuse, Accept
    <3>2. Cardinality(admitted') = Cardinality(admitted) - 1
      BY <1>1, <3>1, InFlight
    <3> QED
      BY <2>2, <3>1, <3>2 DEF UsesUp
  <2>5. ASSUME NEW s \in Slots, RefuseUncounted(s) \/ Drop(s) PROVE UsesUp
    BY <2>2, <2>5 DEF RefuseUncounted, Drop, UsesUp
  <2>6. ~JanitorAttempts
    BY <2>1 DEF JanitorAttempts
  <2>7. CASE Tick
    <3>1. /\ since' = since + 1 /\ faults' = faults /\ admitted' = admitted
          /\ failures' = failures /\ door' = door
      BY <2>7 DEF Tick
    <3>2. Lockout(failures)' = Lockout(failures)
      BY <3>1 DEF Lockout
    <3>3. Lockout(failures) \in Nat /\ since \in Nat
      BY <1>1, LockoutType, RateAssumption DEF TypeOK
    <3>4. Held' < Held
      BY <1>1, <2>1, <3>1, <3>2, <3>3 DEF Held
    <3> QED
      BY <2>1, <3>1, <3>4 DEF UsesUp
  <2> QED
    BY <1>1, <2>1, <2>3, <2>4, <2>5, <2>6, <2>7 DEF Next
<1>2. TypeOK /\ [Next]_vars => [Held > 0 => Held <= MaxLockout /\ UsesUp]_vars
  BY <1>1
<1> QED
  BY <1>2, TypeCorrect, PTL DEF Spec

=============================================================================
