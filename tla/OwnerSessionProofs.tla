-------------------------- MODULE OwnerSessionProofs --------------------------
(***************************************************************************)
(* Proofs about OwnerSession, for any set of passphrases and any number of *)
(* requests, sessions, changes and failed reads.                           *)
(*                                                                         *)
(* SignedOutStaysOut needs to know that every change draws a salt no       *)
(* session has been signed with (Salted), so that a session signed out is  *)
(* one signed with another key than the present one, or with the deployed  *)
(* secret (Outdated).  OpenedByItsLock needs the same fact one step        *)
(* earlier, for the requests about to be given a session (Cleared).        *)
(***************************************************************************)
EXTENDS OwnerSession, TLAPS

\* No key in use has a salt not drawn yet.
Salted ==
    /\ stored.salt <= salts
    /\ \A s \in sessions : s.key.salt <= salts

\* A session signed out is not signed with the lock of the moment.
Outdated ==
    \A s \in sessions : s.out => s.key # stored \/ s.key = Bare

\* Whoever is about to get a session opened the lock it will be signed with.
Cleared ==
    \A x \in flights :
        /\ x.step = "issue" /\ ~x.torn => x.shown \in {Env, stored.pass}
        /\ x.step = "delete" => x.shown = Env

IInv ==
    /\ TypeOK
    /\ Salted
    /\ Outdated
    /\ Cleared
    /\ OpenedByItsLock
    /\ SignedOutStaysOut

\* The deployed secret alone is a key like any other.
LEMMA BareIsAHash == Bare \in Hash
  BY LockAssumption DEF Bare, Hash

LEMMA InitHolds == Init => IInv
  <1> SUFFICES ASSUME Init PROVE IInv
    OBVIOUS
  <1>1. TypeOK
    BY BareIsAHash, LockAssumption DEF Init, TypeOK
  <1>2. Salted
    BY LockAssumption DEF Init, Salted, Bare
  <1> QED
    BY <1>1, <1>2 DEF Init, IInv, Outdated, Cleared, OpenedByItsLock, SignedOutStaysOut

\* A read of the row leaves the count of failed reads in bounds.
LEMMA ReadIsCounted ==
    ASSUME TypeOK, NEW h, ReadStored(h)
    PROVE  faults' \in 0..MaxFaults /\ h \in {stored, Bare}
  BY LockAssumption DEF TypeOK, ReadStored

\* The gate admits no session that was signed out, but one signed with the
\* deployed secret.
LEMMA GateIsTight ==
    ASSUME IInv, PassesGate
    PROVE  /\ faults' \in 0..MaxFaults
           /\ crept' \subseteq Session
           /\ \A s \in crept' : s.key = Bare
  <1>1. CASE UNCHANGED <<faults, crept>>
    BY <1>1 DEF IInv, TypeOK, SignedOutStaysOut
  <1>2. ASSUME NEW s \in sessions, NEW h \in {stored, Bare}, Admitted(s, h)
        PROVE  /\ faults' \in 0..MaxFaults
               /\ crept' \subseteq Session
               /\ \A c \in crept' : c.key = Bare
    <2>1. faults' \in 0..MaxFaults
      BY <1>2, ReadIsCounted DEF Admitted, IInv
    <2>2. s.out => s.key = Bare
      BY <1>2 DEF Admitted, IInv, Outdated
    <2> QED
      BY <1>2, <2>1, <2>2 DEF Admitted, IInv, TypeOK, SignedOutStaysOut
  <1> QED
    BY <1>1, <1>2 DEF PassesGate

LEMMA LoginCheckHolds ==
    ASSUME IInv, NEW r \in Requests, NEW p \in Passphrases, NEW h \in {stored, Bare},
           LoginCheck(r, p, h)
    PROVE  IInv'
  <1> DEFINE f == [req |-> r, step |-> "issue", current |-> NoPassphrase,
                   shown |-> p, torn |-> FALSE]
  <1>1. flights' = flights \cup {f} /\ f \in Flight
    BY DEF LoginCheck, Flight
  <1>2. TypeOK'
    BY <1>1, ReadIsCounted DEF LoginCheck, IInv, TypeOK
  <1>3. Cleared'
    BY <1>1 DEF LoginCheck, IInv, Cleared, Opens, Bare
  <1> QED
    BY <1>2, <1>3
    DEF LoginCheck, IInv, Salted, Outdated, OpenedByItsLock, SignedOutStaysOut

LEMMA ChangeGateHolds ==
    ASSUME IInv, NEW r \in Requests, NEW next \in Passphrases,
           NEW current \in Passphrases \cup {NoPassphrase}, ChangeGate(r, next, current)
    PROVE  IInv'
  <1> DEFINE f == [req |-> r, step |-> IF current = NoPassphrase THEN "put" ELSE "check",
                   current |-> current, shown |-> next, torn |-> FALSE]
  <1>1. flights' = flights \cup {f} /\ f \in Flight /\ f.step \in {"put", "check"}
    BY DEF ChangeGate, Flight
  <1>2. TypeOK' /\ SignedOutStaysOut'
    BY <1>1, GateIsTight DEF ChangeGate, IInv, TypeOK, SignedOutStaysOut
  <1>3. Cleared'
    BY <1>1 DEF ChangeGate, IInv, Cleared
  <1> QED
    BY <1>2, <1>3 DEF ChangeGate, IInv, Salted, Outdated, OpenedByItsLock

LEMMA ClearGateHolds ==
    ASSUME IInv, NEW r \in Requests, ClearGate(r)
    PROVE  IInv'
  <1> DEFINE f == [req |-> r, step |-> "delete", current |-> NoPassphrase,
                   shown |-> Env, torn |-> FALSE]
  <1>1. flights' = flights \cup {f} /\ f \in Flight
    BY LockAssumption DEF ClearGate, Flight
  <1>2. TypeOK' /\ SignedOutStaysOut'
    BY <1>1, GateIsTight DEF ClearGate, IInv, TypeOK, SignedOutStaysOut
  <1>3. Cleared'
    BY <1>1 DEF ClearGate, IInv, Cleared
  <1> QED
    BY <1>2, <1>3 DEF ClearGate, IInv, Salted, Outdated, OpenedByItsLock

LEMMA ChangeCheckHolds ==
    ASSUME IInv, NEW x \in flights, NEW h \in {stored, Bare}, ChangeCheck(x, h)
    PROVE  IInv'
  <1>1. [x EXCEPT !.step = "put"] \in Flight
    BY DEF IInv, TypeOK, Flight
  <1>2. TypeOK'
    BY <1>1, ReadIsCounted DEF ChangeCheck, IInv, TypeOK
  <1>3. [x EXCEPT !.step = "put"].step = "put"
    BY DEF IInv, TypeOK, Flight
  <1>4. Cleared'
    BY <1>3 DEF ChangeCheck, IInv, Cleared
  <1> QED
    BY <1>2, <1>4
    DEF ChangeCheck, IInv, Salted, Outdated, OpenedByItsLock, SignedOutStaysOut

\* Whoever is overtaken is marked so, and the one who overtook is not.
LEMMA OvertakenIsMarked ==
    ASSUME TypeOK, NEW x \in flights
    PROVE  /\ Overtaken(x) \subseteq Flight
           /\ \A y \in Overtaken(x) :
                  \/ y.torn /\ \E z \in flights : z.step = y.step /\ z.shown = y.shown
                  \/ y.step = "issue" /\ y.shown = x.shown
  BY DEF TypeOK, Flight, Overtaken

LEMMA ChangePutHolds ==
    ASSUME IInv, NEW x \in flights, ChangePut(x)
    PROVE  IInv'
  <1>1. x \in Flight /\ salts \in Nat
    BY DEF IInv, TypeOK
  <1>2. stored' = [pass |-> x.shown, salt |-> salts + 1] /\ salts' = salts + 1
    BY DEF ChangePut, Hashed
  <1>3. stored' \in Hash /\ salts' \in Nat
    BY <1>1, <1>2 DEF Hash, Flight
  <1>4. \A s \in sessions' :
            \E c \in sessions : s = [c EXCEPT !.out = TRUE] /\ c \in Session
    BY DEF ChangePut, IInv, TypeOK
  <1>5. \A s \in sessions' :
            /\ s \in Session
            /\ \E c \in sessions : s.key = c.key /\ s.shown = c.shown /\ s.torn = c.torn
    BY <1>4 DEF Session
  <1>6. TypeOK'
    BY <1>3, <1>5, OvertakenIsMarked DEF ChangePut, IInv, TypeOK
  <1>7. Salted'
    BY <1>1, <1>2, <1>5 DEF IInv, Salted, Session, Hash
  <1>8. Outdated'
    <2> SUFFICES ASSUME NEW s \in sessions' PROVE s.key # stored'
      BY DEF Outdated
    <2>1. s.key.salt \in Nat /\ s.key.salt <= salts
      BY <1>5 DEF IInv, Salted, Session, Hash
    <2> QED
      BY <1>1, <1>2, <2>1
  <1>9. Cleared'
    <2> SUFFICES ASSUME NEW y \in Overtaken(x)
                 PROVE  /\ y.step = "issue" /\ ~y.torn => y.shown \in {Env, stored'.pass}
                        /\ y.step = "delete" => y.shown = Env
      BY DEF Cleared, ChangePut
    <2> QED
      BY <1>2, OvertakenIsMarked DEF IInv, Cleared
  <1>10. OpenedByItsLock'
    BY <1>5 DEF IInv, OpenedByItsLock
  <1> QED
    BY <1>6, <1>7, <1>8, <1>9, <1>10 DEF ChangePut, IInv, SignedOutStaysOut

LEMMA ClearDeleteHolds ==
    ASSUME IInv, NEW x \in flights, ClearDelete(x)
    PROVE  IInv'
  <1>1. stored' = Bare /\ x.shown = Env
    BY DEF ClearDelete, IInv, Cleared
  <1>2. TypeOK'
    BY <1>1, BareIsAHash, OvertakenIsMarked DEF ClearDelete, IInv, TypeOK
  <1>3. Salted'
    BY <1>1 DEF ClearDelete, IInv, TypeOK, Salted, Bare
  <1>4. Outdated'
    BY <1>1 DEF ClearDelete, IInv, Outdated
  <1>5. Cleared'
    <2> SUFFICES ASSUME NEW y \in Overtaken(x)
                 PROVE  /\ y.step = "issue" /\ ~y.torn => y.shown \in {Env, stored'.pass}
                        /\ y.step = "delete" => y.shown = Env
      BY DEF Cleared, ClearDelete
    <2> QED
      BY <1>1, OvertakenIsMarked DEF IInv, Cleared
  <1> QED
    BY <1>2, <1>3, <1>4, <1>5
    DEF ClearDelete, IInv, OpenedByItsLock, SignedOutStaysOut

LEMMA IssueHolds ==
    ASSUME IInv, NEW x \in flights, NEW h \in {stored, Bare}, Issue(x, h)
    PROVE  IInv'
  <1> DEFINE s == [key |-> h, shown |-> x.shown, out |-> FALSE,
                   torn |-> x.torn \/ h # stored]
  <1>1. x \in Flight /\ h \in Hash
    BY BareIsAHash DEF IInv, TypeOK
  <1>2. x.torn \in BOOLEAN /\ x.shown \in Passphrases
    BY <1>1 DEF Flight
  <1>3. s.torn \in BOOLEAN
    BY <1>2
  <1>4. s \in Session
    BY <1>1, <1>2, <1>3 DEF Session
  <1>5. sessions' = sessions \cup {s} /\ flights' = flights \ {x}
    BY DEF Issue
  <1>6. TypeOK'
    BY <1>4, <1>5, ReadIsCounted DEF Issue, IInv, TypeOK
  <1>7. h.salt <= salts
    BY DEF IInv, TypeOK, Salted, Bare
  <1>8. Salted'
    BY <1>5, <1>7 DEF Issue, IInv, Salted
  <1>9. Outdated'
    BY <1>5 DEF Issue, IInv, Outdated
  <1>10. ~s.torn => s.shown \in {Env, s.key.pass}
    BY DEF Issue, IInv, Cleared
  <1>11. OpenedByItsLock'
    BY <1>5, <1>10 DEF IInv, OpenedByItsLock
  <1>12. Cleared'
    BY <1>5 DEF Issue, IInv, Cleared
  <1> QED
    BY <1>6, <1>8, <1>9, <1>11, <1>12 DEF Issue, IInv, SignedOutStaysOut

LEMMA UseSessionHolds ==
    ASSUME IInv, NEW s \in sessions, NEW h \in {stored, Bare}, UseSession(s, h)
    PROVE  IInv'
  <1>1. PassesGate
    BY DEF UseSession, PassesGate
  <1>2. TypeOK' /\ SignedOutStaysOut'
    BY <1>1, GateIsTight DEF UseSession, IInv, TypeOK, SignedOutStaysOut
  <1> QED
    BY <1>2 DEF UseSession, IInv, Salted, Outdated, Cleared, OpenedByItsLock

LEMMA StepHolds == IInv /\ [Next]_vars => IInv'
  <1> SUFFICES ASSUME IInv, [Next]_vars PROVE IInv'
    OBVIOUS
  <1>1. CASE \E r \in Requests, p \in Passphrases, h \in {stored, Bare} :
                LoginCheck(r, p, h)
    BY <1>1, LoginCheckHolds
  <1>2. CASE \E r \in Requests, next \in Passphrases,
                current \in Passphrases \cup {NoPassphrase} :
                   ChangeGate(r, next, current)
    BY <1>2, ChangeGateHolds
  <1>3. CASE \E r \in Requests : ClearGate(r)
    BY <1>3, ClearGateHolds
  <1>4. CASE \E x \in flights : ChangePut(x)
    BY <1>4, ChangePutHolds
  <1>5. CASE \E x \in flights : ClearDelete(x)
    BY <1>5, ClearDeleteHolds
  <1>6. CASE \E x \in flights : Abort(x)
    BY <1>6 DEF Abort, IInv, TypeOK, Salted, Outdated, Cleared, OpenedByItsLock,
                SignedOutStaysOut
  <1>7. CASE \E x \in flights, h \in {stored, Bare} : ChangeCheck(x, h)
    BY <1>7, ChangeCheckHolds
  <1>8. CASE \E x \in flights, h \in {stored, Bare} : Issue(x, h)
    BY <1>8, IssueHolds
  <1>9. CASE \E s \in sessions : Lapse(s)
    BY <1>9 DEF Lapse, IInv, TypeOK, Salted, Outdated, Cleared, OpenedByItsLock,
                SignedOutStaysOut
  <1>10. CASE \E s \in sessions, h \in {stored, Bare} : UseSession(s, h)
    BY <1>10, UseSessionHolds
  <1>11. CASE UNCHANGED vars
    BY <1>11 DEF vars, IInv, TypeOK, Salted, Outdated, Cleared, OpenedByItsLock,
                 SignedOutStaysOut
  <1> QED
    BY <1>1, <1>2, <1>3, <1>4, <1>5, <1>6, <1>7, <1>8, <1>9, <1>10, <1>11 DEF Next

\* Every conjunct of the inductive invariant, at all times.
THEOREM Invariance == Spec => []IInv
  BY InitHolds, StepHolds, PTL DEF Spec

\* The variables keep their types.
THEOREM TypeCorrect == Spec => []TypeOK
  <1>1. IInv => TypeOK
    BY DEF IInv
  <1> QED
    BY <1>1, Invariance, PTL

\* The holder of a session opened, or set, the lock it is signed with
\* (passphrase.ts checkOwner, auth-plugin.ts sessionKey), unless overtaken.
THEOREM SessionsAreOpened == Spec => []OpenedByItsLock
  <1>1. IInv => OpenedByItsLock
    BY DEF IInv
  <1> QED
    BY <1>1, Invariance, PTL

\* A session signed out by a change is admitted again only if it is signed
\* with the deployed secret alone (auth-plugin.ts sessionKey).
THEOREM SignedOut == Spec => []SignedOutStaysOut
  <1>1. IInv => SignedOutStaysOut
    BY DEF IInv
  <1> QED
    BY <1>1, Invariance, PTL

=============================================================================
