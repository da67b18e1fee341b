----------------------------- MODULE OwnerSession -----------------------------
(***************************************************************************)
(* The owner's lock (passphrase.ts, session.ts, the handlers of            *)
(* auth-plugin.ts): a deployed secret, an optional stored passphrase that  *)
(* can be set and dropped from the page, and browser sessions, which are   *)
(* nothing but a signature under a key that both are folded into.          *)
(*                                                                         *)
(* The server keeps one row; the sessions are in browsers.  A login reads  *)
(* the row, spends its time in PBKDF2, and reads the row again for the key *)
(* it signs with; a change passes the gate, hashes, writes, and reads the  *)
(* row again.  Others change the lock in between.  readStored answers      *)
(* "nothing stored" when the read fails.                                   *)
(*                                                                         *)
(* Signatures are not forged, so a session is the key it was signed with.  *)
(* The guessing budget in front of these doors is module RateLimit.        *)
(***************************************************************************)
EXTENDS Naturals, FiniteSets

CONSTANTS
    Passphrases,  \* what can be typed; a new one is given as it is trimmed
    Env,          \* the deployed OWNER_PASSPHRASE
    NoPassphrase, \* `current` left out of a change
    Long,         \* the passphrases of MIN_PASSPHRASE characters or more
    Requests,     \* slots for requests in flight
    MaxSessions,  \* bound on sessions held at once
    MaxChanges,   \* bound on passphrases written
    MaxFaults     \* bound on reads that fail

ASSUME LockAssumption ==
    /\ Env \in Passphrases
    /\ NoPassphrase \notin Passphrases
    /\ Long \subseteq Passphrases
    /\ MaxSessions \in Nat
    /\ MaxChanges \in Nat
    /\ MaxFaults \in Nat

\* A stored hash: the passphrase and the salt it was hashed with.
Hash == [pass: Passphrases, salt: Nat]
\* No row stored: the session key is the deployed secret alone.
Bare == [pass |-> Env, salt |-> 0]

VARIABLES
    stored,   \* settings row owner_passphrase, or Bare
    salts,    \* salts drawn so far
    sessions, \* the signed cookies browsers hold
    flights,  \* requests between two awaits
    faults,   \* reads failed so far
    crept     \* history: sessions admitted after a change signed them out

vars == <<stored, salts, sessions, flights, faults, crept>>

\* shown: the passphrase the holder typed, set, or reverted to.  History: out,
\* a change was made since; torn, the lock was changed by somebody else, or a
\* read failed, while the session was being opened.
Session == [key: Hash, shown: Passphrases, out: BOOLEAN, torn: BOOLEAN]
Flight ==
    [req: Requests, step: {"check", "put", "delete", "issue"},
     current: Passphrases \cup {NoPassphrase}, shown: Passphrases, torn: BOOLEAN]

TypeOK ==
    /\ stored \in Hash
    /\ salts \in Nat
    /\ sessions \subseteq Session
    /\ flights \subseteq Flight
    /\ faults \in 0..MaxFaults
    /\ crept \subseteq Session

Init ==
    /\ stored = Bare
    /\ salts = 0
    /\ sessions = {}
    /\ flights = {}
    /\ faults = 0
    /\ crept = {}

Free(r) == \A x \in flights : x.req # r

\* readStored: the row, or nothing when the read throws.
ReadStored(h) ==
    \/ h = stored /\ UNCHANGED faults
    \/ h = Bare /\ stored # Bare /\ faults < MaxFaults /\ faults' = faults + 1

\* MUTANT of Opens: any passphrase opens a lock that has a stored hash.
OpensAny(p, h) == h # Bare \/ p = Env

\* checkOwner: the stored passphrase, and always the deployed one.
Opens(p, h) == h.pass = p \/ p = Env

\* The gate: a session signed with the key of this moment.
Admitted(s, h) ==
    /\ ReadStored(h)
    /\ s.key = h
    /\ crept' = IF s.out THEN crept \cup {s} ELSE crept

\* A session, or a bearer or ingress identity, which does not read the lock.
PassesGate ==
    \/ \E s \in sessions, h \in {stored, Bare} : Admitted(s, h)
    \/ UNCHANGED <<faults, crept>>

----------------------------------------------------------------------------
(* POST /login *)

LoginCheck(r, p, h) ==
    /\ Free(r)
    /\ ReadStored(h)
    /\ Opens(p, h)
    /\ flights' = flights \cup
          {[req |-> r, step |-> "issue", current |-> NoPassphrase,
            shown |-> p, torn |-> FALSE]}
    /\ UNCHANGED <<stored, salts, sessions, crept>>

----------------------------------------------------------------------------
(* POST /api/passphrase *)

\* `current` is optional, and checked when it is there.
ChangeGate(r, next, current) ==
    /\ Free(r)
    /\ PassesGate
    /\ next \in Long
    /\ flights' = flights \cup
          {[req |-> r, step |-> IF current = NoPassphrase THEN "put" ELSE "check",
            current |-> current, shown |-> next, torn |-> FALSE]}
    /\ UNCHANGED <<stored, salts, sessions>>

ChangeCheck(x, h) ==
    /\ x.step = "check"
    /\ ReadStored(h)
    /\ Opens(x.current, h)
    /\ flights' = (flights \ {x}) \cup {[x EXCEPT !.step = "put"]}
    /\ UNCHANGED <<stored, salts, sessions, crept>>

\* x goes on to its cookie; the others in flight have been overtaken.
Overtaken(x) ==
    {[y EXCEPT !.torn = TRUE] : y \in flights \ {x}} \cup
        {[x EXCEPT !.step = "issue", !.torn = FALSE]}

\* MUTANT of Hashed: the passphrase as it is.
HashedNot(p) == [pass |-> p]
\* MUTANT of Hashed: without a salt.
HashedUnsalted(p) == [pass |-> p, salt |-> 1]

\* hashPassphrase
Hashed(p) == [pass |-> p, salt |-> salts + 1]

ChangePut(x) ==
    /\ x.step = "put"
    /\ salts < MaxChanges
    /\ salts' = salts + 1
    /\ stored' = Hashed(x.shown)
    /\ sessions' = {[s EXCEPT !.out = TRUE] : s \in sessions}
    /\ flights' = Overtaken(x)
    /\ UNCHANGED <<faults, crept>>

----------------------------------------------------------------------------
(* DELETE /api/passphrase *)

ClearGate(r) ==
    /\ Free(r)
    /\ PassesGate
    /\ flights' = flights \cup
          {[req |-> r, step |-> "delete", current |-> NoPassphrase,
            shown |-> Env, torn |-> FALSE]}
    /\ UNCHANGED <<stored, salts, sessions>>

ClearDelete(x) ==
    /\ x.step = "delete"
    /\ stored' = Bare
    /\ flights' = Overtaken(x)
    /\ UNCHANGED <<salts, sessions, faults, crept>>

----------------------------------------------------------------------------

\* issueSession, under the key as it is by now.
Issue(x, h) ==
    /\ x.step = "issue"
    /\ Cardinality(sessions) < MaxSessions
    /\ ReadStored(h)
    /\ sessions' = sessions \cup
          {[key |-> h, shown |-> x.shown, out |-> FALSE,
            torn |-> x.torn \/ h # stored]}
    /\ flights' = flights \ {x}
    /\ UNCHANGED <<stored, salts, crept>>

\* A refusal, a store error or a stop of the server.
Abort(x) ==
    /\ flights' = flights \ {x}
    /\ UNCHANGED <<stored, salts, sessions, faults, crept>>

\* Any other request behind the gate.
UseSession(s, h) ==
    /\ Admitted(s, h)
    /\ UNCHANGED <<stored, salts, sessions, flights>>

\* The 30 days are over, or the browser logged out.
Lapse(s) ==
    /\ sessions' = sessions \ {s}
    /\ UNCHANGED <<stored, salts, flights, faults, crept>>

----------------------------------------------------------------------------

Next ==
    \/ \E r \in Requests, p \in Passphrases, h \in {stored, Bare} : LoginCheck(r, p, h)
    \/ \E r \in Requests, next \in Passphrases,
          current \in Passphrases \cup {NoPassphrase} : ChangeGate(r, next, current)
    \/ \E r \in Requests : ClearGate(r)
    \/ \E x \in flights : \/ ChangePut(x)
                          \/ ClearDelete(x)
                          \/ Abort(x)
                          \/ \E h \in {stored, Bare} : ChangeCheck(x, h) \/ Issue(x, h)
    \/ \E s \in sessions : \/ Lapse(s)
                           \/ \E h \in {stored, Bare} : UseSession(s, h)

Spec == Init /\ [][Next]_vars

----------------------------------------------------------------------------
(* Properties. *)

\* Who holds a session signed with the lock of the day typed that lock's
\* passphrase, set it, or used the deployed secret.  The exception is a login
\* that somebody else's change overtook after its check, or a change overtaken
\* after its write: it is signed with a lock it never opened.
OpenedByItsLock ==
    \A s \in sessions : ~s.torn => s.shown \in {Env, s.key.pass}

\* A session that a change signed out is not admitted again, even if the same
\* passphrase is set again; the exception is one signed with the deployed
\* secret alone, which a revert, or a failed read of the row, brings back.
SignedOutStaysOut ==
    \A s \in crept : s.key = Bare

\* auth-plugin.ts:247-249: changing the passphrase "invalidates every
\* outstanding session", whatever is done to the lock afterwards.
SignedOutForGood == crept = {}

=============================================================================
