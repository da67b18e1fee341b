----------------------------- MODULE OwnerGrants -----------------------------
(***************************************************************************)
(* The OAuth server as its owner knows it, apart from how oauth.ts and the *)
(* handlers keep it: the approvals given, the tokens held on each, and the *)
(* approvals withdrawn.  A token comes of an approval, one of each, with   *)
(* no more than was ticked on it; it goes when its time is over or when    *)
(* its client's approvals are withdrawn, and in no other way.              *)
(*                                                                         *)
(* What the owner has to know of the server's insides are two races: an    *)
(* approval whose exchange is under way when it is withdrawn (late) may    *)
(* still become a token, and one that two exchanges read before either     *)
(* spent it (shared) may become two.                                       *)
(***************************************************************************)
EXTENDS Naturals

CONSTANTS
    Clients,
    Codes,   \* the names approvals go by
    Tokens,
    Life     \* how long a token is good

VARIABLES
    time,
    given,      \* approvals: [code, client, ticked]
    held,       \* tokens in the table: [token, code, client, traces, until]
    spent,      \* what became of approvals: [token, code]
    withdrawn,  \* approvals withdrawn
    late,       \* of those, the ones with an exchange under way at that time
    shared      \* approvals read by two exchanges at once

vars == <<time, given, held, spent, withdrawn, late, shared>>

Init ==
    /\ time = 0
    /\ given = {} /\ held = {} /\ spent = {}
    /\ withdrawn = {} /\ late = {} /\ shared = {}

\* The owner enters the passphrase, and ticks the box for traces or does not.
Approve(code, c, ticked) ==
    /\ \A a \in given : a.code # code
    /\ given' = given \cup {[code |-> code, client |-> c, ticked |-> ticked]}
    /\ UNCHANGED <<time, held, spent, withdrawn, late, shared>>

\* An approval becomes a token.
Hand(a, t) ==
    /\ a.code \in withdrawn => a.code \in late
    /\ (\E s \in spent : s.code = a.code) => a.code \in shared
    /\ \A s \in spent : s.token # t
    /\ held' = held \cup
          {[token |-> t, code |-> a.code, client |-> a.client,
            traces |-> a.ticked, until |-> time + Life]}
    /\ spent' = spent \cup {[token |-> t, code |-> a.code]}
    /\ UNCHANGED <<time, given, withdrawn, late, shared>>

\* The owner withdraws what was given to the clients in C.
Withdraw(C) ==
    LET theirs == {a.code : a \in {b \in given : b.client \in C}} IN
    /\ held' = {h \in held : h.client \notin C}
    /\ withdrawn' = withdrawn \cup theirs
    /\ late \subseteq late' /\ late' \subseteq late \cup theirs
    /\ UNCHANGED <<time, given, spent, shared>>

\* Two exchanges read an approval that is neither spent nor withdrawn.
Share(a) ==
    /\ a.code \notin withdrawn
    /\ \A s \in spent : s.code # a.code
    /\ shared' = shared \cup {a.code}
    /\ UNCHANGED <<time, given, held, spent, withdrawn, late>>

\* Tokens whose time is over are deleted.
Expire ==
    /\ held' = {h \in held : h.until > time}
    /\ UNCHANGED <<time, given, spent, withdrawn, late, shared>>

Pass ==
    /\ time' = time + 1
    /\ UNCHANGED <<given, held, spent, withdrawn, late, shared>>

Next ==
    \/ \E code \in Codes, c \in Clients, ticked \in BOOLEAN : Approve(code, c, ticked)
    \/ \E a \in given, t \in Tokens : Hand(a, t)
    \/ \E C \in SUBSET Clients : Withdraw(C)
    \/ \E a \in given : Share(a)
    \/ Expire
    \/ Pass

Spec == Init /\ [][Next]_vars

=============================================================================
