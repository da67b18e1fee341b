-------------------------------- MODULE Gate --------------------------------
(***************************************************************************)
(* The gate in front of every route (auth.ts, the onBeforeHandle hook of   *)
(* auth-plugin.ts), what server.ts does to a request before it gets there, *)
(* the refusals of boot.ts that decide which configurations exist, and the *)
(* cached lookup of Home Assistant admins (ha-admin.ts).  What the callers  *)
(* it publishes may read of one another is Sight's.                        *)
(*                                                                         *)
(* Of all requests only those the lookup decides keep a state here: the    *)
(* others are decided by Verdict, and the rows they leave are those of     *)
(* RateLimit and McpEndpoint.                                              *)
(*                                                                         *)
(* Time is counted in ticks; ages above Horizon are not told apart.        *)
(***************************************************************************)
EXTENDS Sight

CONSTANTS
    Movers,    \* bound: those whose standing Core may change
    Addrs,     \* addresses a socket may come from
    NoAddr,    \* INGRESS_PEER is not one address of the hassio bridge
    Callers,   \* requests at once that ask for the same lookup
    Envs,      \* environments the server may be started with
    Requests,  \* requests it may be sent
    Keep,      \* an answer of Core is kept: 60 s
    KeepNone,  \* a failed lookup answers "nobody" for 5 s
    Timeout    \* a lookup is given up after 3 s

\* The oldest answer that may still be used.
Horizon == Keep + Timeout

Lengths == {"blank", "short", "long"}

Env == [passphrase : Lengths, apiToken : Lengths,
        require : BOOLEAN, allowOpen : BOOLEAN,
        supervisor : BOOLEAN, data : BOOLEAN, proofPeer : BOOLEAN,
        peer : Addrs \cup {NoAddr}, trusted : SUBSET Addrs,
        autoLogin : BOOLEAN, haAdmins : BOOLEAN, listed : SUBSET Users]

\* What of a request the gate reads.  "claim" is the peer header as the
\* client sent it, "forwarded" the address a forwarded header names.
Request == [verb : {"GET", "POST", "OPTIONS"}, path : {"public", "api", "mcp"},
            bearer : {"none", "malformed", "static", "token"},
            cookie : {"none", "good", "bad"},
            peer : Addrs, claim : Addrs, forwarded : Addrs,
            prefix : BOOLEAN, user : Users \cup {NoUser}, mark : BOOLEAN]

ASSUME GateAssumption ==
    /\ Envs \subseteq Env
    /\ Requests \subseteq Request
    /\ Movers \subseteq Users
    /\ NoUser \notin Users /\ NoAddr \notin Addrs
    /\ Keep \in Nat \ {0} /\ KeepNone \in 1..Keep /\ Timeout \in Nat \ {0}

VARIABLES
    env,     \* the environment the server runs with
    up,      \* it listens
    admins,  \* Core: active users who are owner or in system-admin
    since,   \* Core: how long each user has been what he is
    ids,     \* adminChecker: the ids of the last answer
    left,    \* adminChecker: time until expires
    load,    \* adminChecker: pending, the lookup under way
    ask,     \* by caller: the request that waits for the lookup
    heard    \* history: the last lookup succeeded

vars == <<env, up, admins, since, ids, left, load, ask, heard>>

NoLoad == [phase |-> "none", age |-> 0, told |-> {}]

Load == [phase : {"none", "dialled", "presented", "listing", "told"},
         age : 0..Timeout, told : SUBSET Users]

\* age and lack are history: how long ago the user was last an admin, and
\* last was not one, when the request was decided.
NoAsk == [phase |-> "none", user |-> NoUser, marked |-> TRUE,
          age |-> 0, lack |-> 0, sure |-> TRUE]

Asking == [phase : {"none", "waiting", "woken", "in", "out", "csrf"},
           user : Users \cup {NoUser}, marked : BOOLEAN,
           age : 0..(Horizon + 1), lack : 0..(Horizon + 1), sure : BOOLEAN]

TypeOK ==
    /\ env \in Env
    /\ up \in BOOLEAN
    /\ admins \subseteq Users
    /\ since \in [Users -> 0..(Horizon + 1)]
    /\ ids \subseteq Users
    /\ left \in 0..Keep
    /\ load \in Load
    /\ ask \in [Callers -> Asking]
    /\ heard \in BOOLEAN

----------------------------------------------------------------------------
(* Starting: boot.ts, in the order of its comment. *)

InsideAddon(e) == e.supervisor \/ e.data

NoSecret(e) ==
    /\ ~e.allowOpen
    /\ e.passphrase = "blank"
    /\ e.require \/ e.apiToken = "blank"

BootProblem(e) ==
    \/ NoSecret(e)
    \/ e.apiToken = "short"
    \/ e.passphrase = "short"
    \/ e.peer = NoAddr
    \/ e.peer \in e.trusted
    \/ InsideAddon(e) /\ (e.allowOpen \/ e.proofPeer)
    \/ e.haAdmins /\ ~e.supervisor

\* authEnabled.
Guarded(e) == e.passphrase # "blank" \/ e.apiToken # "blank"

----------------------------------------------------------------------------
(* One request. *)

\* server.ts fetch: the peer header is what the socket says, whatever was
\* sent under its name; forwarded headers stay only from a trusted proxy.
Stamped(e, r) ==
    [r EXCEPT !.claim = r.peer,
              !.forwarded = IF r.peer \in e.trusted THEN @ ELSE r.peer]

\* remoteAddress, clientIp: the key of the guessing budgets.
Address(e, r) == Stamped(e, r).forwarded

\* fromIngress.
FromIngress(e, r) ==
    /\ e.autoLogin
    /\ r.prefix
    /\ r.claim = e.peer
    /\ r.claim \notin e.trusted

\* admitIngress, up to where it asks Core.
Ingress(e, r) ==
    IF r.user = NoUser THEN "denied"
    ELSE IF r.user \in e.listed \/ (e.listed = {} /\ ~e.haAdmins) THEN "ingress"
    ELSE IF e.haAdmins THEN "ask"
    ELSE "named"

\* A bearer decides alone: a static token, a token of OAuthGrants, or a no.
Bearer(e, r) ==
    IF r.bearer = "static" /\ e.apiToken # "blank" THEN "api-token"
    ELSE IF r.bearer = "token" /\ e.passphrase # "blank" THEN "oauth"
    ELSE "denied"

Ambient(e, r) ==
    IF r.cookie = "good" THEN "owner-session"
    ELSE IF FromIngress(e, r) THEN Ingress(e, r)
    ELSE "denied"

\* MUTANT of Authenticate: a bearer that is refused leaves it to the others.
AuthenticateFallThrough(e, r) ==
    IF r.bearer # "none" /\ Bearer(e, r) # "denied" THEN Bearer(e, r) ELSE Ambient(e, r)

\* authenticate.
Authenticate(e, r) == IF r.bearer # "none" THEN Bearer(e, r) ELSE Ambient(e, r)

\* The CSRF rule.
Marked(method, r) ==
    \/ method \notin {"owner-session", "ingress"}
    \/ r.verb # "POST" \/ r.path # "api"
    \/ r.mark

\* onBeforeHandle.  "open" is a request that passes with no caller published,
\* "ask" one the lookup decides (Decide).
Verdict(e, r) ==
    LET s == Stamped(e, r)
        m == Authenticate(e, s)
    IN IF ~Guarded(e) \/ s.verb = "OPTIONS" \/ s.path = "public" THEN "open"
       ELSE IF ~Marked(m, s) THEN "csrf"
       ELSE m

\* buildCaller, callerFor: the caller the handlers are given, who is "open"
\* where the gate published none.  A token is any client's, with any scope.
Published(e, r) ==
    LET v == Verdict(e, r)
    IN {c \in Caller :
          /\ c.method = IF v = "ask" THEN "ingress" ELSE v
          /\ c.user = IF c.method = "ingress" THEN r.user ELSE NoUser}

----------------------------------------------------------------------------
(* The server and Core. *)

Init ==
    /\ env \in Envs
    /\ up = FALSE
    /\ admins \in SUBSET Movers
    /\ since = [u \in Users |-> Horizon + 1]
    /\ ids = {} /\ left = 0 /\ load = NoLoad
    /\ ask = [c \in Callers |-> NoAsk]
    /\ heard = FALSE

Boot ==
    /\ ~up /\ ~BootProblem(env)
    /\ up' = TRUE
    /\ UNCHANGED <<env, admins, since, ids, left, load, ask, heard>>

\* The process ends: the cache and whoever waited for it are gone.
Stop ==
    /\ up
    /\ up' = FALSE
    /\ ids' = {} /\ left' = 0 /\ load' = NoLoad
    /\ ask' = [c \in Callers |-> NoAsk]
    /\ heard' = FALSE
    /\ UNCHANGED <<env, admins, since>>

\* Core makes a user an admin, or no longer one (isAdminUser).
CoreChanges(u) ==
    /\ admins' = IF u \in admins THEN admins \ {u} ELSE admins \cup {u}
    /\ since' = [since EXCEPT ![u] = 0]
    /\ UNCHANGED <<env, up, ids, left, load, ask, heard>>

----------------------------------------------------------------------------
(* The lookup. *)

IsAdmin(u) == u \in ids

\* What a caller is told; the CSRF rule comes after the lookup.
Decided(a) ==
    [phase |-> IF ~IsAdmin(a.user) THEN "out" ELSE IF a.marked THEN "in" ELSE "csrf",
     user |-> a.user, marked |-> a.marked,
     age |-> IF a.user \in admins THEN 0 ELSE since[a.user],
     lack |-> IF a.user \in admins THEN since[a.user] ELSE 0,
     sure |-> heard]

\* What the lookup is asked, in an environment: for whom, and whether the
\* request then meets the CSRF rule.
Lookups ==
    [e \in Envs |->
        {[user |-> r.user, marked |-> Marked("ingress", r)] :
            r \in {q \in Requests : Verdict(e, q) = "ask"}}]

\* MUTANT of Ask: what is known is answered while it is looked up again.
AskStale(c, q) ==
    LET a == [NoAsk EXCEPT !.phase = "waiting", !.user = q.user, !.marked = q.marked]
    IN /\ up
       /\ ask[c].phase = "none"
       /\ ask' = [ask EXCEPT ![c] = Decided(a)]
       /\ load' = IF left = 0 /\ load.phase = "none" THEN [load EXCEPT !.phase = "dialled"]
                  ELSE load
       /\ UNCHANGED <<env, up, admins, since, ids, left, heard>>

\* isHaAdmin: the cache answers at once; when it is out, the caller waits for
\* the lookup under way, or starts one.
Ask(c, q) ==
    LET a == [NoAsk EXCEPT !.phase = "waiting", !.user = q.user, !.marked = q.marked]
    IN /\ up
       /\ ask[c].phase = "none"
       /\ IF left > 0
          THEN ask' = [ask EXCEPT ![c] = Decided(a)] /\ UNCHANGED load
          ELSE /\ ask' = [ask EXCEPT ![c] = a]
               /\ load' = IF load.phase = "none" THEN [load EXCEPT !.phase = "dialled"]
                          ELSE load
       /\ UNCHANGED <<env, up, admins, since, ids, left, heard>>

\* readAdminIds: auth_required is answered with the token, auth_ok with
\* config/auth/list.
Converse ==
    /\ load.phase \in {"dialled", "presented"}
    /\ load' = [load EXCEPT !.phase = IF @ = "dialled" THEN "presented" ELSE "listing"]
    /\ UNCHANGED <<env, up, admins, since, ids, left, ask, heard>>

\* Core answers: its users as they are now.
Tell ==
    /\ load.phase = "listing"
    /\ load' = [load EXCEPT !.phase = "told", !.told = admins]
    /\ UNCHANGED <<env, up, admins, since, ids, left, ask, heard>>

Woken == [c \in Callers |-> IF ask[c].phase = "waiting"
                            THEN [ask[c] EXCEPT !.phase = "woken"] ELSE ask[c]]

\* The answer arrives.
Deliver ==
    /\ load.phase = "told"
    /\ ids' = load.told /\ left' = Keep /\ heard' = TRUE
    /\ load' = NoLoad
    /\ ask' = Woken
    /\ UNCHANGED <<env, up, admins, since>>

\* MUTANT of Failed: what was known is kept.
FailedKeepsIds ==
    /\ left' = KeepNone /\ heard' = FALSE
    /\ load' = NoLoad
    /\ ask' = Woken
    /\ UNCHANGED <<env, up, admins, since, ids>>

\* A failed lookup: nobody is an admin, for a while.
Failed ==
    /\ ids' = {} /\ left' = KeepNone /\ heard' = FALSE
    /\ load' = NoLoad
    /\ ask' = Woken
    /\ UNCHANGED <<env, up, admins, since>>

\* Refused, malformed, closed or in error, at any point of the exchange.
Break ==
    /\ load.phase # "none"
    /\ Failed

\* MUTANT of GiveUp: the timer is for the dialling alone.
GiveUpDialling ==
    /\ load.phase = "dialled" /\ load.age = Timeout
    /\ Failed

\* The timer, whatever was under way; an answer after it finds "done".
GiveUp ==
    /\ load.phase # "none" /\ load.age = Timeout
    /\ Failed

Decide(c) ==
    /\ ask[c].phase = "woken"
    /\ ask' = [ask EXCEPT ![c] = Decided(@)]
    /\ UNCHANGED <<env, up, admins, since, ids, left, load, heard>>

Leave(c) ==
    /\ ask[c].phase \in {"in", "out", "csrf"}
    /\ ask' = [ask EXCEPT ![c] = NoAsk]
    /\ UNCHANGED <<env, up, admins, since, ids, left, load, heard>>

\* MUTANT of Tick: the timer holds nothing up.
TickPastTimer ==
    /\ \A c \in Callers : ask[c].phase # "woken"
    /\ since' = [u \in Users |-> IF since[u] > Horizon THEN since[u] ELSE since[u] + 1]
    /\ left' = IF left > 0 THEN left - 1 ELSE 0
    /\ load' = IF load.phase = "none" THEN load ELSE [load EXCEPT !.age = @ + 1]
    /\ UNCHANGED <<env, up, admins, ids, ask, heard>>

\* Time passes; never past the timer, nor before a woken caller has gone on.
Tick ==
    /\ load.phase # "none" => load.age < Timeout
    /\ \A c \in Callers : ask[c].phase # "woken"
    /\ since' = [u \in Users |-> IF since[u] > Horizon THEN since[u] ELSE since[u] + 1]
    /\ left' = IF left > 0 THEN left - 1 ELSE 0
    /\ load' = IF load.phase = "none" THEN load ELSE [load EXCEPT !.age = @ + 1]
    /\ UNCHANGED <<env, up, admins, ids, ask, heard>>

Next ==
    \/ Boot \/ Stop
    \/ \E u \in Movers : CoreChanges(u)
    \/ \E c \in Callers : \E q \in Lookups[env] : Ask(c, q)
    \/ Converse \/ Tell \/ Deliver \/ Break \/ GiveUp
    \/ \E c \in Callers : Decide(c) \/ Leave(c)
    \/ Tick

Spec == Init /\ [][Next]_vars

\* Time passes, the timer of readAdminIds fires, and the event loop goes on
\* with a caller whose promise is settled.  Nothing is assumed of Core.
Fairness ==
    /\ WF_vars(Tick) /\ WF_vars(GiveUp)
    /\ \A c \in Callers : WF_vars(Decide(c))

FairSpec == Spec /\ Fairness

----------------------------------------------------------------------------
(* Properties. *)

\* The first credential presented decides: with a bearer in the request no
\* cookie and no ingress identity changes the answer (auth.ts:189).
OneCredentialDecides(e, r) ==
    r.bearer # "none" =>
        Verdict(e, r) = Verdict(e, [r EXCEPT !.cookie = "none", !.prefix = FALSE, !.user = NoUser])

\* What a client writes under the peer header changes nothing, and what it
\* writes as forwarded neither opens a door nor gives it a budget of its own,
\* unless it comes through a trusted proxy.
ClaimsDontCount(e, r) ==
    \A p \in Addrs :
        /\ Verdict(e, r) = Verdict(e, [r EXCEPT !.claim = p, !.forwarded = p])
        /\ r.peer \notin e.trusted =>
              Address(e, r) = Address(e, [r EXCEPT !.claim = p, !.forwarded = p])

\* A request that could do without a credential met the operator's choice to
\* be open, which no add-on can make.
OpenByChoice(e, r) ==
    Verdict(e, r) = "open" =>
        r.verb = "OPTIONS" \/ r.path = "public" \/ (e.allowOpen /\ ~InsideAddon(e))

\* What a browser sends by itself changes nothing without the mark.
AmbientIsMarked(e, r) ==
    Verdict(e, r) \in {"owner-session", "ingress"} =>
        r.verb # "POST" \/ r.path # "api" \/ r.mark

\* Only the one ingress peer, never a proxy, speaks for a Home Assistant user;
\* and for one the options do not name, only where they name nobody.
IngressIsIngress(e, r) ==
    Verdict(e, r) \in {"ingress", "ask", "named"} =>
        /\ r.bearer = "none" /\ r.peer = e.peer /\ r.peer \notin e.trusted
        /\ Verdict(e, r) = "ingress" => r.user \in e.listed \/ e.listed = {}

DecidesSoundly(e, r) ==
    /\ OneCredentialDecides(e, r)
    /\ ClaimsDontCount(e, r)
    /\ OpenByChoice(e, r)
    /\ AmbientIsMarked(e, r)
    /\ IngressIsIngress(e, r)

\* Whoever is let in is shown, beyond what everyone is, no name that is not for
\* him (Sight).
ShowsOnlyTheirs(e) == UNION {Published(e, r) : r \in Requests} \subseteq Discreet

\* Every configuration the server starts with decides every request soundly:
\* the refusals of boot.ts and the order of auth.ts together; and nobody it
\* lets in is told by any reading handler who asked for what, but who may be,
\* except for what the register of all who come betrays to everyone.
GateIsSound ==
    [][~up /\ up' => /\ \A r \in Requests : DecidesSoundly(env, r)
                    /\ ShowsOnlyTheirs(env)]_vars

\* Nobody is let in who was not an admin within the life of an answer and the
\* time it took to fetch it, whatever fails and whoever shares the lookup
\* (ha-admin.ts:100).
GrantIsRecent ==
    \A c \in Callers : ask[c].phase \in {"in", "csrf"} => ask[c].age < Horizon

\* An admin is turned away only after a lookup that failed, or because he
\* became one within that same time.
DenialIsEarned ==
    \A c \in Callers : ask[c].phase = "out" => ~ask[c].sure \/ ask[c].lack < Horizon

\* Whatever Core does, a request that waits for the lookup goes on.
EveryoneAnswered ==
    \A c \in Callers : ask[c].phase = "waiting" ~> ask[c].phase # "waiting"

=============================================================================
