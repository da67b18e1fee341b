----------------------------- MODULE OAuthGrants -----------------------------
(***************************************************************************)
(* The OAuth server of trace-node (oauth.ts, its handlers in               *)
(* auth-plugin.ts, its SQL in sql.ts): dynamic client registration, the    *)
(* owner's approval, the exchange of an authorization code for a bearer    *)
(* token, revocation, and the housekeeping that deletes old rows.          *)
(*                                                                         *)
(* The store runs one statement, or one batch, atomically; a handler       *)
(* awaits between statements and other requests run there.  A handler is   *)
(* therefore one action per statement, and the set that holds a request    *)
(* (approving, reading, minting, sweeping) is the await it is parked at.   *)
(*                                                                         *)
(* Abstractions: a digest is the value it is the digest of (SHA-256 is     *)
(* injective here), so a PKCE challenge is the verifier that answers it;   *)
(* a random id is one never used before; "base" stands for the default     *)
(* scopes and "traces" for those plus traces:read.  The clock counts in    *)
(* units long enough for CodeTTL, TokenTTL and StaleAge to be integers.    *)
(***************************************************************************)
EXTENDS Naturals, FiniteSets

CONSTANTS
    Clients,           \* client ids registration can draw
    Redirects,         \* redirect URIs a client can name
    AllowedRedirects,  \* those whose host the operator allows
    Verifiers,         \* PKCE verifiers
    Codes,             \* authorization codes that can be drawn
    Tokens,            \* bearer tokens that can be drawn
    Requests,          \* slots for requests in flight
    CodeTTL,           \* CODE_TTL_SECONDS
    TokenTTL,          \* TOKEN_TTL_SECONDS
    StaleAge,          \* DEFAULT_RETENTION.clientsHours
    MaxRedirects,      \* MAX_REDIRECT_URIS
    MaxNow             \* bound on the clock

ASSUME GrantAssumption ==
    /\ AllowedRedirects \subseteq Redirects
    /\ CodeTTL \in Nat \ {0}
    /\ TokenTTL \in Nat \ {0}
    /\ StaleAge \in Nat
    /\ MaxRedirects \in Nat
    /\ MaxNow \in Nat

Scopes == {"base", "traces"}

ClientRow == [client: Clients, redirects: SUBSET Redirects, created: Nat]
CodeRow   == [code: Codes, client: Clients, redirect: Redirects,
              challenge: Verifiers, scope: Scopes, expires: Nat]
TokenRow  == [token: Tokens, client: Clients, scope: Scopes, expires: Nat]

\* What the owner is approving, between the client lookup and the code.
Approval == [req: Requests, client: Clients, redirect: Redirects,
             challenge: Verifiers, scope: Scopes, ticked: BOOLEAN]
\* What a token request presented, and the code row its SELECT returned.
Exchange == [req: Requests, client: Clients, redirect: Redirects,
             verifier: Verifiers, row: CodeRow]

\* History: what the owner approved, and what was handed out for it.
Consent  == [code: Codes, client: Clients, redirect: Redirects,
             challenge: Verifiers, ticked: BOOLEAN]
Handover == [token: Tokens, code: Codes, client: Clients,
             redirect: Redirects, verifier: Verifiers]

VARIABLES
    now,          \* nowSeconds()
    clients,      \* table oauth_clients
    codes,        \* table oauth_codes
    tokens,       \* table oauth_tokens
    seen,         \* clients with a row in table connections
    approving,    \* POST /authorize: client read, passphrase not yet checked
    reading,      \* POST /oauth/token: code row read, not yet deleted
    minting,      \* POST /oauth/token: code deleted, checks passed
    sweeping,     \* POST /oauth/token: token inserted, sweep not yet run
    known,        \* history: client ids ever drawn
    consents,     \* history: every approval that became a code
    handovers,    \* history: every token ever inserted
    answered,     \* history: codes some request presented and deleted
    twice,        \* history: codes answered more than once
    overlapped,   \* history: codes read by a request while another held them
    revoked,      \* history: codes whose client was revoked after approval
    straddled,    \* history: codes a request held while they were revoked
    raced         \* history: clients deleted while a request was using them

tables  == <<clients, codes, tokens, seen>>
flights == <<approving, reading, minting, sweeping>>
history == <<known, consents, handovers, answered, twice, overlapped,
             revoked, straddled, raced>>
vars    == <<now, tables, flights, history>>

TypeOK ==
    /\ now \in Nat
    /\ clients \subseteq ClientRow
    /\ codes \subseteq CodeRow
    /\ tokens \subseteq TokenRow
    /\ seen \subseteq Clients
    /\ approving \subseteq Approval
    /\ reading \subseteq Exchange
    /\ minting \subseteq Exchange
    /\ sweeping \subseteq Requests
    /\ known \subseteq Clients
    /\ consents \subseteq Consent
    /\ handovers \subseteq Handover
    /\ answered \subseteq Codes
    /\ twice \subseteq Codes
    /\ overlapped \subseteq Codes
    /\ revoked \subseteq Codes
    /\ straddled \subseteq Codes
    /\ raced \subseteq Clients

Init ==
    /\ now = 0
    /\ clients = {} /\ codes = {} /\ tokens = {} /\ seen = {}
    /\ approving = {} /\ reading = {} /\ minting = {} /\ sweeping = {}
    /\ known = {} /\ consents = {} /\ handovers = {}
    /\ answered = {} /\ twice = {} /\ overlapped = {}
    /\ revoked = {} /\ straddled = {} /\ raced = {}

Registered == {row.client : row \in clients}
Busy == {x.req : x \in approving \cup reading \cup minting} \cup sweeping

----------------------------------------------------------------------------
(* Registration: POST /oauth/register. *)

\* The redirect URIs registerClient accepts: some, not too many, all allowed.
AcceptableRedirects(uris) ==
    /\ uris # {}
    /\ uris \subseteq AllowedRedirects
    /\ Cardinality(uris) <= MaxRedirects

RegisterClient(c, uris) ==
    /\ c \notin known
    /\ AcceptableRedirects(uris)
    /\ known' = known \cup {c}
    /\ clients' = clients \cup {[client |-> c, redirects |-> uris, created |-> now]}
    /\ UNCHANGED <<now, codes, tokens, seen, flights, consents, handovers,
                   answered, twice, overlapped, revoked, straddled, raced>>

----------------------------------------------------------------------------
(* Approval: POST /authorize. *)

\* The client row, and exactly the redirect it registered.
KnownTarget(c, redirect) ==
    \E row \in clients : row.client = c /\ redirect \in row.redirects

\* Mutant: the scope the client asked for is granted as it stands.
GrantedAsAsked(asked, ticked) == asked
\* Mutant: traces:read is added without being dropped from the request first.
GrantedTwice(asked, ticked) ==
    CASE ticked /\ asked = "traces" -> "traces traces"
      [] ticked /\ asked = "base"   -> "traces"
      [] OTHER                      -> "base"

\* baseScope drops traces:read from whatever the client asked for; only the
\* checkbox the owner ticked puts it back.
GrantedScope(asked, ticked) == IF ticked THEN "traces" ELSE "base"

AuthorizeLookup(r, c, redirect, challenge, asked, ticked) ==
    /\ r \notin Busy
    /\ KnownTarget(c, redirect)
    /\ approving' = approving \cup
          {[req |-> r, client |-> c, redirect |-> redirect, challenge |-> challenge,
            scope |-> GrantedScope(asked, ticked), ticked |-> ticked]}
    /\ UNCHANGED <<now, tables, reading, minting, sweeping, history>>

\* The passphrase was right: issueCode stores a code bound to the approval.
\* (A wrong one, a lockout, a method other than S256: Abort, nothing stored.)
AuthorizeIssue(x, code) ==
    /\ \A k \in consents : k.code # code
    /\ approving' = approving \ {x}
    /\ codes' = codes \cup
          {[code |-> code, client |-> x.client, redirect |-> x.redirect,
            challenge |-> x.challenge, scope |-> x.scope, expires |-> now + CodeTTL]}
    /\ consents' = consents \cup
          {[code |-> code, client |-> x.client, redirect |-> x.redirect,
            challenge |-> x.challenge, ticked |-> x.ticked]}
    /\ UNCHANGED <<now, clients, tokens, seen, reading, minting, sweeping, known,
                   handovers, answered, twice, overlapped, revoked, straddled, raced>>

----------------------------------------------------------------------------
(* Exchange: POST /oauth/token. *)

\* OAUTH.codes.consume: the row, if it has not expired.
Redeemable(code) == {row \in codes : row.code = code /\ row.expires > now}

\* A SELECT that finds nothing answers invalid_grant and changes nothing.
ExchangeLookup(r, code, c, redirect, verifier) ==
    /\ r \notin Busy
    /\ \E row \in Redeemable(code) :
          reading' = reading \cup
             {[req |-> r, client |-> c, redirect |-> redirect,
               verifier |-> verifier, row |-> row]}
    /\ overlapped' = IF \E x \in reading : x.row.code = code
                       THEN overlapped \cup {code} ELSE overlapped
    /\ UNCHANGED <<now, tables, approving, minting, sweeping, known, consents,
                   handovers, answered, twice, revoked, straddled, raced>>

\* Mutant: the verifier is not compared.
ProvesWithoutPkce(x) ==
    /\ x.row.client = x.client
    /\ x.row.redirect = x.redirect

\* The checks behind the delete: client, redirect, PKCE.
Proves(x) ==
    /\ x.row.client = x.client
    /\ x.row.redirect = x.redirect
    /\ x.verifier = x.row.challenge

\* Mutant: only a successful exchange deletes the code.
CodesAfterSuccess(x) ==
    IF Proves(x) THEN {row \in codes : row.code # x.row.code} ELSE codes

\* The code goes whatever the checks say.
CodesAfterBurn(x) == {row \in codes : row.code # x.row.code}

ExchangeBurn(x) ==
    /\ reading' = reading \ {x}
    /\ codes' = CodesAfterBurn(x)
    /\ minting' = IF Proves(x) THEN minting \cup {x} ELSE minting
    /\ answered' = answered \cup {x.row.code}
    /\ twice' = IF x.row.code \in answered THEN twice \cup {x.row.code} ELSE twice
    /\ UNCHANGED <<now, clients, tokens, seen, approving, sweeping, known, consents,
                   handovers, overlapped, revoked, straddled, raced>>

ExchangeMint(x, t) ==
    /\ \A h \in handovers : h.token # t
    /\ minting' = minting \ {x}
    /\ sweeping' = sweeping \cup {x.req}
    /\ tokens' = tokens \cup
          {[token |-> t, client |-> x.row.client, scope |-> x.row.scope,
            expires |-> now + TokenTTL]}
    /\ handovers' = handovers \cup
          {[token |-> t, code |-> x.row.code, client |-> x.client,
            redirect |-> x.redirect, verifier |-> x.verifier]}
    /\ UNCHANGED <<now, clients, codes, seen, approving, reading, known, consents,
                   answered, twice, overlapped, revoked, straddled, raced>>

\* Mutant: the sweep runs one unit early.
SweepEarly ==
    /\ codes' = {row \in codes : row.expires > now + 1}
    /\ tokens' = {row \in tokens : row.expires > now + 1}

\* sweepExpired's batch: rows at or past their deadline.
SweepExpired ==
    /\ codes' = {row \in codes : row.expires > now}
    /\ tokens' = {row \in tokens : row.expires > now}

\* Best effort after a successful exchange; a failed sweep is Abort.
ExchangeSweep(r) ==
    /\ sweeping' = sweeping \ {r}
    /\ SweepExpired
    /\ UNCHANGED <<now, clients, seen, approving, reading, minting, history>>

\* A refusal, a store error at any statement, or a crash of the server: the
\* request is gone and its later statements never run.
Abort(r) ==
    /\ r \in Busy
    /\ approving' = {x \in approving : x.req # r}
    /\ reading' = {x \in reading : x.req # r}
    /\ minting' = {x \in minting : x.req # r}
    /\ sweeping' = sweeping \ {r}
    /\ UNCHANGED <<now, tables, history>>

----------------------------------------------------------------------------
(* Use and revocation. *)

\* verifyBearer
Accepts(row) == row.expires > now

\* The gate admits the bearer and folds the request into the ledger.  A bearer
\* refused for its audience (`resource`, not modelled) is no UseToken.
UseToken(row) ==
    /\ Accepts(row)
    /\ seen' = seen \cup {row.client}
    /\ UNCHANGED <<now, clients, codes, tokens, flights, history>>

\* History of a revocation of the clients in C.
RecordRevocation(C) ==
    /\ revoked' = revoked \cup {k.code : k \in {y \in consents : y.client \in C}}
    /\ straddled' = straddled \cup
          {x.row.code : x \in {y \in reading \cup minting : y.row.client \in C}}

\* Mutant: the batch revokes the tokens and leaves codes in flight.
RevokeTokensOnly(c) ==
    /\ tokens' = {row \in tokens : row.client # c}
    /\ RecordRevocation({c})
    /\ UNCHANGED <<now, clients, codes, seen, flights, known, consents, handovers,
                   answered, twice, overlapped, raced>>

\* DELETE /api/clients/:id, one batch.  The registration survives.
RevokeClient(c) ==
    /\ tokens' = {row \in tokens : row.client # c}
    /\ codes' = {row \in codes : row.client # c}
    /\ RecordRevocation({c})
    /\ UNCHANGED <<now, clients, seen, flights, known, consents, handovers,
                   answered, twice, overlapped, raced>>

\* DELETE /api/clients, one batch.
RevokeAllClients ==
    /\ tokens' = {}
    /\ codes' = {}
    /\ RecordRevocation(Clients)
    /\ UNCHANGED <<now, clients, seen, flights, known, consents, handovers,
                   answered, twice, overlapped, raced>>

----------------------------------------------------------------------------
(* Housekeeping (janitor.ts).  Every step is tried on its own and may fail  *)
(* on its own, so the steps are independent actions.                        *)

JanitorSweep ==
    /\ SweepExpired
    /\ UNCHANGED <<now, clients, seen, flights, history>>

\* An idle connection, or the oldest over the cap.
JanitorConnections(c) ==
    /\ c \in seen
    /\ seen' = seen \ {c}
    /\ UNCHANGED <<now, clients, codes, tokens, flights, history>>

\* Mutant: the subquery on oauth_codes is missing.
NeverHeldToken(row) ==
    /\ row.created + StaleAge < now
    /\ \A t \in tokens : t.client # row.client
    /\ row.client \notin seen

\* Registered a while ago, no token, no code in flight, never seen.
NeverAuthorized(row) ==
    /\ row.created + StaleAge < now
    /\ \A t \in tokens : t.client # row.client
    /\ \A k \in codes : k.client # row.client
    /\ row.client \notin seen

JanitorClients ==
    LET gone == {row \in clients : NeverAuthorized(row)}
        inUse == {x.client : x \in approving} \cup
                 {x.row.client : x \in reading \cup minting}
    IN  /\ gone # {}
        /\ clients' = clients \ gone
        /\ raced' = raced \cup ({row.client : row \in gone} \cap inUse)
        /\ UNCHANGED <<now, codes, tokens, seen, flights, known, consents, handovers,
                       answered, twice, overlapped, revoked, straddled>>

Tick ==
    /\ now < MaxNow
    /\ now' = now + 1
    /\ UNCHANGED <<tables, flights, history>>

----------------------------------------------------------------------------

Next ==
    \/ \E c \in Clients, uris \in SUBSET Redirects : RegisterClient(c, uris)
    \/ \E r \in Requests, c \in Clients, u \in Redirects, v \in Verifiers,
          asked \in Scopes, ticked \in BOOLEAN :
             AuthorizeLookup(r, c, u, v, asked, ticked)
    \/ \E x \in approving, code \in Codes : AuthorizeIssue(x, code)
    \/ \E r \in Requests, code \in Codes, c \in Clients, u \in Redirects,
          v \in Verifiers : ExchangeLookup(r, code, c, u, v)
    \/ \E x \in reading : ExchangeBurn(x)
    \/ \E x \in minting, t \in Tokens : ExchangeMint(x, t)
    \/ \E r \in sweeping : ExchangeSweep(r)
    \/ \E r \in Requests : Abort(r)
    \/ \E row \in tokens : UseToken(row)
    \/ \E c \in Clients : RevokeClient(c)
    \/ RevokeAllClients
    \/ JanitorSweep
    \/ \E c \in Clients : JanitorConnections(c)
    \/ JanitorClients
    \/ Tick

Spec == Init /\ [][Next]_vars

----------------------------------------------------------------------------
(* Properties. *)

\* Every token ever handed out answers one approval by the owner: it went to
\* the client, at the redirect and with the PKCE verifier that approval was
\* for, and that redirect is one the operator allows.  The whole chain
\* registration, approval, code and exchange (with rows deleted under it by
\* the janitor and by revocations) is what keeps this true.
HandoverIsApproved ==
    \A h \in handovers :
        \E k \in consents :
            /\ k.code = h.code
            /\ k.client = h.client
            /\ k.redirect = h.redirect
            /\ k.challenge = h.verifier
            /\ k.redirect \in AllowedRedirects

\* A live token reads traces only if the owner ticked the box on the approval
\* it came from; what the client asked for never widens it.
TracesOnlyByTick ==
    \A row \in tokens :
        row.scope = "traces" =>
            \E h \in handovers, k \in consents :
                /\ h.token = row.token
                /\ k.code = h.code
                /\ k.client = row.client
                /\ k.ticked

\* A code is answered once: whether the exchange succeeds or fails, a second
\* request gets nothing out of it, unless it had read the row while the first
\* request still held it (between the SELECT and the DELETE of exchangeCode).
OneAnswerUnlessOverlapped == twice \subseteq overlapped

\* After a revocation nothing the client was approved for before is a live
\* token or an exchangeable code, except a code some exchange had already
\* read when the revocation ran.
RevokedStaysDead ==
    \A h \in handovers, row \in tokens :
        h.token = row.token /\ h.code \in revoked => h.code \in straddled

\* Everyone who holds a token or a code is in the registration table, which is
\* what GET /api/clients lists and what the owner revokes from; the exception
\* is a client the janitor deleted while one of its requests was in flight.
HoldersAreListed ==
    \A c \in {row.client : row \in tokens} \cup {row.client : row \in codes} :
        c \in Registered \cup raced

\* The approvals, and the tokens in the table with the approval each answers.
Given == {[code |-> k.code, client |-> k.client, ticked |-> k.ticked] : k \in consents}
Held ==
    UNION {{[token |-> row.token, code |-> h.code, client |-> row.client,
             traces |-> row.scope = "traces", until |-> row.expires] :
                h \in {g \in handovers : g.token = row.token}} : row \in tokens}
Spent == {[token |-> h.token, code |-> h.code] : h \in handovers}

Owner == INSTANCE OwnerGrants WITH
    Life <- TokenTTL, time <- now, given <- Given, held <- Held, spent <- Spent,
    withdrawn <- revoked, late <- straddled, shared <- overlapped

\* However requests interleave, whatever fails and whatever the janitor
\* deletes, the server is one of OwnerGrants: a token comes of one approval
\* with its tick, one token of each but for reads that overlapped, none of a
\* withdrawn one but for an exchange under way, and a token that is still good
\* goes by a withdrawal alone.
GrantsAreTheOwners == Owner!Spec

\* oauth.ts:398 "The effect is immediate": no live token from an approval that
\* was revoked.
RevocationIsImmediate ==
    \A h \in handovers, row \in tokens :
        h.token = row.token => h.code \notin revoked

=============================================================================
