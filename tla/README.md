# A verification project for trace-node

trace-node is a self-hosted knowledge node: one Bun process, one SQLite file,
an HTTP API, an MCP endpoint, a page for its owner, and a ledger of what was
sought in it. This directory models the parts of it whose correctness depends on
the order in which things happen, checks them with TLC on small instances, and
proves the properties that matter most for every instance with TLAPS.

    tlc -config OAuthGrants.cfg OAuthGrantsMC     # any row of "Runs"
    tlapm OAuthGrantsProofs.tla                   # any module *Proofs

`PROJECT.json` holds the same information for a program: components, runs,
mutants (one plausible bug per property, which the run must then refute), the
map from definitions to source lines, findings, hazards, theorems.

## 1. The system

One process, one thread. Every handler is an `async` function over the store
port (`store/types.ts:4-54`), whose four calls `all`, `first`, `run` and `batch`
return promises. **Each call is atomic; every `await` between two calls is a
point where any other handler, or the janitor, may run.** A batch is one
transaction. That sentence is the interleaving model of every module here: it is
the contract of the port, not of one backend. How wide a window is depends on
what stands behind it. bun:sqlite answers inside the call, so an await on it is
one turn of the microtask queue, and two handlers alternate only if both are
runnable in that turn; the awaits on `crypto.subtle` (PBKDF2, SHA-256, HMAC) and
on the Supervisor leave the thread for real; D1, which `README.md:12` of the
repository deploys on, and a second process on the file, which `sqlite.ts:148-151`
expects, make every await a window.

| component | state | operations | talks to |
|---|---|---|---|
| OAuth grants (`oauth.ts`, `auth-plugin.ts`) | `oauth_clients`, `oauth_codes`, `oauth_tokens` | register, consent, exchange, verify, revoke one / all, sweep | gate, janitor, rate limit |
| Rate limit (`ratelimit.ts`) | `auth_attempts` | retryAfter, recordFailure, recordSuccess | `/login`, `/authorize`, `/oauth/register`, bearer gate, janitor |
| Trace ledger (`trace.ts`, `dig.ts`) | `traces`, `trace_days`, `digs` | trace a search or a read, dig, forget | HTTP, MCP, janitor |
| Owner's lock (`passphrase.ts`, `session.ts`) | one row of `settings`; cookies in browsers | log in, change, revert, verify | gate |
| Opening the database (`store/sqlite.ts`, `store/wal-probe.ts`) | the journal mode of the file, the schema, `schema_migrations` | probe the volume in a child process, set the mode, migrate, adopt a pre-ledger file | `server.ts`, a CLI beside it |
| Janitor (`janitor.ts`) | none of its own | retention and caps of every table, every 10 minutes | all tables |
| Content (`db.ts`) | `nodes`, `vocabularies`, `terms`, `node_terms`, `node_vectors` | create, edit, delete, tag; find-or-create; policies | HTTP, MCP |
| Connections (`connections.ts`) | `connections` | one upsert per request, one more per tool call | gate, MCP, janitor |
| Boot (`boot.ts`, `server.ts`) | the environment | refuse to start; stamp the peer on each request | gate |
| Gate (`auth.ts`, `utils.ts`, `ha-admin.ts`) | a cache of HA admin ids, one lookup under way | which credential decides; ingress; proxies; who the caller is | all routes |
| MCP (`mcp.ts`, `app.ts`) | `mcp_calls`, the list of protocol versions | two protocol eras, tools, the log of calls | connections, content, digs |
| Reports (`cloud.ts`, parts of `trace.ts`, `dig.ts`, `mcp.ts`) | none | aggregates over the ledger; which names a caller is shown | HTTP, MCP |
| UI, perf script | none that lasts | | |

What is hard about it, and what makes each part correct:

* **OAuth grants.** Read, delete and insert of an exchange are three statements.
  Correct means: every token answers a consent, at that redirect and with that
  verifier; a code is answered once; what is revoked stays dead; everyone who
  holds something is on the list the owner revokes from; no sweep takes a live
  token.
* **Rate limit.** Check and count are two statements around a slow hash, and
  both swallow store errors. Correct means: the number of wrong answers let
  through is bounded, and every hold ends.
* **Trace ledger.** The raw log is evicted, the day buckets never; both are
  forgotten together. A dig is four steps long. Correct means: it is a memory
  that only forgets when told to; forgotten stays forgotten; a dig's number is
  never given twice; the budget holds; a cap takes no more than the excess.
* **Owner's lock.** No session table: a session is a signature under a key made
  of the lock. Correct means: whoever holds a session opened the lock it is
  signed with, and signed out is signed out.
* **Opening the database.** A volume that cannot hold WAL blocks the thread that
  asks; migrations that cannot run twice, files from before the ledger, stops
  anywhere, a second process. Correct means: no process blocks itself but where
  its probe cannot see it coming; the ledger says what the schema has, nobody
  serves on less, and starting again recovers.
* **Content.** Find-or-create and two policies read before they write; cascades
  take rows from under handlers in flight. Correct means: nothing dangles; a
  controlled vocabulary holds what was put there on purpose; a node has a type
  its policy lists; an update moves what it was given; a delete says first what
  it takes.
* **Gate.** One of several credentials decides, out of headers any client may
  write; a cached lookup is shared by the requests that need it, fails, is
  overtaken by Core, or never answers. Correct means: whatever configuration the
  server starts with, the first credential decides and forged headers count for
  nothing; a grant is never older than the cache allows; nobody waits for good.
* **Who sees whom.** The rule is stated once, in a comment, and written out again
  in every handler that reads a table with names, but for three that show
  everyone let in who else comes (the connections, the OAuth clients, the
  timeline). Correct means: beyond what those three show, nobody learns who
  asked: two ledgers on which they agree, and which differ only in names a caller
  must not know, look the same to him in everything he may read and in what the
  digs of others left.
* **MCP and connections.** Two protocol eras on one endpoint; a request leaves its
  mark in three tables by separate writes, each of which may fail. Correct means:
  what a handshake names is served; every client that can come to a version
  does; the log, with the calls that were refused, and the ledger agree but for
  writes that failed.

Each hazard is listed with its line in `PROJECT.json`, those no property covers
yet with the reason.

## 2. Modules

| module | models | extends / instantiates |
|---|---|---|
| `OwnerGrants` | **abstract**: approvals given, tokens held on them, approvals withdrawn | |
| `OAuthGrants` | OAuth 2.1 grants, from registration to revocation; implements `OwnerGrants` | `INSTANCE OwnerGrants WITH given <- Given, held <- Held, ...` |
| `OAuthGrantsMC`, `OAuthGrantsProofs` | its instance, its proofs | `OAuthGrants` |
| `RateLimit`, `RateLimitMC`, `RateLimitProofs` | one row of `auth_attempts` and the attempts around it | |
| `TraceMemory` | **abstract**: what the ledger promises, a log and a memory by day | |
| `TraceLedger`, `TraceLedgerMC`, `TraceLedgerProofs` | reads, digs, forgets, janitor; implements `TraceMemory` | `INSTANCE TraceMemory WITH log <- Log` |
| `OwnerSession`, `OwnerSessionMC`, `OwnerSessionProofs` | the lock and the sessions | |
| `SchemaLedger`, `SchemaLedgerMC` | the migrations of `openSqliteStore`, for themselves | |
| `StoreBoot`, `StoreBootMC` | the WAL probe, the journal mode, then the migrations; implements `SchemaLedger` | extends `SchemaLedger` |
| `SchemaLedgerProofs` | the proofs of both | `StoreBoot` |
| `Catalogue` | **abstract**: headings, entries and nodes by name | |
| `Corpus`, `CorpusMC`, `CorpusProofs` | nodes, vocabularies, terms, taggings and their policies; implements `Catalogue` | `INSTANCE Catalogue WITH headings <- Headings, ...` |
| `Sight` | who is shown whose name, by which handler: operators, no state | |
| `Gate`, `GateMC`, `GateProofs` | boot's refusals, the gate's decision, the admin lookup | `Sight` |
| `McpEras` | one POST /mcp: its stack and its answer: operators, no state | |
| `McpEndpoint`, `McpEndpointMC`, `McpEndpointProofs` | clients, the endpoint, its three tables | `McpEras` |

The components meet in the store, and each table has one module that owns it;
the janitor's policy for a table is an action of that table's module, so there
is no module of the janitor alone.

### OwnerGrants and OAuthGrants

`clients`, `codes` and `tokens` are the tables; `flights` are the requests between
two awaits (an authorization that has looked the client up; an exchange that has
read its code; one that has deleted it and is about to mint). Actions and code:
`RegisterClient` (registerClient), `AuthorizeLookup` and `AuthorizeIssue` (POST
/authorize, issueCode), `ExchangeLookup`, `ExchangeBurn`, `ExchangeMint`,
`ExchangeSweep` (exchangeCode statement by statement, then the sweep the route
runs), `UseToken` (verifyBearer behind the gate), `RevokeClient`,
`RevokeAllClients`, `JanitorSweep`, `JanitorConnections`, `JanitorClients`, `Abort`
(any request that ends early), `Tick`. Hashes of codes and tokens are the codes and
tokens themselves (SHA-256 does not collide); a PKCE challenge is the verifier it
is made from. `history` records what was approved and handed out.

`OwnerGrants` is the server without codes, requests and statements: an approval
becomes a token with no more than its tick (`Hand`), once; `Withdraw` takes all of a
set of clients; a token past its life goes (`Expire`). What it cannot leave out are
two races, which it names: an approval under way when it was withdrawn (`late`) may
still become a token, and one that two exchanges read at once (`shared`) may become
two. The mapping is `Given` (the consents), `Held` (the token rows, each with the
approval it answers), `Spent`, and the marks `revoked`, `straddled`, `overlapped`. An
exchange maps its read to `Share` or a stutter, its delete to a stutter and its
insert to `Hand`; the janitor's sweep, which also deletes codes, to `Expire`.

### RateLimit

One (bucket, client address) row: rows are independent. `failures` is the count,
`since` the age of `last_at`; `admitted` are the attempts that passed
`retryAfter` and are now in PBKDF2. `door` says which bucket the row is of, since the
four differ in their free attempts. `Admit`, `AdmitBlind` (the check threw, and
is taken as 0), `Refuse`, `RefuseUncounted`, `Accept`, `Drop`, `JanitorAttempts`,
`Tick`. `guessed` counts the wrong answers given on the row. Ages above the
window are not told apart; nothing in the code tells them apart either, except
the janitor's day, for which an age past the window may stand.

### TraceMemory and TraceLedger

`TraceMemory` has a `log` of (id, key, day) and a `memory` of counts by key and
day, and three steps: seek (both grow together), evict (the log shrinks, the
memory does not), forget (both lose the key). `TraceLedger` keeps the three
tables, the digs in flight with their phase, the janitor's run as a program
counter (`sweep`), and the mapping `log <- Log`, `memory <- days`. `Clip` and
`Norm` are the two conversions of a keyword, given as functions over the
spellings of an instance, so the order in which they are applied matters and is
checked. `Search` and `Read` are one action each, since `recordTrace` writes in one
batch; `DigStart`, `DigStamp`, `DigInsert`, `DigTrace`, `DigAbort` are the awaits of a
dig; `JanitorDays`, `JanitorCountTraces`, `JanitorCapTraces`, `JanitorCountDigs`,
`JanitorCapDigs` are the statements of the janitor, any of which may fail
(`JanitorSkip`) with the run going on.

### OwnerSession

`stored` is the settings row (a passphrase and the salt it was hashed with, or
`Bare`); `sessions` are the cookies browsers hold, each the key it was signed
with; `flights` are the logins and changes between two awaits. `LoginCheck` and
`Issue` are POST /login before and after PBKDF2; `ChangeGate`, `ChangeCheck`,
`ChangePut`, `Issue` are POST /api/passphrase; `ClearGate`, `ClearDelete`, `Issue`
its DELETE. `ReadStored` may answer "nothing stored" when the read fails.

### SchemaLedger

`done` is what the schema has, `ledger` what `schema_migrations` says; by process
`phase`, `left` (what the loop has not come to) and `baseline` (the pass adopts). A
migration is a number with what matters of its SQL: `Once` (a RENAME or ADD COLUMN,
which fails the second time) and `Needs` (the tables it alters). `Open`, `Inspect`,
`Apply` (SQL and record in one transaction), `Fail`, `FailByFault`, `Adopt`,
`AdoptTwice`, `Serve`, `Crash`.

### StoreBoot

What comes before the migrations, by process: `at` (where it is), `child` and
`late` (its probe's child and timer), `mode` (what it decided); `volume` (it holds
WAL's index, declines it, throws or blocks) and `fileMode` (the mode in the file's
header) are the disk's, `setting` is JOURNAL_MODE. `Given`, `Spawn`, `SpawnFails`,
`Deadline`, `Decide` are walProbe and its caller, `ChildTries` the child, `SetMode`
the pragmas; `Migrate` runs a step of `SchemaLedger` on an open file, `BootCrash` is a
stop before it. What the pragma does is SQLite's behaviour, as `wal-probe.ts:4-16`
and `sqlite.ts:143-152` report it: leaving WAL takes an exclusive lock
(`LockedOut`); taking WAL, and likewise leaving it, needs WAL's index first
(`NeedsIndex`), on which some volumes block or throw (`Opens`, `Outcome`); and the
mode stays in the header (`Left`). A file may come in either mode to any volume. So
the conversion that `sqlite.ts:146-148` speaks of, of a file that an earlier host
left in WAL mode, succeeds in the model only where WAL works: the probe tries a
scratch file, and says nothing of what the database's own header demands.
`test/wal-probe.test.ts:126-140` tests the conversion where it does.

### Catalogue and Corpus

`vocabs`, `terms`, `nodes`, `tags` are the tables; ids are counters, never given
twice, as the random ones are not. Four sets hold the requests in flight:
`filing` (find or create: `VocabularyCreate`, `TermCreate`, `TagNode`, then
`ResolveControlled` or `ResolveFree`, `FindNothing` or `FindVocab`, `AddVocab`,
`AddTerm`, `PutTag`, statement by statement through createVocabulary, createTerm,
resolveTermForTagging and tagNode), `creating` (`CreateNode` after
assertTypeAllowed, `InsertNode`, and then its term is filed), `updating`
(`UpdateRead`, `UpdateCheck`, `UpdateWrite`), `dropping` (`DropCount`, `Drop`).
`Untag` and `DeleteNode` are one statement. UNIQUE and REFERENCES are guards of
the inserts, ON DELETE CASCADE is in `Drop` and `DeleteNode`; a request whose
insert they refuse ends with `Abort`. `origin`, `late` and `stale` are history:
how a term came to be, and whether a policy, a term or another update came
between a request's read and its write.

`Catalogue` is the same content by name, without ids and without requests: `Begin` a
heading, `Enter` under it, `File` a node, `Close` a heading with all under it, `Add`,
`Edit`, `Discard` nodes. The mapping names each row by its vocabulary (`NameOf`); a row
that outlived it would be under no heading. What the refinement says is that
every handler, for all its reads and awaits, takes effect in one step and on the
names there are at that step: a request that knows its vocabulary by an id whose
name has been given again changes nothing.

### Gate and Sight

`env` is the environment of the process, `up` whether it listens. `BootProblem` is
boot.ts; `Stamped`, `FromIngress`, `Ingress`, `Bearer`, `Ambient`, `Authenticate`, `Marked`
and `Verdict` are what happens to a request from server.ts to the end of
onBeforeHandle, as one decision: nothing in it waits but the lookup. The lookup
has the state: `admins` and `since` are Core's, `ids` and `left` the cache of
adminChecker, `load` the one lookup under way, `ask` the requests that wait for it.
`Ask` is isHaAdmin, `Converse`, `Tell`, `Deliver`, `Break`, `GiveUp` are readAdminIds
and its timer, `Decide` the caller whose promise has settled. `age` and `lack` are
history: how long ago the user a request speaks for was last an admin, or last
not one, when it was decided.

`Sight` is what those callers then read. `Visibility` and `SeesPrincipals` are the
two rules of the code; `TraceOf`, `ListDigs`, `CallLog`, `RawPage`, `TraceItems`,
`DigCalls`, `Top` are the handlers that ask for them, each reduced to the names it
shows. Three ask for no caller at all and show everyone let in who else comes:
`Connections` (GET /api/connections: method, principal, counts, first and last
time, agent and address of each), `Clients` (GET /api/clients) and `Timeline`;
together they are `Public`. So no property can say that callers are hidden from
each other, since in this code they are not. What the rules do protect is who
asked for what: `OnlyNamesDiffer` says, without the handlers, which names a caller
has no business knowing, `AlikeTo` adds that `Public` is the same, and
`SeesNoOthers` that the whole `View` then is.

### McpEras and McpEndpoint

`McpEras` decides a request: `IsModern`, then `LegacyDecision` or `ModernDecision`
with the rules of handleModern in their order (`Refusal`). `McpEndpoint` carries the
decision out, await by await: `GateNote` (the gate's upsert), `NoteRead` and
`NoteWrite` (noteProtocolVersion), `Run` and `Log` (callTool) or `Respond` (whatever
calls no tool, or is refused), `Count` (the upsert of app.ts, which looks at the
method and the name in the body alone, so that a call handleModern refused is
counted as well). `seen` is the list, `calls` the log in order of age; `conn` is the
connections ledger by principal (a caller without a row is `NoRow`) and `older` says
whose row was seen before whose, which is all the janitor asks of `last_seen`: an
`Upsert` adds to one row and makes it the latest. `CallsDays`, `Counts`, `CallsOldest`, `ConnectionsIdle`, `ConnectionsOldest` the
janitor's statements on them (`jan`), `Stop` the process ending. Clients (`peer`,
`Greet`, `Receive`, `Call`, `Stray`) are external: a legacy client initializes, a
modern one discovers, a dual one tries both, as the comments of mcp.ts say. `past`
is history: what was evicted, how many named calls were refused, and whose rows a
failure left out of step.

## 3. Runs

| run | states | checks |
|---|---|---|
| `oauth_grants` | 825,180 | `TypeOK`, `HandoverIsApproved`, `TracesOnlyByTick`, `OneAnswerUnlessOverlapped`, `RevokedStaysDead`, `HoldersAreListed`, `GrantsAreTheOwners` (refinement) |
| `revocation_is_immediate` | finding | `RevocationIsImmediate` refuted |
| `rate_limit` | 31,872 | `TypeOK`, `GuessesBounded`, `HoldEnds` |
| `lockout_is_served` | finding | `LockoutIsServed` refuted |
| `trace_ledger` | about 2.5 million | `TypeOK`, `BucketsCoverRows`, `ForgottenStaysForgotten`, `TraceNamesItsDig`, `BudgetBounded`, `MemorySpec` (refinement), `CapKeepsNewest` |
| `owner_session` | 1,006,927 | `TypeOK`, `OpenedByItsLock`, `SignedOutStaysOut` |
| `signed_out_for_good` | finding | `SignedOutForGood` refuted |
| `store_boot` | 1,400,685 | `BootTypeOK`, `LedgerIsHonest`, `UpIsWhole`, `StuckOnlyIfTold`, `ComesUp` |
| `start_again_works` | finding | `StartAgainWorks` refuted |
| `corpus` | 1,965,719 | `TypeOK`, `ControlledIsDeliberate`, `TypeGuarded`, `OnlyPassedFieldsMove`, `DropIsAnnounced`, `ContentIsACatalogue` (refinement) |
| `gate` | 315,842 | `TypeOK`, `GrantIsRecent`, `DenialIsEarned`, `GateIsSound`, `EveryoneAnswered` |
| `mcp` | 1,447,810 | `TypeOK`, `HandshakeIsSound`, `LedgersAgree`, `EveryClientSettles` |

### Bounds, and why they are enough

* OAuthGrants: two clients, one allowed and one foreign redirect, two verifiers,
  one code value, two tokens, two requests in flight, codes that live 1 tick and
  tokens that live 2, three ticks. Two requests are what a race over a code or
  with a revocation takes; two tokens are what answering a code twice takes; a
  client beside the one revoked shows that it is left alone; a tick more than a
  lifetime lets rows expire and be swept while something else is going on. All
  ids are symmetric.
* RateLimit: the real values, 5/5/50/10 free attempts, a window of 15 minutes and
  an hour's cap, in half-minutes, two attempts in flight and one store error.
  The window is a bound of the code, so the clock needs none.
* TraceLedger: four spellings (a word, one longer than the cut, its cut, one
  that normalises to nothing) and one node id; two digs in flight; budget and
  caps of 1, so that one row more than allowed is already seen; days of two
  ticks, three ticks, two raw rows and two dig rows. Every property relates at
  most two rows.
* OwnerSession: the deployed secret, a long and a short passphrase; two requests
  in flight, two sessions, two changes, one failed read. Two changes make "the
  same passphrase again" possible, which is what the salt is for.
* SchemaLedger (only for `start_again_works`): five migrations shaped like 0001,
  0003, 0004, 0007 and 0009 (of ten), one process, one stop.
* StoreBoot: four migrations shaped like 0001, 0003, 0004 and 0009, two of which
  cannot run twice and two of which build on others; the server and one more
  process; a stop during the migrations, a failure of the file, and a slip before
  the migrations (a stop, a spawn that fails, a child that fails or is late on a
  sound volume). Initially: any of the four kinds of volume, any JOURNAL_MODE, a
  new file, a file with its ledger, or one without, at any length, and in either
  journal mode.
* Corpus: the one vocabulary name that guards types, two names for terms and
  types, two texts, two requests in flight, one node and two vocabularies ever
  created. Two vocabularies in turn under one name are what being made anew
  behind a request's back takes; a second node would relate to the first in no
  property.
* Gate: nine environments, one for each way to run the server (three of the
  add-on, one open by choice) and five that must be refused; every request over three
  addresses, two users, the bearers, cookies, paths and marks; one user whose
  standing Core may change and one the options name; two requests that share the
  lookup; an answer kept 2 ticks, a failure 1, a lookup given up after 1. Of
  Sight, ledgers of eight rows: the first three and the last three are of one of
  two persons behind the ingress peer and of two connectors, the two in the middle
  are anyone's of these four; and three ledgers that are all of one. Leaking a name
  takes a row of another, telling groups apart takes two rows, and a row between
  the first and the last of its principal is what the register leaves open.
  Ledgers that are alike and not equal exist for every kind of caller but the
  owner.
* McpEndpoint: a legacy client that asks for the modern version and a dual one
  that may or may not share it; two legacy versions, one modern, one unknown; a
  list of 2, caps of 1, one call each, one request out of order (a header that
  belies its body, a call that names no tool), and one trouble: a stop, a store
  error, or a run of the janitor.

### Fairness

* RateLimit assumes `WF_vars(Tick)`: time passes. `HoldEnds` needs nothing else.
* SchemaLedger and StoreBoot assume weak fairness of each process's own steps: it
  runs on, its timer fires, and if it ended it is started again, which the
  add-on's supervisor or the operator does. Stops and failures are bounded and
  under no fairness. `CHECK_DEADLOCK FALSE` there, since nothing is left to do
  once every process serves and the stops are used up.
* Gate assumes weak fairness of `Tick` (time passes), `GiveUp` (the timer of
  readAdminIds fires) and `Decide` (a settled promise is resumed). Nothing is
  assumed of Core: it may never answer.
* McpEndpoint assumes weak fairness of `Serve` (the event loop goes on with what it
  began) and, for each client, of `Greet` and `Receive`: it wants to talk.
  `CHECK_DEADLOCK FALSE`: the clients' calls are used up in the end.
* The other modules state safety only.

### Findings

Each is a run whose one property is what a comment or a document says, and TLC's
counterexample is a behaviour of the code:

1. a revocation between an exchange's delete and its insert is followed by a
   live token (`oauth.ts:402`);
2. a lockout longer than the 15-minute window is never served
   (`ratelimit.ts:95`);
3. a session signed out by changing the passphrase is good again once the
   passphrase is reverted (`auth-plugin.ts:255`);
4. a stop in the middle of adopting a pre-ledger file leaves one that no later
   start can open (`store/sqlite.ts:204`).

The passing properties say what holds in spite of these, with the exception
written into the property (`straddled`, `torn`, `masked`). Other exceptions are of
the same kind: a code is answered once unless two exchanges read it before either
deleted it (`overlapped`, `oauth.ts:318`); a type is one its policy lists unless it
is the empty string, which is written without asking (`Blank`, `db.ts:184`), or the
request was overtaken (`late`, `stale`); a process blocks on the journal pragma only
if it was told to use WAL or the file is in WAL mode already (`StuckOnlyIfTold`); it
comes up unless WAL was demanded of a volume that blocks or throws, the file came
in WAL mode to one that does not hold it (`MovedFile`), or it must leave WAL while
another keeps the file in it (`ComesUp`).

## 4. Proofs

Every theorem is `Spec => []P` (P of a state or of a step) or that one specification
implements another (`Memory!Spec`, `Owner!Spec`, `Content!Spec`, `SchemaLedger`'s
`Spec`), for all values of the
constants that satisfy the assumptions of the module: any number of clients,
requests, processes, any length of time. Each module `XProofs` has one inductive
invariant `IInv`, one lemma per action that it is preserved, `Invariance`, and one
short theorem per property.

* **OAuthGrantsProofs.** The properties speak of tokens, consents and
  revocations, and between them stand code rows and requests in flight. `IInv`
  adds that every code and every row held by a request comes from a consent with
  the same fields, that a code in the table or in flight is not yet answered
  unless two requests overlapped on it, and that a row read before a revocation
  is marked as such. `ImplementsOwnerGrants` takes `IInv` and one fact more: two
  exchanges past their delete with one approval, or one such and a token it became,
  are marked as overlapped (`Single`), though nothing in the tables tells. Then
  each action is a step of `OwnerGrants` (`ApproveMaps`, `ShareMaps`, `HandMaps`,
  `WithdrawMaps`, `ExpireMaps`) or leaves what the owner sees (`StepMaps`).
* **RateLimitProofs.** `IInv` adds that the row counts every wrong answer but one
  per store error (`Counted`), and that the answers given and those in flight
  exceed a count whose lockout fits in the window by at most one per attempt
  that can overlap and one per error (`Budget`). `HoldRunsOut` is the safety half of
  `HoldEnds`: a hold can grow while it lasts, by attempts admitted before it, but
  every step of it lowers, in lexicographic order, the store errors left, the
  attempts in flight and the wait (`UsesUp`).
* **TraceLedgerProofs.** Besides the shape: ids are fresh, `dig_seq` only grows,
  a dig in flight that is counted by `Under` holds its slot, so the budget
  follows from a counting argument over slots (cardinality lemmas); and
  `KeepsThePromise` shows each action to be a step of `TraceMemory` or a stutter.
  `CapsKeepNewest` counts: the `k` oldest of a finite table, ids breaking ties, are
  no more than `k` (`FewOldest`), so enough are left (`EnoughLeft`) if the table still
  has what was counted, which is so until a keyword is forgotten (`Covered`: inserts
  only add, and the other deletes come before the count or mark it as crossed).
* **OwnerSessionProofs.** Salts are drawn once (`Salted`), so a session signed out
  is not signed with the present key, or is signed with the deployed secret
  (`Outdated`); whoever is about to get a session opened the lock it will be
  signed with, or is marked as overtaken (`Cleared`).
* **SchemaLedgerProofs.** What a pass has behind it is recorded (`Behind`); so what
  the next migration needs is there, only an applied one can fail, and an
  adopting pass records the truth (`CaughtApplied`). Every step of `StoreBoot` is one
  of `SchemaLedger` or leaves its variables alone (`BootImplements`), so what is
  proved of the migrations holds of the whole boot. `NeverStuck` rests on
  `Informed`: who decided for WAL without being told had a child that came back
  from the pragma, and the volume is what it is; who decided for the rollback
  journal blocks only on a file that is in WAL mode, which nobody takes it out of
  while he is blocked. `DiesForAReason` is what stands
  behind `ComesUp`: while nothing is recorded, a strict pass is one that found
  an empty schema (`Unrecorded`), and once something is, what the schema has beyond
  the ledger is what an adopting pass has still to record (`Ahead`); so a migration
  fails on a sound file only where another process was there before, or adopts
  beside.
* **CorpusProofs.** A request carries what it read; `IInv` says what is still true
  of it. The vocabulary a tagging looked at stays free (`KindsSeen`: a kind never
  changes and ids are not given twice), a type let through stays allowed until a
  policy is set (`CreatesAllowed`, `UpdatesAllowed`: terms go only with their
  vocabulary), the row read is the row there until another update
  (`ReadsFresh`), and what an unforced delete counted is all there is
  (`CountsFresh`). `ImplementsCatalogue` rests on two parts of it: ids and names are of
  one row each (`Rows`, `NamesTell`) and every row has its vocabulary (`NothingDangles`,
  `Placed`), so a name stands for the same rows while its vocabulary is there
  (`NamesFixed`); then one lemma for each statement that writes.
* **GateProofs.** `GateSound` is about every environment and request: `Verdict` is
  first shown to be a function of what the properties allow it to depend on. The
  second half is a non-interference argument by kind of caller: for each, every
  operator of `Sight` is equal on two ledgers that are `AlikeTo` him (`SameView`), the
  persons of a scoped token up to renaming, and the agents because the timeline
  shows them (`AgentsArePublic`); and no trace item reaches the floor, so what a
  dig leaves to others names nobody (`NothingRemembered`). `Recent` and `Earned` rest
  on the age of what is known: whoever the answer under way names was an admin no
  longer ago than it has travelled (`Told`), whoever the cache names no longer ago
  than it has been kept and travelled (`Kept`), and a woken caller finds the cache
  alive (`Fresh`). `WaitIsBounded` is the safety half of `EveryoneAnswered`: whoever
  waits, waits for a lookup that is under way (`Attended`), the same one until it is
  answered, and its age only grows, up to the timer.
* **McpEndpointProofs.** A handshake under way names a version of its era
  (`Negotiates`), and a well-formed request of that version passes each rule of
  `Refusal` (`WorkIsServed`); a client that is still greeting has something left to
  find (`Hopeful`), so no answer makes it give up (`HandshakeSound`). A note between
  its read and its write has read a list with room (`HasRoom`), so the list keeps
  its cap whichever notes overlap, and what is missing from it is in `dropped`.
  `LedgersKept` is a balance by principal (`Balanced`): with the calls that are
  logged or refused and still to be counted added to the tools counted (`Due`), and
  those that are past the gate and neither logged nor refused yet to the log
  (`Owed`), the inequalities between the tools, the calls handled and the requests
  are inductive. Every action moves a term with its counterpart; the janitor
  moves rows of the log to `gone`; where a write is lost the principal is `torn`, and
  stays so.

The assumptions on constants are the named `ASSUME`s of the modules, which TLC
evaluates on every run.

Only model-checked: `HoldEnds`, `ComesUp`, `EveryoneAnswered` and `EveryClientSettles`,
since liveness under fairness is out of the prover's reach; of the first three the
step of the argument that is not about fairness is proved (`HoldRunsOut`,
`DiesForAReason`, `WaitIsBounded`). What the four findings refute is no theorem
either. Every other property of the runs is one.

## 5. What is not modelled, and why

* The ranking of digs, the tag cloud and the category reports: read-only SQL
  aggregates and arithmetic on floats, no state; what they show of names is in
  `Sight`.
* The search, listing and reading tools and routes of the content: they change
  nothing.
* Semantic search: the server opens the corpus without an embedder, so no vector
  is ever written; cosine ranking is arithmetic on floats.
* The user interface: HTML and a browser script; wording of errors, logs.
* The performance script: it measures a corpus it generates itself.
* Cryptography: hashes do not collide, signatures are not forged.
* The probe's scratch file, which no other process names, and the smoke test of
  SQLite's functions, a property of the build.
* The checkpoint of the janitor and the row it reports in, which is shown and
  never decided on.
* Labels in the connections and inputs in the log of calls: they are shown, never
  decided on, but for the `claude.ai` label the janitor spares, which is `Spared`.
  Addresses and agents are in `Sight` only, where it matters who reads them.
* A dig on a server whose throttling is off (`budget: false`): the same steps
  without the check.
* Two janitor runs at once: `server.ts` alone starts it, on bun:sqlite, whose calls
  answer at once, so a run is through before the timer of the next can fire.
* The RFC 8707 audience of a token: a refusal more, no state.
* Labels, weights, parents, dates and status of the content; several terms in
  one request, which are resolved one after another.

## 6. Plan

Done, in the order of importance: grants, rate limit, trace ledger with its
abstract specification, the owner's lock, the boot of the database and its
migrations, content, the gate with its lookup and what its callers see, the MCP
endpoint with its ledgers; each with proofs.

Left: an abstract specification of the connections and the log of calls, which now
are related by `LedgersAgree` alone.
