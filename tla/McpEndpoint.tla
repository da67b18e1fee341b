----------------------------- MODULE McpEndpoint -----------------------------
(***************************************************************************)
(* POST /mcp from the gate's note in the connections ledger to the answer: *)
(* clients of both eras that find a version in common and then call tools, *)
(* the note of the versions they name (db.ts), the log of the calls        *)
(* (mcp.ts callTool), the tool count of the ledger (app.ts), the janitor's *)
(* statements on those tables, and the process that may stop in between.   *)
(*                                                                         *)
(* A store call is one step; it may fail, and every failure here is        *)
(* swallowed by the code.  Clients are external: what they send and how    *)
(* they take an answer is what mcp.ts says of the two eras.                *)
(***************************************************************************)
EXTENDS McpEras, Integers, Sequences, FiniteSets

CONSTANTS
    Clients,     \* those that want to speak MCP
    Kind,        \* [Clients -> {"legacy", "modern", "dual"}]
    Speaks,      \* [Clients -> SUBSET SUBSET Versions]: what each may speak
    First,       \* [Clients -> Versions]: named in the first greeting
    Fallback,    \* [Clients -> Versions]: named in an initialize after that
    Odd,         \* requests that are neither a greeting nor well-formed work
    Principal,   \* [Clients -> principals of the ledger]
    Spared,      \* principals whose label starts with claude.ai
    MaxSeen,     \* MAX_PROTOCOL_VERSIONS
    CallsCap,    \* DEFAULT_CAPS.calls
    ConnCap,     \* DEFAULT_CAPS.connections
    MaxCalls,    \* bound: tool calls of a client
    MaxOdd,      \* bound: odd requests, of all together
    MaxTroubles  \* bound: stops, store errors and runs of the janitor, together

Principals == {Principal[c] : c \in Clients}

ASSUME EndpointAssumption ==
    /\ IsFiniteSet(Clients)
    /\ Odd \subseteq Request
    /\ Kind \in [Clients -> {"legacy", "modern", "dual"}]
    /\ Speaks \in [Clients -> SUBSET SUBSET Versions]
    /\ First \in [Clients -> Versions] /\ Fallback \in [Clients -> Versions]
    /\ Spared \subseteq Principals
    /\ MaxSeen \in Nat /\ CallsCap \in Nat /\ ConnCap \in Nat

VARIABLES
    peer,    \* by client: what it has settled on, or tries next
    flight,  \* by client: its request, and how far the server is with it
    seen,    \* settings.protocol_versions_seen
    calls,   \* mcp_calls, oldest first: who called
    conn,    \* connections: by principal, its counts
    older,   \* connections, by last_seen: which row is older than which
    jan,     \* the janitor's run
    left,    \* what remains of the bounds
    past     \* history: rows evicted, calls refused, what may be missing

ledger == <<conn, older>>

vars == <<peer, flight, seen, calls, ledger, jan, left, past>>

Peer == [phase : {"greeting", "settled", "failed"}, era : {"legacy", "modern"},
         version : Versions, speaks : SUBSET Versions]

\* "kept" is the list as the note read it, "ran" the outcome of the tool,
\* "told" the outcome the client is given.
NoFlight == [phase |-> "none", r |-> <<>>, kept |-> {}, ran |-> "none", told |-> "none"]
Phases == {"none", "sent", "gated", "read", "noted", "ran", "handled", "answered"}

JanSteps == <<"idle", "calls.days", "calls.count", "calls.oldest",
              "connections.idle", "connections.count", "connections.oldest">>

Outcomes == {"none", "ok", "error"}

Flight == [phase : Phases, r : Request \cup {<<>>}, kept : SUBSET Versions,
           ran : Outcomes, told : Outcomes]

\* A row of the ledger counts a request or a tool call.
Row == [requests : Nat, tools : Nat]
NoRow == [requests |-> 0, tools |-> 0]
Rows == {p \in Principals : conn[p] # NoRow}

TypeOK ==
    /\ peer \in [Clients -> Peer]
    /\ flight \in [Clients -> Flight]
    /\ \A s \in Clients : flight[s].phase # "none" => flight[s].r \in Request
    /\ seen \subseteq Versions /\ Cardinality(seen) <= MaxSeen
    /\ calls \in Seq(Clients)
    /\ conn \in [Principals -> Row] /\ older \subseteq Principals \X Principals
    /\ jan.at \in 1..Len(JanSteps)

----------------------------------------------------------------------------
(* What clients send: external, from what mcp.ts says of the eras. *)

Plain == [method |-> "ping", id |-> TRUE, bare |-> TRUE, asked |-> NoVersion,
          tool |-> NoTool, meta |-> NoMeta, header |-> NoVersion, mirror |-> {}]

\* A well-formed request of an era, in a version.
InEra(era, version, r) ==
    IF era = "modern"
    THEN [r EXCEPT !.meta = [reserved |-> TRUE, asked |-> version, caps |-> TRUE, sound |-> TRUE],
                   !.header = version, !.mirror = {"method", "name"}]
    ELSE [r EXCEPT !.header = version]

Greeting(p) ==
    IF p.era = "modern"
    THEN InEra("modern", p.version, [Plain EXCEPT !.method = "server/discover"])
    ELSE [Plain EXCEPT !.method = "initialize", !.asked = p.version, !.bare = FALSE]

Work(p, tool) ==
    InEra(p.era, p.version,
          [Plain EXCEPT !.method = "tools/call", !.tool = tool, !.bare = FALSE])

\* What a client makes of the answer to a greeting.
Taken(c, p, a) ==
    LET common == a.versions \cap p.speaks
    IN IF a.how = "result" /\ common # {}
       THEN {[p EXCEPT !.phase = "settled", !.version = v] : v \in common}
       ELSE IF a.how = "UnsupportedProtocolVersion" /\ common # {}
       THEN {[p EXCEPT !.version = v] : v \in common}
       ELSE IF Kind[c] = "dual" /\ p.era = "modern"
       THEN {[p EXCEPT !.era = "legacy", !.version = Fallback[c]]}
       ELSE {[p EXCEPT !.phase = "failed"]}

Idle(s) == flight[s].phase = "none"

Fly(s, r) == flight' = [flight EXCEPT ![s] = [NoFlight EXCEPT !.phase = "sent", !.r = r]]

Greet(c) ==
    /\ Idle(c) /\ peer[c].phase = "greeting"
    /\ Fly(c, Greeting(peer[c]))
    /\ UNCHANGED <<peer, seen, calls, ledger, jan, left, past>>

Call(c, tool) ==
    /\ Idle(c) /\ peer[c].phase = "settled"
    /\ left.calls[c] > 0
    /\ Fly(c, Work(peer[c], tool))
    /\ left' = [left EXCEPT !.calls[c] = @ - 1]
    /\ UNCHANGED <<peer, seen, calls, ledger, jan, past>>

\* A client out of order: its answer changes nothing for it.
Stray(c, r) ==
    /\ Idle(c)
    /\ left.odd > 0
    /\ Fly(c, r)
    /\ left' = [left EXCEPT !.odd = @ - 1]
    /\ UNCHANGED <<peer, seen, calls, ledger, jan, past>>

Receive(c) ==
    /\ flight[c].phase = "answered"
    /\ flight' = [flight EXCEPT ![c] = NoFlight]
    /\ IF peer[c].phase = "greeting" /\ flight[c].r = Greeting(peer[c])
       THEN \E p \in Taken(c, peer[c], Decide(flight[c].r).answer) :
                peer' = [peer EXCEPT ![c] = p]
       ELSE UNCHANGED peer
    /\ UNCHANGED <<seen, calls, ledger, jan, left, past>>

----------------------------------------------------------------------------
(* The server. *)

\* One of the bounded troubles: here, that a call of the store fails.
Trouble == left.troubles > 0 /\ left' = [left EXCEPT !.troubles = @ - 1]

\* connections.record: one upsert, the row becomes the latest; or nothing.
Upsert(who, requests, tools) ==
    /\ conn' = [conn EXCEPT ![who].requests = @ + requests, ![who].tools = @ + tools]
    /\ older' = {e \in older : who \notin {e[1], e[2]}} \cup ((Rows \ {who}) \X {who})

Record(s, requests, tools) ==
    \/ Upsert(Principal[s], requests, tools) /\ UNCHANGED <<past, left>>
    \/ Trouble /\ UNCHANGED ledger /\ past' = [past EXCEPT !.torn = @ \cup {Principal[s]}]

\* MUTANT of GateNote: a tool call is left to the handler to count.
GateNoteUncounted(s) ==
    LET r == flight[s].r
    IN /\ flight[s].phase = "sent"
       /\ Record(s, IF r.method = "tools/call" THEN 0 ELSE 1, 0)
       /\ flight' = [flight EXCEPT ![s].phase =
                        IF Decide(r).note = NoVersion THEN "noted" ELSE "gated"]
       /\ UNCHANGED <<peer, seen, calls, jan>>

\* onBeforeHandle counts the request (Gate has let it in).
GateNote(s) ==
    LET r == flight[s].r
    IN /\ flight[s].phase = "sent"
       /\ Record(s, 1, 0)
       /\ flight' = [flight EXCEPT ![s].phase =
                        IF Decide(r).note = NoVersion THEN "noted" ELSE "gated"]
       /\ UNCHANGED <<peer, seen, calls, jan>>

\* History: the note of a version is done; what is not in the list for it.
Noted(v, missing) ==
    [past EXCEPT !.noted = @ \cup {v}, !.dropped = (@ \ {v}) \cup missing]

\* MUTANT of NoteRead: the list grows with every version it has not seen.
NoteReadUncapped(s) ==
    LET v == Decide(flight[s].r).note
    IN /\ flight[s].phase = "gated"
       /\ flight' = [flight EXCEPT ![s].kept = IF v \in seen THEN {} ELSE seen,
                                  ![s].phase = IF v \in seen THEN "noted" ELSE "read"]
       /\ past' = IF v \in seen THEN Noted(v, {}) ELSE past
       /\ UNCHANGED <<peer, seen, calls, ledger, jan, left>>

\* noteProtocolVersion reads the list (an unreadable one is an empty one) ...
NoteRead(s) ==
    LET r == flight[s].r
    IN /\ flight[s].phase = "gated"
       /\ \E list \in {seen, {}} :
          /\ IF list = seen THEN UNCHANGED left ELSE Trouble
          /\ LET skip == Decide(r).note \in list \/ Cardinality(list) >= MaxSeen
            IN /\ flight' = [flight EXCEPT ![s].kept = IF skip THEN {} ELSE list,
                                           ![s].phase = IF skip THEN "noted" ELSE "read"]
               /\ past' = IF skip THEN Noted(Decide(r).note, {Decide(r).note} \ seen) ELSE past
       /\ UNCHANGED <<peer, seen, calls, ledger, jan>>

\* ... and writes it back with the version, or fails.
NoteWrite(s) ==
    LET r == flight[s].r
        v == Decide(r).note
        list == flight[s].kept \cup {v}
    IN /\ flight[s].phase = "read"
       /\ \/ seen' = list /\ past' = Noted(v, seen \ list) /\ UNCHANGED left
          \/ Trouble /\ UNCHANGED seen /\ past' = Noted(v, {v} \ seen)
       /\ flight' = [flight EXCEPT ![s].kept = {}, ![s].phase = "noted"]
       /\ UNCHANGED <<peer, calls, ledger, jan>>

\* The body of a call that names a tool, as app.ts reads it.
NamesTool(r) == r.method = "tools/call" /\ r.tool # NoTool

\* handleMcp answers what calls no tool, or is refused; it logs nothing of it.
Respond(s) ==
    /\ flight[s].phase = "noted" /\ ~Decide(flight[s].r).call
    /\ flight' = [flight EXCEPT ![s].phase = "handled"]
    /\ past' = IF NamesTool(flight[s].r)
               THEN [past EXCEPT !.refused[Principal[s]] = @ + 1]
               ELSE past
    /\ UNCHANGED <<peer, seen, calls, ledger, jan, left>>

\* callTool: the tool itself.  One that is not named is not known.
Run(s) ==
    /\ flight[s].phase = "noted" /\ Decide(flight[s].r).call
    /\ \E outcome \in IF flight[s].r.tool = NoTool THEN {"error"} ELSE {"ok", "error"} :
          flight' = [flight EXCEPT ![s].ran = outcome, ![s].told = outcome, ![s].phase = "ran"]
    /\ UNCHANGED <<peer, seen, calls, ledger, jan, left, past>>

\* callTool: logCall, whose failure is swallowed.
Log(s) ==
    /\ flight[s].phase = "ran"
    /\ \/ calls' = Append(calls, s) /\ UNCHANGED <<past, left>>
       \/ Trouble /\ UNCHANGED calls /\ past' = [past EXCEPT !.torn = @ \cup {Principal[s]}]
    /\ flight' = [flight EXCEPT ![s].phase = "handled"]
    /\ UNCHANGED <<peer, seen, ledger, jan>>

\* app.ts, once handleMcp has returned: a body that names a tool is counted as
\* a tool call, whether the tool ran or the call was refused.
Count(s) ==
    /\ flight[s].phase = "handled"
    /\ IF NamesTool(flight[s].r) THEN Record(s, 0, 1) ELSE UNCHANGED <<ledger, past, left>>
    /\ flight' = [flight EXCEPT ![s].phase = "answered"]
    /\ UNCHANGED <<peer, seen, calls, jan>>

\* The process stops, and comes back; callers find the connection closed.
Stop ==
    /\ Trouble
    /\ flight' = [s \in Clients |-> NoFlight]
    /\ jan' = [at |-> 1, over |-> 0]
    /\ UNCHANGED <<peer, seen, calls, ledger, past>>

----------------------------------------------------------------------------
(* The janitor's statements on mcp_calls and connections, in their order.  *)
(* One that fails is an entry in the report, and has deleted nothing.      *)

At(name) == JanSteps[jan.at] = name
Move(over) == jan' = [at |-> (jan.at % Len(JanSteps)) + 1, over |-> over]

JanitorStarts ==
    /\ At("idle") /\ Trouble
    /\ Move(0)
    /\ UNCHANGED <<peer, flight, seen, calls, ledger, past>>

\* The places of a principal's calls in the log.
CallsOf(p) == {i \in DOMAIN calls : Principal[calls[i]] = p}

\* The first k rows leave the log.
Evict(k) ==
    /\ calls' = SubSeq(calls, k + 1, Len(calls))
    /\ past' = [past EXCEPT !.gone = [p \in Principals |->
                   @[p] + Cardinality(CallsOf(p) \cap 1..k)]]

\* calls.days: those that are too old.
CallsDays ==
    /\ At("calls.days") /\ Move(0)
    /\ \E k \in 0..Len(calls) : Evict(k)
    /\ UNCHANGED <<peer, flight, seen, ledger, left>>

Counts ==
    /\ \/ At("calls.count") /\ Move(Len(calls) - CallsCap)
       \/ At("connections.count") /\ Move(Cardinality(Rows) - ConnCap)
       \/ (At("calls.count") \/ At("connections.count")) /\ Move(0)
    /\ UNCHANGED <<peer, flight, seen, calls, ledger, left, past>>

\* How many rows a cap deletes, of so many: none unless too many were counted.
Surplus(rows) == LET n == IF jan.over < rows THEN jan.over ELSE rows IN IF n > 0 THEN n ELSE 0

\* calls.cap: as many of the oldest as were counted too many.
CallsOldest ==
    /\ At("calls.oldest") /\ Move(0)
    /\ \E k \in {0, Surplus(Len(calls))} : Evict(k)
    /\ UNCHANGED <<peer, flight, seen, ledger, left>>

\* The k rows seen least lately, of some.
Oldest(rows, k) == {p \in rows : Cardinality({q \in rows : <<q, p>> \in older}) < k}

Forgotten(rows) ==
    /\ conn' = [p \in Principals |-> IF p \in rows THEN NoRow ELSE conn[p]]
    /\ older' = {e \in older : {e[1], e[2]} \cap rows = {}}
    /\ past' = [past EXCEPT !.torn = @ \cup rows]
    /\ UNCHANGED <<peer, flight, seen, calls, left>>

\* connections.idle: those not seen for 90 days, but for claude.ai.  No
\* request lasts that long.
ConnectionsIdle ==
    /\ At("connections.idle") /\ Move(0)
    /\ \E k \in 0..Cardinality(Rows) :
          /\ \A s \in Clients : Principal[s] \in Oldest(Rows, k) => Idle(s)
          /\ Forgotten(Oldest(Rows, k) \ Spared)

\* connections.cap: the oldest that are not claude.ai, as many as were counted
\* too many of all.
ConnectionsOldest ==
    /\ At("connections.oldest") /\ Move(0)
    /\ LET plain == Rows \ Spared
       IN \E k \in {0, Surplus(Cardinality(plain))} : Forgotten(Oldest(plain, k))

----------------------------------------------------------------------------

Init ==
    /\ \E speaks \in [Clients -> SUBSET Versions] :
          /\ \A c \in Clients : speaks[c] \in Speaks[c]
          /\ peer = [c \in Clients |->
                        [phase |-> "greeting", version |-> First[c], speaks |-> speaks[c],
                         era |-> IF Kind[c] = "legacy" THEN "legacy" ELSE "modern"]]
    /\ flight = [s \in Clients |-> NoFlight]
    /\ seen = {} /\ calls = <<>>
    /\ conn = [p \in Principals |-> NoRow] /\ older = {}
    /\ jan = [at |-> 1, over |-> 0]
    /\ left = [calls |-> [c \in Clients |-> MaxCalls], odd |-> MaxOdd,
               troubles |-> MaxTroubles]
    /\ past = [gone |-> [p \in Principals |-> 0], refused |-> [p \in Principals |-> 0],
               torn |-> {}, noted |-> {}, dropped |-> {}]

Serve(s) ==
    \/ GateNote(s) \/ NoteRead(s) \/ NoteWrite(s)
    \/ Respond(s) \/ Run(s) \/ Log(s) \/ Count(s)

Janitor ==
    \/ JanitorStarts \/ CallsDays \/ Counts \/ CallsOldest
    \/ ConnectionsIdle \/ ConnectionsOldest

Next ==
    \/ \E c \in Clients : Greet(c) \/ Receive(c) \/ Serve(c)
    \/ \E c \in Clients, t \in Tools : Call(c, t)
    \/ \E c \in Clients, r \in Odd : Stray(c, r)
    \/ Stop
    \/ Janitor

Spec == Init /\ [][Next]_vars

\* The event loop goes on with a request it has begun, and a client that wants
\* to talk greets and reads what it is answered.
Fairness ==
    \A c \in Clients : WF_vars(Serve(c)) /\ WF_vars(Greet(c)) /\ WF_vars(Receive(c))

FairSpec == Spec /\ Fairness

----------------------------------------------------------------------------
(* Properties. *)

\* Once a client has settled on a version, the server takes every well-formed
\* request of its in the era of that version: what the handshake named is what
\* the routing (isModern) and the checks of the headers then expect.
SettledIsServed ==
    \A c \in Clients :
        peer[c].phase = "settled" =>
            /\ peer[c].version \in IF peer[c].era = "modern" THEN Modern ELSE Legacy
            /\ \A t \in Tools :
                  LET a == Decide(Work(peer[c], t)).answer
                  IN a.how = "result" /\ a.era = peer[c].era

\* The version a client names in an initialize.
Asks(c) == IF Kind[c] = "legacy" THEN First[c] ELSE Fallback[c]

\* Whether a client and this server have a version in common that their
\* handshake can find.
CanSettle(c) ==
    \/ Kind[c] # "legacy" /\ peer[c].speaks \cap Modern # {}
    \/ Kind[c] # "modern" /\ Negotiated(Asks(c)) \in peer[c].speaks

\* No client that could come to a version is answered so that it gives up: an
\* error it cannot learn from, a version it does not speak where there was one
\* it does, or nothing left to try.
NobodyGivesUp == \A c \in Clients : CanSettle(c) => peer[c].phase # "failed"

HandshakeIsSound == SettledIsServed /\ NobodyGivesUp

\* Calls of a principal that were logged, evicted or not.
Logged(p) == Cardinality(CallsOf(p)) + past.gone[p]

\* Tool calls of a principal that handleMcp is done with: run and logged, or
\* refused, which no log shows.
Handled(p) == Logged(p) + past.refused[p]

\* The three observers of a request agree whatever stops between them.  A tool
\* call the ledger counts is one that is logged or that was refused (app.ts
\* counts by the body alone), and each of these is of a request the ledger
\* counts - unless a write failed or the ledger's row was evicted.
CountsAgree ==
    \A p \in Principals \ past.torn :
        conn[p].tools <= Handled(p) /\ Handled(p) <= conn[p].requests

\* A version that was named is in the list, unless the list was full or the
\* store failed, or a note that overlapped wrote it away (db.ts:511).
VersionsNoted ==
    past.noted \subseteq seen \cup past.dropped

\* The client is told what the tool did, whatever became of the log.
ToldWhatRan == \A s \in Clients : flight[s].told = flight[s].ran

LedgersAgree == CountsAgree /\ VersionsNoted /\ ToldWhatRan

\* Modern, legacy or both: every such client comes to a version, however often
\* the server stops.
EveryClientSettles ==
    \A c \in Clients : CanSettle(c) ~> (peer[c].phase = "settled")
=============================================================================
