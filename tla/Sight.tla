-------------------------------- MODULE Sight --------------------------------
(***************************************************************************)
(* Who sees whom.  The trace log, the digs and the call log name the people *)
(* who asked; what a reading handler shows of the names depends on the     *)
(* caller the gate publishes (traceVisibility of cloud.ts, seesPrincipals  *)
(* of mcp.ts, isOwnerCaller of auth.ts), and is written out again in every *)
(* handler that reads such a table.  Three handlers ask for no caller: the *)
(* register of connections, the list of OAuth clients and the timeline     *)
(* show everyone the gate lets in who else comes, and when.                *)
(*                                                                         *)
(* A ledger here is the rows of one subject, in their order, and who is    *)
(* named in each; what a row says besides is left out.  A group is shown   *)
(* with the rows it counts, of which the code shows the number.  Of the    *)
(* register's requests the model has those that left a row, so that what   *)
(* it betrays about the rows is taken at its worst.                        *)
(***************************************************************************)
EXTENDS Integers, FiniteSets

CONSTANTS
    Users,       \* Home Assistant user ids
    NoUser,      \* ha_user "", as of everyone who did not come by ingress
    Principals,  \* client ids, user agents, peers
    Agents,      \* what a client calls itself: clientInfo.name, User-Agent
    Ips,         \* remote addresses, shown and never an identity
    Blank,       \* a name not shown
    Rows,        \* rows of a ledger, numbered as they were written
    Ledgers      \* bound: the ledgers that are compared

AuthMethods == {"open", "owner-session", "api-token", "oauth", "ingress"}

Who == [method : AuthMethods, principal : Principals, user : Users \cup {NoUser},
        agent : Agents, ip : Ips]

\* "reads": the scope of an OAuth token holds traces:read.
Caller == {c \in [method : AuthMethods, principal : Principals,
                  user : Users \cup {NoUser}, reads : BOOLEAN] :
              /\ c.method # "ingress" => c.user = NoUser
              /\ c.method # "oauth" => ~c.reads}

ASSUME SightAssumption == Rows \subseteq Nat /\ Ledgers \subseteq [Rows -> Who]

\* OWNER_METHODS, isOwnerCaller.
IsOwner(c) == c.method \in {"open", "owner-session", "api-token"}

\* traceVisibility.
Visibility(c) ==
    IF IsOwner(c) THEN "all"
    ELSE IF c.method = "ingress" THEN "own"
    ELSE IF c.method = "oauth" /\ c.reads THEN "scoped"
    ELSE "none"

\* seesPrincipals.
SeesPrincipals(c) == IsOwner(c) \/ (c.method = "oauth" /\ c.reads)

\* The rows that carry the caller's own Home Assistant identity.
Own(c, rows) == {i \in Rows : c.user # NoUser /\ rows[i].user = c.user}

\* The rows that name whom row i names.
Alike(rows, i) ==
    {k \in Rows : /\ rows[k].method = rows[i].method
                  /\ rows[k].principal = rows[i].principal
                  /\ rows[k].user = rows[i].user}

\* Who sought the subject, grouped by method, principal and user.
Groups(c, rows) ==
    CASE Visibility(c) \in {"all", "scoped"} ->
            {[method |-> rows[i].method, principal |-> rows[i].principal,
              user |-> IF Visibility(c) = "all" THEN rows[i].user ELSE Blank,
              n |-> Alike(rows, i)] : i \in Rows}
      [] Visibility(c) = "own" ->
            {[method |-> c.method, principal |-> c.principal, user |-> c.user, n |-> n] :
                n \in {Own(c, rows)} \ {{}}}
      [] OTHER -> {}

\* traceOf: the reads by method, the groups and the rows; refused without the
\* scope, by the tool as by the route.
TraceOf(c, rows) ==
    LET shown == IF Visibility(c) = "own" THEN Own(c, rows) ELSE Rows
        user(i) == IF Visibility(c) = "scoped" THEN Blank ELSE rows[i].user
    IN IF Visibility(c) = "none" THEN [refused |-> TRUE]
       ELSE [byMethod |-> [m \in AuthMethods |-> {i \in Rows : rows[i].method = m}],
             principals |-> Groups(c, rows),
             rows |-> {[row |-> i, method |-> rows[i].method,
                        principal |-> rows[i].principal, user |-> user(i),
                        client |-> rows[i].agent] : i \in shown}]

\* listDigs.
ListDigs(c, rows) ==
    LET showWho(i) == \/ Visibility(c) \in {"all", "scoped"}
                      \/ Visibility(c) = "own" /\ i \in Own(c, rows)
        showUser(i) == Visibility(c) = "all" \/ (Visibility(c) = "own" /\ i \in Own(c, rows))
    IN {[row |-> i,
         method |-> IF showWho(i) THEN rows[i].method ELSE Blank,
         principal |-> IF showWho(i) THEN rows[i].principal ELSE Blank,
         user |-> IF showUser(i) THEN rows[i].user ELSE Blank] : i \in Rows}

\* GET /api/calls and the tool call_log.
CallLog(c, rows) ==
    {[row |-> i,
      method |-> IF SeesPrincipals(c) THEN rows[i].method ELSE Blank,
      principal |-> IF SeesPrincipals(c) THEN rows[i].principal ELSE Blank,
      client |-> rows[i].agent] : i \in Rows}

\* GET /api/traces: the raw page, for the owner alone.
RawPage(c, rows) ==
    IF IsOwner(c)
    THEN {[row |-> i, method |-> rows[i].method, principal |-> rows[i].principal,
           user |-> rows[i].user, client |-> rows[i].agent] : i \in Rows}
    ELSE {}

\* SCORE.trace and CONFIDENT_FLOOR.
ScoreTrace == 8
ConfidentFloor == 15

\* The trace items of a dig: one per group, named by method and principal.
TraceItems(c, rows) ==
    {[method |-> g.method, principal |-> g.principal, score |-> ScoreTrace] : g \in Groups(c, rows)}

\* The calls a dig comes upon.
DigCalls(c, rows) ==
    IF Visibility(c) = "none" THEN {} ELSE {[row |-> i, client |-> rows[i].agent] : i \in Rows}

\* What is kept of a dig, and shown to whoever digs or lists digs after it:
\* its best items, none of them under the floor.
Top(c, rows) == {item \in TraceItems(c, rows) : item.score >= ConfidentFloor}

----------------------------------------------------------------------------
(* What is shown to everyone who is let in.                                *)

\* GET /api/connections: a row for each method and principal, whose address
\* and agent are those of its last request.
Connections(rows) ==
    LET Of(i) == {k \in Rows : /\ rows[k].method = rows[i].method
                               /\ rows[k].principal = rows[i].principal}
        first(i) == CHOOSE k \in Of(i) : \A j \in Of(i) : k <= j
        last(i) == CHOOSE k \in Of(i) : \A j \in Of(i) : j <= k
    IN {[method |-> rows[i].method, principal |-> rows[i].principal,
         requests |-> Cardinality(Of(i)), firstSeen |-> first(i), lastSeen |-> last(i),
         userAgent |-> rows[last(i)].agent, remoteIp |-> rows[last(i)].ip] :
            i \in {k \in Rows : rows[k].method # "open"}}

\* GET /api/clients: the clients that are registered, those of the rows.
Clients(rows) == {rows[i].principal : i \in {k \in Rows : rows[k].method = "oauth"}}

\* GET /api/timeline: every call, and what its client calls itself.
Timeline(rows) == {[row |-> i, client |-> rows[i].agent] : i \in Rows}

Public(rows) ==
    [connections |-> Connections(rows), clients |-> Clients(rows), timeline |-> Timeline(rows)]

\* All that a caller can read of the names: what everyone can, what his own
\* standing shows him, and what the digs of others left.
View(c, rows) ==
    [public |-> Public(rows),
     trace |-> TraceOf(c, rows), digs |-> ListDigs(c, rows), calls |-> CallLog(c, rows),
     raw |-> RawPage(c, rows),
     dig |-> <<Groups(c, rows), TraceItems(c, rows), DigCalls(c, rows)>>,
     tops |-> [d \in Caller |-> Top(d, rows)]]

----------------------------------------------------------------------------
(* The rule the comment of traceVisibility states, without the handlers:   *)
(* which ledgers a caller must not be able to tell apart.                  *)

\* Ledgers that differ only in names a caller has no business knowing.
OnlyNamesDiffer(c, a, b) ==
    \* the owner: every name
    \/ IsOwner(c) /\ a = b
    \* traces:read: the log and not the people, who may be others
    \/ /\ c.method = "oauth" /\ c.reads
       /\ \A i \in Rows : a[i].method = b[i].method /\ a[i].principal = b[i].principal
       /\ \A i, k \in Rows : a[i].user = a[k].user <=> b[i].user = b[k].user
    \* ingress: how it was asked, and of names only the caller's
    \/ /\ c.method = "ingress"
       /\ \A i \in Rows : a[i].method = b[i].method
       /\ c.user # NoUser =>
             \A i \in Rows : c.user \in {a[i].user, b[i].user} => a[i] = b[i]
    \* any other token: nothing
    \/ c.method = "oauth" /\ ~c.reads

AlikeTo(c, a, b) == OnlyNamesDiffer(c, a, b) /\ Public(a) = Public(b)

\* Beyond the register of who comes, which is everyone's, no handler tells a
\* caller who asked: two ledgers on which the register, the clients and the
\* timeline agree, and which differ only in names he has no business knowing,
\* look the same to him in everything he can read, the traces that others' digs
\* left included (cloud.ts:135, mcp.ts:470, dig.ts:454).
SeesNoOthers(c) ==
    \A a, b \in Ledgers : AlikeTo(c, a, b) => View(c, a) = View(c, b)

\* The callers of whom that is true.
Discreet == {c \in Caller : SeesNoOthers(c)}

=============================================================================
