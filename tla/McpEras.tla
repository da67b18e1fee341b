------------------------------- MODULE McpEras -------------------------------
(***************************************************************************)
(* One POST /mcp as handleMcp decides it: the stack it is routed to        *)
(* (isModern), the rules of that stack in their order, what the handler    *)
(* does on the way (notes a version, calls a tool) and what it answers.    *)
(* Decided here, carried out step by step in McpEndpoint.                  *)
(***************************************************************************)
CONSTANTS
    Legacy,     \* LEGACY_PROTOCOL_VERSIONS
    Newest,     \* the first of them
    Modern,     \* MODERN_PROTOCOL_VERSIONS
    Foreign,    \* revisions this server has never heard of
    NoVersion,  \* none named
    Tools,      \* tool names
    NoTool      \* none named

Versions == Legacy \cup Modern \cup Foreign

Methods == {"none", "initialize", "initialized", "ping", "tools/list", "tools/call",
            "server/discover", "resources/read",
            "notifications/initialized", "notifications/other"}

\* Those whose Mcp-Name header mirrors a parameter (NAMED_METHODS).
Named == {"tools/call", "resources/read"}

NoMeta == [reserved |-> FALSE, asked |-> NoVersion, caps |-> FALSE, sound |-> TRUE]

\* "reserved": _meta holds a key under META.  "sound": clientInfo and logLevel
\* are absent or of their types.
Meta == [reserved : BOOLEAN, asked : Versions \cup {NoVersion}, caps : BOOLEAN, sound : BOOLEAN]

\* "header" is MCP-Protocol-Version; "mirror" what the other two headers
\* repeat of the body; "asked" params.protocolVersion; "bare": no other params.
Request == [method : Methods, id : BOOLEAN, bare : BOOLEAN,
            asked : Versions \cup {NoVersion}, tool : Tools \cup {NoTool}, meta : Meta,
            header : Versions \cup {NoVersion}, mirror : SUBSET {"method", "name"}]

ASSUME ErasAssumption ==
    /\ Newest \in Legacy
    /\ Legacy \cap Modern = {} /\ Foreign \cap (Legacy \cup Modern) = {}
    /\ NoVersion \notin Versions /\ NoTool \notin Tools

\* isModern.
IsModern(r) ==
    \/ r.meta.reserved
    \/ r.method = "server/discover"
    \/ r.header \in Modern

\* What is answered: by which stack, how, and the versions it names.
Answer(era, how, versions) == [era |-> era, how |-> how, versions |-> versions]

\* What the handler does before it answers.
Decision(note, call, answer) == [note |-> note, call |-> call, answer |-> answer]

\* MUTANT of Negotiated: whatever is implemented is answered.
NegotiatedAny(asked) == IF asked \in Legacy \cup Modern THEN asked ELSE Newest

\* The version an initialize is answered with: one of the legacy stack's.
Negotiated(asked) == IF asked \in Legacy THEN asked ELSE Newest

\* MUTANT of LegacyDecision: an initialize that names another version is refused.
LegacyDecisionStrict(r) ==
    CASE r.method = "initialize" /\ r.asked \in Legacy ->
            Decision(r.asked, FALSE, Answer("legacy", "result", {r.asked}))
      [] r.method \in {"initialized", "notifications/initialized"} ->
            Decision(NoVersion, FALSE, Answer("legacy", "accepted", {}))
      [] r.method = "tools/call" -> Decision(NoVersion, TRUE, Answer("legacy", "result", {}))
      [] r.method \in {"ping", "tools/list"} ->
            Decision(NoVersion, FALSE, Answer("legacy", "result", {}))
      [] OTHER -> Decision(NoVersion, FALSE, Answer("legacy", "MethodNotFound", {}))

\* The switch of handleMcp.
LegacyDecision(r) ==
    CASE r.method = "initialize" ->
            Decision(r.asked, FALSE, Answer("legacy", "result", {Negotiated(r.asked)}))
      [] r.method \in {"initialized", "notifications/initialized"} ->
            Decision(NoVersion, FALSE, Answer("legacy", "accepted", {}))
      [] r.method = "tools/call" -> Decision(NoVersion, TRUE, Answer("legacy", "result", {}))
      [] r.method \in {"ping", "tools/list"} ->
            Decision(NoVersion, FALSE, Answer("legacy", "result", {}))
      [] OTHER -> Decision(NoVersion, FALSE, Answer("legacy", "MethodNotFound", {}))

\* The rules of handleModern, the first that is broken first.
Refusal(r) ==
    IF r.meta.asked = NoVersion THEN "InvalidParams"
    ELSE IF r.header # r.meta.asked THEN "HeaderMismatch"
    ELSE IF r.header \notin Modern THEN "UnsupportedProtocolVersion"
    ELSE IF ~r.meta.caps \/ ~r.meta.sound THEN "InvalidParams"
    ELSE IF "method" \notin r.mirror THEN "HeaderMismatch"
    ELSE IF r.method \in Named /\ ("name" \notin r.mirror \/ r.tool = NoTool) THEN "HeaderMismatch"
    ELSE IF r.method \in {"notifications/initialized", "notifications/other"} /\ ~r.id
         THEN "accepted"
    ELSE IF r.method = "server/discover" /\ ~r.bare THEN "InvalidParams"
    ELSE IF r.method \notin {"server/discover", "ping", "tools/list", "tools/call"}
         THEN "MethodNotFound"
    ELSE "result"

\* handleModern: a version is noted as soon as it is named, refused or not.
ModernDecision(r) ==
    LET how == Refusal(r)
    IN Decision(r.meta.asked,
                how = "result" /\ r.method = "tools/call",
                Answer("modern", how,
                       IF \/ how = "UnsupportedProtocolVersion"
                          \/ how = "result" /\ r.method = "server/discover"
                       THEN Modern ELSE {}))

\* handleMcp.
Decide(r) ==
    IF r.method = "none" THEN Decision(NoVersion, FALSE, Answer("legacy", "ParseError", {}))
    ELSE IF IsModern(r) THEN ModernDecision(r) ELSE LegacyDecision(r)
=============================================================================
