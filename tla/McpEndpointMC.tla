---------------------------- MODULE McpEndpointMC ----------------------------
(***************************************************************************)
(* Instance of McpEndpoint.  A legacy client that asks for the modern      *)
(* version, and a dual one that has to be told the modern version it       *)
(* shares, or shares none; one request whose header belies its body, or    *)
(* that names no tool.                                                     *)
(***************************************************************************)
EXTENDS McpEndpoint

MCClients == {"old", "both"}
MCKind == [c \in MCClients |-> IF c = "old" THEN "legacy" ELSE "dual"]
MCSpeaks == [c \in MCClients |-> IF c = "old" THEN {{"m1", "l1"}}
                                 ELSE {{"f1", "m1", "l0"}, {"f1", "l0"}}]
MCFirst == [c \in MCClients |-> IF c = "old" THEN "m1" ELSE "f1"]
MCFallback == [c \in MCClients |-> "l0"]
MCPrincipal == [c \in MCClients |-> IF c = "both" THEN "claude.ai" ELSE "curl"]
MCSpared == {"claude.ai"}

Good == InEra("modern", "m1", [Plain EXCEPT !.method = "tools/call", !.tool = "tool"])
MCOdd == {[Good EXCEPT !.header = "l1"], [Plain EXCEPT !.method = "tools/call"]}
=============================================================================
