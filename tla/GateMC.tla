------------------------------- MODULE GateMC -------------------------------
(***************************************************************************)
(* Instance of Gate.  One user whose standing moves and whom no option     *)
(* names, one who is named; two requests that wait for the lookup; an      *)
(* environment for each way to run the server, and each way to be refused  *)
(* that the order of boot.ts could confuse.                                *)
(***************************************************************************)
EXTENDS Gate

CONSTANTS mover, named, haos, proxy, lan, client, agent

MCUsers == {mover, named}
MCMovers == {mover}
MCPrincipals == {client, agent}

\* The rows of Sight: two persons of ingress behind one peer, at one address,
\* and two clients.  All call themselves the same, or that alone would tell
\* their rows apart.
MCAgents == {agent}
MCIps == {lan, proxy}
Person(u) ==
    [method |-> "ingress", principal |-> agent, user |-> u, agent |-> agent, ip |-> lan]
Connector(p) ==
    [method |-> "oauth", principal |-> p, user |-> NoUser, agent |-> agent, ip |-> proxy]

\* The rows between each one's first and last, which the register leaves open,
\* are anyone's; or all rows are one's.
MCRows == 1..8
MCLedgers ==
    {<<u, Connector(client), Connector(agent), x, y, v, Connector(client), Connector(agent)>> :
        u, v \in {Person(mover), Person(named)},
        x, y \in {Person(mover), Person(named), Connector(client), Connector(agent)}}
    \cup {[i \in MCRows |-> x] : x \in {Person(mover), Person(named), Connector(client)}}

MCAddrs == {haos, proxy, lan}

Addon == [passphrase |-> "long", apiToken |-> "blank", require |-> TRUE, allowOpen |-> FALSE,
          supervisor |-> TRUE, data |-> TRUE, proofPeer |-> FALSE,
          peer |-> haos, trusted |-> {proxy},
          autoLogin |-> TRUE, haAdmins |-> TRUE, listed |-> {named}]

MCEnvs ==
    {Addon,
     [Addon EXCEPT !.listed = {}, !.apiToken = "long", !.trusted = {}],
     [Addon EXCEPT !.listed = {}, !.haAdmins = FALSE, !.passphrase = "blank",
                   !.apiToken = "long", !.require = FALSE],
     \* refused: no secret, with and without the requirement; open in an add-on
     [Addon EXCEPT !.passphrase = "blank"],
     [Addon EXCEPT !.passphrase = "blank", !.require = FALSE],
     [Addon EXCEPT !.passphrase = "blank", !.allowOpen = TRUE],
     \* a proxy that is the ingress peer; a lookup nothing can answer
     [Addon EXCEPT !.trusted = {haos}],
     [Addon EXCEPT !.supervisor = FALSE],
     \* a local test, open by choice
     [Addon EXCEPT !.passphrase = "blank", !.allowOpen = TRUE, !.supervisor = FALSE,
                   !.data = FALSE, !.haAdmins = FALSE]}

MCRequests ==
    [verb : {"GET", "POST", "OPTIONS"}, path : {"public", "api", "mcp"},
     bearer : {"none", "malformed", "static", "token"},
     cookie : {"none", "good"},
     peer : MCAddrs, claim : {haos, lan}, forwarded : {haos, lan},
     prefix : BOOLEAN, user : MCUsers \cup {NoUser}, mark : BOOLEAN]
=============================================================================
