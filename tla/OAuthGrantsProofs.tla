-------------------------- MODULE OAuthGrantsProofs --------------------------
(***************************************************************************)
(* Proofs about OAuthGrants, for any number of clients, codes, tokens and  *)
(* requests in flight.  IInv strengthens the properties of the runs with   *)
(* what each table and each parked request must satisfy for a step to      *)
(* preserve them.                                                          *)
(***************************************************************************)
EXTENDS OAuthGrants, TLAPS

\* Ids are never reused: a code names one consent, a token one handover, and
\* the codes the histories speak of were all issued.
Keys ==
    /\ \A k, l \in consents : k.code = l.code => k = l
    /\ \A g, h \in handovers : g.token = h.token => g = h
    /\ \A c \in answered \cup revoked : \E k \in consents : k.code = c

\* The consent behind a code row, wherever the row is held.
Backed(row) ==
    \E k \in consents :
        /\ k.code = row.code
        /\ k.client = row.client
        /\ k.redirect = row.redirect
        /\ k.challenge = row.challenge
        /\ row.scope = "traces" <=> k.ticked

\* The chain of custody from registration to token.
Chain ==
    /\ \A row \in clients : row.redirects \subseteq AllowedRedirects
    /\ \A x \in approving :
          x.redirect \in AllowedRedirects /\ (x.scope = "traces" <=> x.ticked)
    /\ \A k \in consents : k.redirect \in AllowedRedirects
    /\ \A row \in codes : Backed(row)
    /\ \A x \in reading \cup minting : Backed(x.row)
    /\ \A x \in minting : Proves(x)
    /\ HandoverIsApproved
    /\ \A row \in tokens : \E h \in handovers, k \in consents :
          /\ h.token = row.token
          /\ k.code = h.code
          /\ k.client = row.client
          /\ row.scope = "traces" <=> k.ticked

\* Two requests hold one code, or one holds an answered code, only if their
\* reads overlapped; an answered code has left the table.
Once ==
    /\ \A x, y \in reading : x.row.code = y.row.code => x = y \/ x.row.code \in overlapped
    /\ \A x \in reading : x.row.code \in answered => x.row.code \in overlapped
    /\ \A row \in codes : row.code \notin answered
    /\ OneAnswerUnlessOverlapped

\* A revoked code has left the table; whoever still holds it straddled.
Dead ==
    /\ \A row \in codes : row.code \notin revoked
    /\ \A x \in reading \cup minting : x.row.code \in revoked => x.row.code \in straddled
    /\ RevokedStaysDead

\* Every client some row or request refers to is registered or was raced.
Listed ==
    /\ HoldersAreListed
    /\ \A x \in approving : x.client \in Registered \cup raced
    /\ \A x \in reading \cup minting : x.row.client \in Registered \cup raced

IInv == TypeOK /\ Keys /\ Chain /\ Once /\ Dead /\ Listed

----------------------------------------------------------------------------
(* Types. *)

LEMMA InitIInv == Init => IInv
  BY
     DEF Init, IInv, TypeOK, Keys, Chain, Once, Dead, Listed,
         HandoverIsApproved,
         OneAnswerUnlessOverlapped, RevokedStaysDead, HoldersAreListed

\* Every step keeps every table, parked request and history well typed.
LEMMA TypeStep ==
    ASSUME TypeOK, [Next]_vars
    PROVE  TypeOK'
<1>1. ASSUME NEW c \in Clients, NEW uris \in SUBSET Redirects, RegisterClient(c, uris)
        PROVE  TypeOK'
  BY <1>1
     DEF RegisterClient, AcceptableRedirects, vars, tables, flights, history,
         TypeOK, Scopes, ClientRow, CodeRow, TokenRow, Approval, Exchange,
         Consent, Handover
<1>2. ASSUME NEW r \in Requests, NEW c \in Clients, NEW u \in Redirects, NEW v \in Verifiers,
            NEW asked \in Scopes, NEW ticked \in BOOLEAN, AuthorizeLookup(r, c, u, v, asked, ticked)
        PROVE  TypeOK'
  BY <1>2
     DEF AuthorizeLookup, KnownTarget, GrantedScope, vars, tables, flights,
         history, TypeOK, Scopes, ClientRow, CodeRow, TokenRow, Approval,
         Exchange, Consent, Handover
<1>3. ASSUME NEW x \in approving, NEW code \in Codes, AuthorizeIssue(x, code)
        PROVE  TypeOK'
  BY <1>3, GrantAssumption
     DEF AuthorizeIssue, vars, tables, flights, history, TypeOK,
         Scopes, ClientRow, CodeRow, TokenRow, Approval, Exchange, Consent, Handover
<1>4. ASSUME NEW r \in Requests, NEW code \in Codes, NEW c \in Clients, NEW u \in Redirects,
            NEW v \in Verifiers, ExchangeLookup(r, code, c, u, v)
        PROVE  TypeOK'
  BY <1>4
     DEF ExchangeLookup, Redeemable, vars, tables, flights, history, TypeOK,
         Scopes, ClientRow, CodeRow, TokenRow, Approval, Exchange, Consent,
         Handover
<1>5. ASSUME NEW x \in reading, ExchangeBurn(x)
        PROVE  TypeOK'
  BY <1>5
     DEF ExchangeBurn, CodesAfterBurn, vars, tables, flights, history, TypeOK,
         Scopes, ClientRow, CodeRow, TokenRow, Approval, Exchange, Consent,
         Handover
<1>6. ASSUME NEW x \in minting, NEW t \in Tokens, ExchangeMint(x, t)
        PROVE  TypeOK'
  BY <1>6, GrantAssumption
     DEF ExchangeMint, vars, tables, flights, history, TypeOK,
         Scopes, ClientRow, CodeRow, TokenRow, Approval, Exchange, Consent, Handover
<1>7. ASSUME NEW r \in sweeping, ExchangeSweep(r)
        PROVE  TypeOK'
  BY <1>7
     DEF ExchangeSweep, SweepExpired, vars, tables, flights, history, TypeOK,
         Scopes, ClientRow, CodeRow, TokenRow, Approval, Exchange, Consent,
         Handover
<1>8. ASSUME NEW r \in Requests, Abort(r)
        PROVE  TypeOK'
  BY <1>8
     DEF Abort, vars, tables, flights, history, TypeOK, Scopes, ClientRow,
         CodeRow, TokenRow, Approval, Exchange, Consent, Handover
<1>9. ASSUME NEW row \in tokens, UseToken(row)
        PROVE  TypeOK'
  BY <1>9
     DEF UseToken, vars, tables, flights, history, TypeOK, Scopes, ClientRow,
         CodeRow, TokenRow, Approval, Exchange, Consent, Handover
<1>10. ASSUME NEW c \in Clients, RevokeClient(c)
        PROVE  TypeOK'
  BY <1>10
     DEF RevokeClient, RecordRevocation, vars, tables, flights, history, TypeOK,
         Scopes, ClientRow, CodeRow, TokenRow, Approval, Exchange, Consent,
         Handover
<1>11. CASE RevokeAllClients
  BY <1>11
     DEF RevokeAllClients, RecordRevocation, vars, tables, flights, history,
         TypeOK, Scopes, ClientRow, CodeRow, TokenRow, Approval, Exchange,
         Consent, Handover
<1>12. CASE JanitorSweep
  BY <1>12
     DEF JanitorSweep, SweepExpired, vars, tables, flights, history, TypeOK,
         Scopes, ClientRow, CodeRow, TokenRow, Approval, Exchange, Consent,
         Handover
<1>13. ASSUME NEW c \in Clients, JanitorConnections(c)
        PROVE  TypeOK'
  BY <1>13
     DEF JanitorConnections, vars, tables, flights, history, TypeOK, Scopes,
         ClientRow, CodeRow, TokenRow, Approval, Exchange, Consent, Handover
<1>14. CASE JanitorClients
  BY <1>14
     DEF JanitorClients, vars, tables, flights, history, TypeOK, Scopes,
         ClientRow, CodeRow, TokenRow, Approval, Exchange, Consent, Handover
<1>15. CASE Tick
  BY <1>15
     DEF Tick, vars, tables, flights, history, TypeOK, Scopes, ClientRow,
         CodeRow, TokenRow, Approval, Exchange, Consent, Handover
<1>16. CASE UNCHANGED vars
  BY <1>16
     DEF vars, tables, flights, history, TypeOK, Scopes, ClientRow, CodeRow,
         TokenRow, Approval, Exchange, Consent, Handover
<1>17. QED
  BY <1>1, <1>2, <1>3, <1>4, <1>5, <1>6, <1>7, <1>8, <1>9, <1>10, <1>11,
     <1>12, <1>13, <1>14, <1>15, <1>16
     DEF Next

----------------------------------------------------------------------------
(* The parts of IInv, one lemma each. *)

\* Ids stay unique because a step draws only unused ones.
LEMMA KeysStep ==
    ASSUME TypeOK, Keys, Chain, [Next]_vars
    PROVE  Keys'
<1>1. ASSUME NEW c \in Clients, NEW uris \in SUBSET Redirects, RegisterClient(c, uris)
        PROVE  Keys'
  BY <1>1
     DEF RegisterClient, AcceptableRedirects, vars, tables, flights, history,
         TypeOK, Keys, Consent, Handover
<1>2. ASSUME NEW r \in Requests, NEW c \in Clients, NEW u \in Redirects, NEW v \in Verifiers,
            NEW asked \in Scopes, NEW ticked \in BOOLEAN, AuthorizeLookup(r, c, u, v, asked, ticked)
        PROVE  Keys'
  BY <1>2
     DEF AuthorizeLookup, KnownTarget, GrantedScope, vars, tables, flights,
         history, TypeOK, Keys, Consent, Handover
<1>3. ASSUME NEW x \in approving, NEW code \in Codes, AuthorizeIssue(x, code)
        PROVE  Keys'
  BY <1>3
     DEF AuthorizeIssue, vars, tables, flights, history, TypeOK, Keys, Consent,
         Handover
<1>4. ASSUME NEW r \in Requests, NEW code \in Codes, NEW c \in Clients, NEW u \in Redirects,
            NEW v \in Verifiers, ExchangeLookup(r, code, c, u, v)
        PROVE  Keys'
  BY <1>4
     DEF ExchangeLookup, Redeemable, vars, tables, flights, history, TypeOK,
         Keys, Consent, Handover
<1>5. ASSUME NEW x \in reading, ExchangeBurn(x)
        PROVE  Keys'
  BY <1>5
     DEF ExchangeBurn, CodesAfterBurn, vars, tables, flights, history, TypeOK,
         Keys, Consent, Handover, Chain, Backed
<1>6. ASSUME NEW x \in minting, NEW t \in Tokens, ExchangeMint(x, t)
        PROVE  Keys'
  BY <1>6
     DEF ExchangeMint, vars, tables, flights, history, TypeOK, Keys, Consent,
         Handover
<1>7. ASSUME NEW r \in sweeping, ExchangeSweep(r)
        PROVE  Keys'
  BY <1>7
     DEF ExchangeSweep, SweepExpired, vars, tables, flights, history, TypeOK,
         Keys, Consent, Handover
<1>8. ASSUME NEW r \in Requests, Abort(r)
        PROVE  Keys'
  BY <1>8
     DEF Abort, vars, tables, flights, history, TypeOK, Keys, Consent, Handover
<1>9. ASSUME NEW row \in tokens, UseToken(row)
        PROVE  Keys'
  BY <1>9
     DEF UseToken, vars, tables, flights, history, TypeOK, Keys, Consent,
         Handover
<1>10. ASSUME NEW c \in Clients, RevokeClient(c)
        PROVE  Keys'
  BY <1>10
     DEF RevokeClient, RecordRevocation, vars, tables, flights, history, TypeOK,
         Keys, Consent, Handover
<1>11. CASE RevokeAllClients
  BY <1>11
     DEF RevokeAllClients, RecordRevocation, vars, tables, flights, history,
         TypeOK, Keys, Consent, Handover
<1>12. CASE JanitorSweep
  BY <1>12
     DEF JanitorSweep, SweepExpired, vars, tables, flights, history, TypeOK,
         Keys, Consent, Handover
<1>13. ASSUME NEW c \in Clients, JanitorConnections(c)
        PROVE  Keys'
  BY <1>13
     DEF JanitorConnections, vars, tables, flights, history, TypeOK, Keys,
         Consent, Handover
<1>14. CASE JanitorClients
  BY <1>14
     DEF JanitorClients, vars, tables, flights, history, TypeOK, Keys, Consent,
         Handover
<1>15. CASE Tick
  BY <1>15
     DEF Tick, vars, tables, flights, history, TypeOK, Keys, Consent, Handover
<1>16. CASE UNCHANGED vars
  BY <1>16 DEF vars, tables, flights, history, TypeOK, Keys, Consent, Handover
<1>17. QED
  BY <1>1, <1>2, <1>3, <1>4, <1>5, <1>6, <1>7, <1>8, <1>9, <1>10, <1>11,
     <1>12, <1>13, <1>14, <1>15, <1>16
     DEF Next

\* No step breaks the chain of custody.
LEMMA ChainStep ==
    ASSUME TypeOK, Keys, Chain, [Next]_vars
    PROVE  Chain'
<1>1. ASSUME NEW c \in Clients, NEW uris \in SUBSET Redirects, RegisterClient(c, uris)
        PROVE  Chain'
  BY <1>1
     DEF RegisterClient, AcceptableRedirects, vars, tables, flights, history,
         TypeOK, Keys, Chain, Backed, Proves, HandoverIsApproved, ClientRow,
         CodeRow, TokenRow, Approval, Exchange, Consent, Handover
<1>2. ASSUME NEW r \in Requests, NEW c \in Clients, NEW u \in Redirects, NEW v \in Verifiers,
            NEW asked \in Scopes, NEW ticked \in BOOLEAN, AuthorizeLookup(r, c, u, v, asked, ticked)
        PROVE  Chain'
  BY <1>2
     DEF AuthorizeLookup, KnownTarget, GrantedScope, vars, tables, flights,
         history, TypeOK, Keys, Chain, Backed, Proves, HandoverIsApproved,
         ClientRow, CodeRow, TokenRow, Approval, Exchange, Consent, Handover
<1>3. ASSUME NEW x \in approving, NEW code \in Codes, AuthorizeIssue(x, code)
        PROVE  Chain'
  <2> USE <1>3 DEF AuthorizeIssue
  <2> DEFINE row == [code |-> code, client |-> x.client, redirect |-> x.redirect,
                     challenge |-> x.challenge, scope |-> x.scope,
                     expires |-> now + CodeTTL]
             k   == [code |-> code, client |-> x.client, redirect |-> x.redirect,
                     challenge |-> x.challenge, ticked |-> x.ticked]
  <2>1. codes' = codes \cup {row} /\ consents' = consents \cup {k}
    OBVIOUS
  <2>2. x.redirect \in AllowedRedirects /\ (x.scope = "traces" <=> x.ticked)
    BY DEF Chain
  <2>3. \A new : new = row => Backed(new)'
    <3> SUFFICES ASSUME NEW new, new = row
                 PROVE  Backed(new)'
      OBVIOUS
    <3>1. /\ k \in consents' /\ k.code = new.code /\ k.client = new.client
          /\ k.redirect = new.redirect /\ k.challenge = new.challenge
      BY <2>1
    <3>2. new.scope = "traces" <=> x.ticked
      BY <2>2
    <3>3. k.ticked = x.ticked
      OBVIOUS
    <3> HIDE DEF row, k
    <3> QED
      BY <3>1, <3>2, <3>3 DEF Backed
  <2>4. \A old : Backed(old) => Backed(old)'
    BY <2>1 DEF Backed
  <2>5. \A old \in codes' : Backed(old)'
    BY <2>1, <2>3, <2>4 DEF Chain
  <2>6. \A y \in (reading \cup minting)' : Backed(y.row)'
    BY <2>4 DEF Chain
  <2>7. \A c \in consents' : c.redirect \in AllowedRedirects
    BY <2>1, <2>2 DEF Chain
  <2>8. \A y \in minting' : Proves(y)'
    BY DEF Chain, Proves
  <2>9. HandoverIsApproved'
    BY <2>1 DEF Chain, HandoverIsApproved
  <2>10. \A old \in tokens' : \E h \in handovers', c \in consents' :
            /\ h.token = old.token
            /\ c.code = h.code
            /\ c.client = old.client
            /\ old.scope = "traces" <=> c.ticked
    BY <2>1 DEF Chain
  <2> QED
    BY <2>5, <2>6, <2>7, <2>8, <2>9, <2>10 DEF Chain
<1>4. ASSUME NEW r \in Requests, NEW code \in Codes, NEW c \in Clients, NEW u \in Redirects,
            NEW v \in Verifiers, ExchangeLookup(r, code, c, u, v)
        PROVE  Chain'
  BY <1>4
     DEF ExchangeLookup, Redeemable, vars, tables, flights, history, TypeOK,
         Keys, Chain, Backed, Proves, HandoverIsApproved, ClientRow, CodeRow,
         TokenRow, Approval, Exchange, Consent, Handover
<1>5. ASSUME NEW x \in reading, ExchangeBurn(x)
        PROVE  Chain'
  BY <1>5
     DEF ExchangeBurn, CodesAfterBurn, vars, tables, flights, history, TypeOK,
         Keys, Chain, Backed, Proves, HandoverIsApproved, ClientRow, CodeRow,
         TokenRow, Approval, Exchange, Consent, Handover
<1>6. ASSUME NEW x \in minting, NEW t \in Tokens, ExchangeMint(x, t)
        PROVE  Chain'
  <2> USE <1>6 DEF ExchangeMint
  <2> DEFINE row == [token |-> t, client |-> x.row.client, scope |-> x.row.scope,
                     expires |-> now + TokenTTL]
             h   == [token |-> t, code |-> x.row.code, client |-> x.client,
                     redirect |-> x.redirect, verifier |-> x.verifier]
  <2>1. tokens' = tokens \cup {row} /\ handovers' = handovers \cup {h}
    OBVIOUS
  <2>2. PICK k \in consents : /\ k.code = x.row.code
                              /\ k.client = x.row.client
                              /\ k.redirect = x.row.redirect
                              /\ k.challenge = x.row.challenge
                              /\ x.row.scope = "traces" <=> k.ticked
    BY DEF Chain, Backed
  <2>3. k.client = x.client /\ k.redirect = x.redirect /\ k.challenge = x.verifier
    BY <2>2 DEF Chain, Proves
  <2>4. k.redirect \in AllowedRedirects
    BY DEF Chain
  <2>5. HandoverIsApproved'
    BY <2>1, <2>2, <2>3, <2>4 DEF Chain, HandoverIsApproved
  <2>6. \A old \in tokens' : \E g \in handovers', c \in consents' :
            /\ g.token = old.token
            /\ c.code = g.code
            /\ c.client = old.client
            /\ old.scope = "traces" <=> c.ticked
    <3> SUFFICES ASSUME NEW old \in tokens'
                 PROVE  \E g \in handovers', c \in consents' :
                           /\ g.token = old.token
                           /\ c.code = g.code
                           /\ c.client = old.client
                           /\ old.scope = "traces" <=> c.ticked
      OBVIOUS
    <3>1. CASE old \in tokens
      BY <3>1, <2>1 DEF Chain
    <3>2. CASE old = row
      <4>1. h \in handovers' /\ h.token = old.token /\ h.code = x.row.code
        BY <2>1, <3>2
      <4>2. old.client = x.row.client /\ old.scope = x.row.scope
        BY <3>2
      <4>3. k \in consents'
        OBVIOUS
      <4> HIDE DEF row, h
      <4> QED
        BY <4>1, <4>2, <4>3, <2>2
    <3> QED
      BY <3>1, <3>2, <2>1
  <2> QED
    BY <2>5, <2>6 DEF Chain, Backed, Proves
<1>7. ASSUME NEW r \in sweeping, ExchangeSweep(r)
        PROVE  Chain'
  BY <1>7
     DEF ExchangeSweep, SweepExpired, vars, tables, flights, history, TypeOK,
         Keys, Chain, Backed, Proves, HandoverIsApproved, ClientRow, CodeRow,
         TokenRow, Approval, Exchange, Consent, Handover
<1>8. ASSUME NEW r \in Requests, Abort(r)
        PROVE  Chain'
  BY <1>8
     DEF Abort, vars, tables, flights, history, TypeOK, Keys, Chain, Backed,
         Proves, HandoverIsApproved, ClientRow, CodeRow, TokenRow, Approval,
         Exchange, Consent, Handover
<1>9. ASSUME NEW row \in tokens, UseToken(row)
        PROVE  Chain'
  BY <1>9
     DEF UseToken, vars, tables, flights, history, TypeOK, Keys, Chain, Backed,
         Proves, HandoverIsApproved, ClientRow, CodeRow, TokenRow, Approval,
         Exchange, Consent, Handover
<1>10. ASSUME NEW c \in Clients, RevokeClient(c)
        PROVE  Chain'
  BY <1>10
     DEF RevokeClient, RecordRevocation, vars, tables, flights, history, TypeOK,
         Keys, Chain, Backed, Proves, HandoverIsApproved, ClientRow, CodeRow,
         TokenRow, Approval, Exchange, Consent, Handover
<1>11. CASE RevokeAllClients
  BY <1>11
     DEF RevokeAllClients, RecordRevocation, vars, tables, flights, history,
         TypeOK, Keys, Chain, Backed, Proves, HandoverIsApproved, ClientRow,
         CodeRow, TokenRow, Approval, Exchange, Consent, Handover
<1>12. CASE JanitorSweep
  BY <1>12
     DEF JanitorSweep, SweepExpired, vars, tables, flights, history, TypeOK,
         Keys, Chain, Backed, Proves, HandoverIsApproved, ClientRow, CodeRow,
         TokenRow, Approval, Exchange, Consent, Handover
<1>13. ASSUME NEW c \in Clients, JanitorConnections(c)
        PROVE  Chain'
  BY <1>13
     DEF JanitorConnections, vars, tables, flights, history, TypeOK, Keys,
         Chain, Backed, Proves, HandoverIsApproved, ClientRow, CodeRow,
         TokenRow, Approval, Exchange, Consent, Handover
<1>14. CASE JanitorClients
  BY <1>14
     DEF JanitorClients, vars, tables, flights, history, TypeOK, Keys, Chain,
         Backed, Proves, HandoverIsApproved, ClientRow, CodeRow, TokenRow,
         Approval, Exchange, Consent, Handover
<1>15. CASE Tick
  BY <1>15
     DEF Tick, vars, tables, flights, history, TypeOK, Keys, Chain, Backed,
         Proves, HandoverIsApproved, ClientRow, CodeRow, TokenRow, Approval,
         Exchange, Consent, Handover
<1>16. CASE UNCHANGED vars
  BY <1>16
     DEF vars, tables, flights, history, TypeOK, Keys, Chain, Backed, Proves,
         HandoverIsApproved, ClientRow, CodeRow, TokenRow, Approval, Exchange,
         Consent, Handover
<1>17. QED
  BY <1>1, <1>2, <1>3, <1>4, <1>5, <1>6, <1>7, <1>8, <1>9, <1>10, <1>11,
     <1>12, <1>13, <1>14, <1>15, <1>16
     DEF Next

\* No step lets a code be answered twice without an overlap.
LEMMA OnceStep ==
    ASSUME TypeOK, Keys, Chain, Once, [Next]_vars
    PROVE  Once'
<1>1. ASSUME NEW c \in Clients, NEW uris \in SUBSET Redirects, RegisterClient(c, uris)
        PROVE  Once'
  BY <1>1
     DEF RegisterClient, AcceptableRedirects, vars, tables, flights, history,
         TypeOK, Keys, Once, OneAnswerUnlessOverlapped, Exchange, CodeRow
<1>2. ASSUME NEW r \in Requests, NEW c \in Clients, NEW u \in Redirects, NEW v \in Verifiers,
            NEW asked \in Scopes, NEW ticked \in BOOLEAN, AuthorizeLookup(r, c, u, v, asked, ticked)
        PROVE  Once'
  BY <1>2
     DEF AuthorizeLookup, KnownTarget, GrantedScope, vars, tables, flights,
         history, TypeOK, Keys, Once, OneAnswerUnlessOverlapped, Exchange,
         CodeRow
<1>3. ASSUME NEW x \in approving, NEW code \in Codes, AuthorizeIssue(x, code)
        PROVE  Once'
  BY <1>3
     DEF AuthorizeIssue, vars, tables, flights, history, TypeOK, Keys, Once,
         OneAnswerUnlessOverlapped, Exchange, CodeRow, Consent
<1>4. ASSUME NEW r \in Requests, NEW code \in Codes, NEW c \in Clients, NEW u \in Redirects,
            NEW v \in Verifiers, ExchangeLookup(r, code, c, u, v)
        PROVE  Once'
  BY <1>4
     DEF ExchangeLookup, Redeemable, vars, tables, flights, history, TypeOK,
         Keys, Once, OneAnswerUnlessOverlapped, Exchange, CodeRow
<1>5. ASSUME NEW x \in reading, ExchangeBurn(x)
        PROVE  Once'
  BY <1>5
     DEF ExchangeBurn, CodesAfterBurn, vars, tables, flights, history, TypeOK,
         Keys, Once, OneAnswerUnlessOverlapped, Exchange, CodeRow
<1>6. ASSUME NEW x \in minting, NEW t \in Tokens, ExchangeMint(x, t)
        PROVE  Once'
  BY <1>6
     DEF ExchangeMint, vars, tables, flights, history, TypeOK, Keys, Once,
         OneAnswerUnlessOverlapped, Exchange, CodeRow
<1>7. ASSUME NEW r \in sweeping, ExchangeSweep(r)
        PROVE  Once'
  BY <1>7
     DEF ExchangeSweep, SweepExpired, vars, tables, flights, history, TypeOK,
         Keys, Once, OneAnswerUnlessOverlapped, Exchange, CodeRow
<1>8. ASSUME NEW r \in Requests, Abort(r)
        PROVE  Once'
  BY <1>8
     DEF Abort, vars, tables, flights, history, TypeOK, Keys, Once,
         OneAnswerUnlessOverlapped, Exchange, CodeRow
<1>9. ASSUME NEW row \in tokens, UseToken(row)
        PROVE  Once'
  BY <1>9
     DEF UseToken, vars, tables, flights, history, TypeOK, Keys, Once,
         OneAnswerUnlessOverlapped, Exchange, CodeRow
<1>10. ASSUME NEW c \in Clients, RevokeClient(c)
        PROVE  Once'
  BY <1>10
     DEF RevokeClient, RecordRevocation, vars, tables, flights, history, TypeOK,
         Keys, Once, OneAnswerUnlessOverlapped, Exchange, CodeRow
<1>11. CASE RevokeAllClients
  BY <1>11
     DEF RevokeAllClients, RecordRevocation, vars, tables, flights, history,
         TypeOK, Keys, Once, OneAnswerUnlessOverlapped, Exchange, CodeRow
<1>12. CASE JanitorSweep
  BY <1>12
     DEF JanitorSweep, SweepExpired, vars, tables, flights, history, TypeOK,
         Keys, Once, OneAnswerUnlessOverlapped, Exchange, CodeRow
<1>13. ASSUME NEW c \in Clients, JanitorConnections(c)
        PROVE  Once'
  BY <1>13
     DEF JanitorConnections, vars, tables, flights, history, TypeOK, Keys, Once,
         OneAnswerUnlessOverlapped, Exchange, CodeRow
<1>14. CASE JanitorClients
  BY <1>14
     DEF JanitorClients, vars, tables, flights, history, TypeOK, Keys, Once,
         OneAnswerUnlessOverlapped, Exchange, CodeRow
<1>15. CASE Tick
  BY <1>15
     DEF Tick, vars, tables, flights, history, TypeOK, Keys, Once,
         OneAnswerUnlessOverlapped, Exchange, CodeRow
<1>16. CASE UNCHANGED vars
  BY <1>16
     DEF vars, tables, flights, history, TypeOK, Keys, Once,
         OneAnswerUnlessOverlapped, Exchange, CodeRow
<1>17. QED
  BY <1>1, <1>2, <1>3, <1>4, <1>5, <1>6, <1>7, <1>8, <1>9, <1>10, <1>11,
     <1>12, <1>13, <1>14, <1>15, <1>16
     DEF Next

\* No step revives a revoked approval.
LEMMA DeadStep ==
    ASSUME TypeOK, Keys, Chain, Dead, [Next]_vars
    PROVE  Dead'
<1>1. ASSUME NEW c \in Clients, NEW uris \in SUBSET Redirects, RegisterClient(c, uris)
        PROVE  Dead'
  BY <1>1
     DEF RegisterClient, AcceptableRedirects, vars, tables, flights, history,
         TypeOK, Keys, Chain, Backed, Dead, RevokedStaysDead, Exchange, CodeRow,
         TokenRow, Consent, Handover
<1>2. ASSUME NEW r \in Requests, NEW c \in Clients, NEW u \in Redirects, NEW v \in Verifiers,
            NEW asked \in Scopes, NEW ticked \in BOOLEAN, AuthorizeLookup(r, c, u, v, asked, ticked)
        PROVE  Dead'
  BY <1>2
     DEF AuthorizeLookup, KnownTarget, GrantedScope, vars, tables, flights,
         history, TypeOK, Keys, Chain, Backed, Dead, RevokedStaysDead, Exchange,
         CodeRow, TokenRow, Consent, Handover
<1>3. ASSUME NEW x \in approving, NEW code \in Codes, AuthorizeIssue(x, code)
        PROVE  Dead'
  BY <1>3
     DEF AuthorizeIssue, vars, tables, flights, history, TypeOK, Keys, Chain,
         Backed, Dead, RevokedStaysDead, Exchange, CodeRow, TokenRow, Consent,
         Handover
<1>4. ASSUME NEW r \in Requests, NEW code \in Codes, NEW c \in Clients, NEW u \in Redirects,
            NEW v \in Verifiers, ExchangeLookup(r, code, c, u, v)
        PROVE  Dead'
  BY <1>4
     DEF ExchangeLookup, Redeemable, vars, tables, flights, history, TypeOK,
         Keys, Chain, Backed, Dead, RevokedStaysDead, Exchange, CodeRow,
         TokenRow, Consent, Handover
<1>5. ASSUME NEW x \in reading, ExchangeBurn(x)
        PROVE  Dead'
  BY <1>5
     DEF ExchangeBurn, CodesAfterBurn, vars, tables, flights, history, TypeOK,
         Keys, Chain, Backed, Dead, RevokedStaysDead, Exchange, CodeRow,
         TokenRow, Consent, Handover
<1>6. ASSUME NEW x \in minting, NEW t \in Tokens, ExchangeMint(x, t)
        PROVE  Dead'
  BY <1>6
     DEF ExchangeMint, vars, tables, flights, history, TypeOK, Keys, Chain,
         Backed, Dead, RevokedStaysDead, Exchange, CodeRow, TokenRow, Consent,
         Handover
<1>7. ASSUME NEW r \in sweeping, ExchangeSweep(r)
        PROVE  Dead'
  BY <1>7
     DEF ExchangeSweep, SweepExpired, vars, tables, flights, history, TypeOK,
         Keys, Chain, Backed, Dead, RevokedStaysDead, Exchange, CodeRow,
         TokenRow, Consent, Handover
<1>8. ASSUME NEW r \in Requests, Abort(r)
        PROVE  Dead'
  BY <1>8
     DEF Abort, vars, tables, flights, history, TypeOK, Keys, Chain, Backed,
         Dead, RevokedStaysDead, Exchange, CodeRow, TokenRow, Consent, Handover
<1>9. ASSUME NEW row \in tokens, UseToken(row)
        PROVE  Dead'
  BY <1>9
     DEF UseToken, vars, tables, flights, history, TypeOK, Keys, Chain, Backed,
         Dead, RevokedStaysDead, Exchange, CodeRow, TokenRow, Consent, Handover
<1>10. ASSUME NEW c \in Clients, RevokeClient(c)
        PROVE  Dead'
  BY <1>10
     DEF RevokeClient, RecordRevocation, vars, tables, flights, history, TypeOK,
         Keys, Chain, Backed, Dead, RevokedStaysDead, Exchange, CodeRow,
         TokenRow, Consent, Handover
<1>11. CASE RevokeAllClients
  BY <1>11
     DEF RevokeAllClients, RecordRevocation, vars, tables, flights, history,
         TypeOK, Keys, Chain, Backed, Dead, RevokedStaysDead, Exchange, CodeRow,
         TokenRow, Consent, Handover
<1>12. CASE JanitorSweep
  BY <1>12
     DEF JanitorSweep, SweepExpired, vars, tables, flights, history, TypeOK,
         Keys, Chain, Backed, Dead, RevokedStaysDead, Exchange, CodeRow,
         TokenRow, Consent, Handover
<1>13. ASSUME NEW c \in Clients, JanitorConnections(c)
        PROVE  Dead'
  BY <1>13
     DEF JanitorConnections, vars, tables, flights, history, TypeOK, Keys,
         Chain, Backed, Dead, RevokedStaysDead, Exchange, CodeRow, TokenRow,
         Consent, Handover
<1>14. CASE JanitorClients
  BY <1>14
     DEF JanitorClients, vars, tables, flights, history, TypeOK, Keys, Chain,
         Backed, Dead, RevokedStaysDead, Exchange, CodeRow, TokenRow, Consent,
         Handover
<1>15. CASE Tick
  BY <1>15
     DEF Tick, vars, tables, flights, history, TypeOK, Keys, Chain, Backed,
         Dead, RevokedStaysDead, Exchange, CodeRow, TokenRow, Consent, Handover
<1>16. CASE UNCHANGED vars
  BY <1>16
     DEF vars, tables, flights, history, TypeOK, Keys, Chain, Backed, Dead,
         RevokedStaysDead, Exchange, CodeRow, TokenRow, Consent, Handover
<1>17. QED
  BY <1>1, <1>2, <1>3, <1>4, <1>5, <1>6, <1>7, <1>8, <1>9, <1>10, <1>11,
     <1>12, <1>13, <1>14, <1>15, <1>16
     DEF Next

\* No step leaves a holder out of the registration table unrecorded.
LEMMA ListedStep ==
    ASSUME TypeOK, Listed, [Next]_vars
    PROVE  Listed'
<1>1. ASSUME NEW c \in Clients, NEW uris \in SUBSET Redirects, RegisterClient(c, uris)
        PROVE  Listed'
  BY <1>1
     DEF RegisterClient, AcceptableRedirects, vars, tables, flights, history,
         TypeOK, Listed, HoldersAreListed, Registered, ClientRow, CodeRow,
         TokenRow, Approval, Exchange, Consent, Handover
<1>2. ASSUME NEW r \in Requests, NEW c \in Clients, NEW u \in Redirects, NEW v \in Verifiers,
            NEW asked \in Scopes, NEW ticked \in BOOLEAN, AuthorizeLookup(r, c, u, v, asked, ticked)
        PROVE  Listed'
  BY <1>2
     DEF AuthorizeLookup, KnownTarget, GrantedScope, vars, tables, flights,
         history, TypeOK, Listed, HoldersAreListed, Registered, ClientRow,
         CodeRow, TokenRow, Approval, Exchange, Consent, Handover
<1>3. ASSUME NEW x \in approving, NEW code \in Codes, AuthorizeIssue(x, code)
        PROVE  Listed'
  BY <1>3
     DEF AuthorizeIssue, vars, tables, flights, history, TypeOK, Listed,
         HoldersAreListed, Registered, ClientRow, CodeRow, TokenRow, Approval,
         Exchange, Consent, Handover
<1>4. ASSUME NEW r \in Requests, NEW code \in Codes, NEW c \in Clients, NEW u \in Redirects,
            NEW v \in Verifiers, ExchangeLookup(r, code, c, u, v)
        PROVE  Listed'
  BY <1>4
     DEF ExchangeLookup, Redeemable, vars, tables, flights, history, TypeOK,
         Listed, HoldersAreListed, Registered, ClientRow, CodeRow, TokenRow,
         Approval, Exchange, Consent, Handover
<1>5. ASSUME NEW x \in reading, ExchangeBurn(x)
        PROVE  Listed'
  BY <1>5
     DEF ExchangeBurn, CodesAfterBurn, vars, tables, flights, history, TypeOK,
         Listed, HoldersAreListed, Registered, ClientRow, CodeRow, TokenRow,
         Approval, Exchange, Consent, Handover
<1>6. ASSUME NEW x \in minting, NEW t \in Tokens, ExchangeMint(x, t)
        PROVE  Listed'
  BY <1>6
     DEF ExchangeMint, vars, tables, flights, history, TypeOK, Listed,
         HoldersAreListed, Registered, ClientRow, CodeRow, TokenRow, Approval,
         Exchange, Consent, Handover
<1>7. ASSUME NEW r \in sweeping, ExchangeSweep(r)
        PROVE  Listed'
  BY <1>7
     DEF ExchangeSweep, SweepExpired, vars, tables, flights, history, TypeOK,
         Listed, HoldersAreListed, Registered, ClientRow, CodeRow, TokenRow,
         Approval, Exchange, Consent, Handover
<1>8. ASSUME NEW r \in Requests, Abort(r)
        PROVE  Listed'
  BY <1>8
     DEF Abort, vars, tables, flights, history, TypeOK, Listed,
         HoldersAreListed, Registered, ClientRow, CodeRow, TokenRow, Approval,
         Exchange, Consent, Handover
<1>9. ASSUME NEW row \in tokens, UseToken(row)
        PROVE  Listed'
  BY <1>9
     DEF UseToken, vars, tables, flights, history, TypeOK, Listed,
         HoldersAreListed, Registered, ClientRow, CodeRow, TokenRow, Approval,
         Exchange, Consent, Handover
<1>10. ASSUME NEW c \in Clients, RevokeClient(c)
        PROVE  Listed'
  BY <1>10
     DEF RevokeClient, RecordRevocation, vars, tables, flights, history, TypeOK,
         Listed, HoldersAreListed, Registered, ClientRow, CodeRow, TokenRow,
         Approval, Exchange, Consent, Handover
<1>11. CASE RevokeAllClients
  BY <1>11
     DEF RevokeAllClients, RecordRevocation, vars, tables, flights, history,
         TypeOK, Listed, HoldersAreListed, Registered, ClientRow, CodeRow,
         TokenRow, Approval, Exchange, Consent, Handover
<1>12. CASE JanitorSweep
  BY <1>12
     DEF JanitorSweep, SweepExpired, vars, tables, flights, history, TypeOK,
         Listed, HoldersAreListed, Registered, ClientRow, CodeRow, TokenRow,
         Approval, Exchange, Consent, Handover
<1>13. ASSUME NEW c \in Clients, JanitorConnections(c)
        PROVE  Listed'
  BY <1>13
     DEF JanitorConnections, vars, tables, flights, history, TypeOK, Listed,
         HoldersAreListed, Registered, ClientRow, CodeRow, TokenRow, Approval,
         Exchange, Consent, Handover
<1>14. CASE JanitorClients
  BY <1>14
     DEF JanitorClients, vars, tables, flights, history, TypeOK, Listed,
         HoldersAreListed, Registered, ClientRow, CodeRow, TokenRow, Approval,
         Exchange, Consent, Handover, NeverAuthorized
<1>15. CASE Tick
  BY <1>15
     DEF Tick, vars, tables, flights, history, TypeOK, Listed, HoldersAreListed,
         Registered, ClientRow, CodeRow, TokenRow, Approval, Exchange, Consent,
         Handover
<1>16. CASE UNCHANGED vars
  BY <1>16
     DEF vars, tables, flights, history, TypeOK, Listed, HoldersAreListed,
         Registered, ClientRow, CodeRow, TokenRow, Approval, Exchange, Consent,
         Handover
<1>17. QED
  BY <1>1, <1>2, <1>3, <1>4, <1>5, <1>6, <1>7, <1>8, <1>9, <1>10, <1>11,
     <1>12, <1>13, <1>14, <1>15, <1>16
     DEF Next

----------------------------------------------------------------------------
(* Theorems. *)

\* The inductive invariant.
THEOREM Invariance == Spec => []IInv
<1>1. IInv /\ [Next]_vars => IInv'
  BY TypeStep, KeysStep, ChainStep, OnceStep, DeadStep, ListedStep DEF IInv
<1>2. QED
  BY InitIInv, <1>1, PTL DEF Spec

\* The tables, the parked requests and the histories are always well typed.
THEOREM TypeCorrect == Spec => []TypeOK
<1>1. IInv => TypeOK
  BY DEF IInv
<1>2. QED
  BY Invariance, <1>1, PTL

\* No token is ever handed to anyone but the client, redirect and verifier of
\* an approval the owner gave.
THEOREM TokensAreApproved == Spec => []HandoverIsApproved
<1>1. IInv => HandoverIsApproved
  BY DEF IInv, Chain
<1>2. QED
  BY Invariance, <1>1, PTL

\* traces:read is only ever in a token whose approval had the box ticked.
THEOREM TracesNeedTick == Spec => []TracesOnlyByTick
<1>1. IInv => TracesOnlyByTick
  BY DEF IInv, Chain, TracesOnlyByTick
<1>2. QED
  BY Invariance, <1>1, PTL

\* Overlapping reads are the only way to two answers from one code.
THEOREM SingleAnswer == Spec => []OneAnswerUnlessOverlapped
<1>1. IInv => OneAnswerUnlessOverlapped
  BY DEF IInv, Once
<1>2. QED
  BY Invariance, <1>1, PTL

\* An exchange in flight is the only way past a revocation.
THEOREM RevocationHolds == Spec => []RevokedStaysDead
<1>1. IInv => RevokedStaysDead
  BY DEF IInv, Dead
<1>2. QED
  BY Invariance, <1>1, PTL

\* A request in flight is the only way to a holder GET /api/clients omits.
THEOREM HoldersListed == Spec => []HoldersAreListed
<1>1. IInv => HoldersAreListed
  BY DEF IInv, Listed
<1>2. QED
  BY Invariance, <1>1, PTL

----------------------------------------------------------------------------
(* The owner's view.  What OwnerGrants says of one token for each approval  *)
(* needs more than that it is answered once: that no exchange past the      *)
(* delete holds an approval that another has turned into a token (Single).  *)

Single ==
    /\ \A x \in minting : x.row.code \in answered
    /\ \A h \in handovers : h.code \in answered
    /\ \A x \in minting, h \in handovers :
          h.code = x.row.code => h.code \in overlapped
    /\ \A x, y \in minting : x.row.code = y.row.code => x = y \/ x.row.code \in overlapped

LEMMA SingleInit == Init => Single
  BY DEF Init, Single

LEMMA SingleStep ==
    ASSUME IInv, Single, [Next]_vars
    PROVE  Single'
<1>1. ASSUME minting' \subseteq minting, handovers' = handovers, answered' = answered,
             overlapped \subseteq overlapped'
      PROVE  Single'
  BY <1>1 DEF Single
<1>2. ASSUME NEW x \in reading, ExchangeBurn(x)
      PROVE  Single'
  <2>1. /\ \A y \in minting' : y \in minting \/ y = x
        /\ answered' = answered \cup {x.row.code}
        /\ handovers' = handovers /\ overlapped' = overlapped
    BY <1>2 DEF ExchangeBurn
  <2>2. x.row.code \in answered => x.row.code \in overlapped
    BY DEF IInv, Once
  <2> QED
    BY <2>1, <2>2 DEF Single
<1>3. ASSUME NEW x \in minting, NEW t \in Tokens, ExchangeMint(x, t)
      PROVE  Single'
  <2>1. /\ minting' = minting \ {x}
        /\ \A h \in handovers' : h \in handovers \/ h.code = x.row.code
        /\ answered' = answered /\ overlapped' = overlapped
    BY <1>3 DEF ExchangeMint
  <2> QED
    BY <2>1 DEF Single
<1>4. ASSUME NEW r \in Requests, NEW code \in Codes, NEW c \in Clients, NEW u \in Redirects,
             NEW v \in Verifiers, ExchangeLookup(r, code, c, u, v)
      PROVE  Single'
  BY <1>1, <1>4 DEF ExchangeLookup
<1>5. ASSUME UNCHANGED <<minting, handovers, answered, overlapped>>
      PROVE  Single'
  BY <1>1, <1>5
<1>6. ASSUME NEW r \in Requests, Abort(r)
      PROVE  Single'
  BY <1>1, <1>6 DEF Abort, history
<1> QED
  BY <1>2, <1>3, <1>4, <1>5, <1>6
     DEF Next, RegisterClient, AuthorizeLookup, AuthorizeIssue, ExchangeSweep, UseToken,
         RevokeClient, RevokeAllClients, JanitorSweep, JanitorConnections, JanitorClients,
         Tick, vars, flights, history

\* A token as the owner sees it.
Entry(row, h) == [token |-> row.token, code |-> h.code, client |-> row.client,
                  traces |-> row.scope = "traces", until |-> row.expires]

LEMMA HeldAre ==
    \A e : e \in Held <=> \E row \in tokens, h \in handovers :
                              row.token = h.token /\ e = Entry(row, h)
<1> DEFINE Of(row) == {Entry(row, h) : h \in {g \in handovers : g.token = row.token}}
<1>1. Held = UNION {Of(row) : row \in tokens}
  BY DEF Held, Entry
<1>2. \A row, e : e \in Of(row) <=> \E h \in handovers : h.token = row.token /\ e = Entry(row, h)
  OBVIOUS
<1> HIDE DEF Of
<1> QED
  BY <1>1, <1>2

LEMMA HeldAreNext ==
    \A e : e \in Held' <=> \E row \in tokens', h \in handovers' :
                               row.token = h.token /\ e = Entry(row, h)
<1> DEFINE Of(row) == {Entry(row, h) : h \in {g \in handovers' : g.token = row.token}}
<1>1. Held' = UNION {Of(row) : row \in tokens'}
  BY DEF Held, Entry
<1>2. \A row, e : e \in Of(row) <=> \E h \in handovers' : h.token = row.token /\ e = Entry(row, h)
  OBVIOUS
<1> HIDE DEF Of
<1> QED
  BY <1>1, <1>2

\* Approving, reading, handing out, withdrawing and expiring, one lemma each.
LEMMA ApproveMaps ==
    ASSUME IInv, NEW x \in approving, NEW code \in Codes, AuthorizeIssue(x, code)
    PROVE  Owner!Next
<1>1. x.client \in Clients /\ x.ticked \in BOOLEAN
  BY DEF IInv, TypeOK, Approval
<1>2. Given' = Given \cup {[code |-> code, client |-> x.client, ticked |-> x.ticked]}
  <2> DEFINE k == [code |-> code, client |-> x.client, redirect |-> x.redirect,
                   challenge |-> x.challenge, ticked |-> x.ticked]
  <2>1. consents' = consents \cup {k}
    BY DEF AuthorizeIssue
  <2>2. k.code = code /\ k.client = x.client /\ k.ticked = x.ticked
    OBVIOUS
  <2> HIDE DEF k
  <2> QED
    BY <2>1, <2>2 DEF Given
<1>3. \A a \in Given : a.code # code
  BY DEF AuthorizeIssue, Given
<1>4. Held' = Held /\ Spent' = Spent
  BY DEF AuthorizeIssue, Held, Spent
<1>5. Owner!Approve(code, x.client, x.ticked)
  BY <1>2, <1>3, <1>4 DEF Owner!Approve, AuthorizeIssue
<1> QED
  BY <1>1, <1>5 DEF Owner!Next

LEMMA ShareMaps ==
    ASSUME IInv, Single, NEW r \in Requests, NEW code \in Codes, NEW c \in Clients,
           NEW u \in Redirects, NEW v \in Verifiers, ExchangeLookup(r, code, c, u, v)
    PROVE  [Owner!Next]_Owner!vars
<1>1. PICK row \in codes : row.code = code
  BY DEF ExchangeLookup, Redeemable
<1>2. PICK k \in consents : k.code = code
  BY <1>1 DEF IInv, Chain, Backed
<1>3. code \notin revoked /\ code \notin answered
  BY <1>1 DEF IInv, Dead, Once
<1>4. UNCHANGED <<now, tokens, consents, handovers, revoked, straddled>>
  BY DEF ExchangeLookup, tables
<1>5. Given' = Given /\ Held' = Held /\ Spent' = Spent
  BY <1>4 DEF Given, Held, Spent
<1>6. CASE overlapped' = overlapped \cup {code}
  <2> DEFINE a == [code |-> k.code, client |-> k.client, ticked |-> k.ticked]
  <2>1. a \in Given /\ a.code = code
    BY <1>2 DEF Given
  <2>2. \A s \in Spent : s.code # code
    BY <1>3 DEF Single, Spent
  <2> HIDE DEF a
  <2>3. Owner!Share(a)
    BY <1>3, <1>4, <1>5, <1>6, <2>1, <2>2 DEF Owner!Share
  <2> QED
    BY <2>1, <2>3 DEF Owner!Next
<1>7. CASE overlapped' = overlapped
  BY <1>4, <1>5, <1>7 DEF Owner!vars
<1> QED
  BY <1>6, <1>7 DEF ExchangeLookup

LEMMA HandMaps ==
    ASSUME IInv, Single, NEW x \in minting, NEW t \in Tokens, ExchangeMint(x, t)
    PROVE  Owner!Next
<1> DEFINE row == [token |-> t, client |-> x.row.client, scope |-> x.row.scope,
                   expires |-> now + TokenTTL]
           h   == [token |-> t, code |-> x.row.code, client |-> x.client,
                   redirect |-> x.redirect, verifier |-> x.verifier]
<1>1. PICK k \in consents : /\ k.code = x.row.code
                            /\ k.client = x.row.client
                            /\ x.row.scope = "traces" <=> k.ticked
  BY DEF IInv, Chain, Backed
<1> DEFINE a == [code |-> k.code, client |-> k.client, ticked |-> k.ticked]
           new == [token |-> t, code |-> a.code, client |-> a.client,
                   traces |-> a.ticked, until |-> now + TokenTTL]
<1>2. /\ tokens' = tokens \cup {row} /\ handovers' = handovers \cup {h}
      /\ \A g \in handovers : g.token # t
      /\ UNCHANGED <<now, consents, revoked, straddled, overlapped>>
  BY DEF ExchangeMint
<1>3. \A old \in tokens : old.token # t
  <2> HIDE DEF row, h
  <2> QED
    BY <1>2 DEF IInv, Chain
<1>4. Entry(row, h) = new
  <2>1. k.ticked \in BOOLEAN
    BY DEF IInv, TypeOK, Consent
  <2>2. (x.row.scope = "traces") = k.ticked
    BY <1>1, <2>1
  <2> QED
    BY <1>1, <2>2 DEF Entry
<1>5. row.token = t /\ h.token = t /\ h.code = x.row.code
  OBVIOUS
<1>6. Held' = Held \cup {new}
  <2> HIDE DEF row, h, new, a
  <2> QED
    BY <1>2, <1>3, <1>4, <1>5, HeldAre, HeldAreNext
<1>7. Spent' = Spent \cup {[token |-> t, code |-> a.code]}
  <2>1. a.code = x.row.code
    BY <1>1
  <2> HIDE DEF h, a
  <2> QED
    BY <1>2, <1>5, <2>1 DEF Spent
<1>8. Given' = Given
  BY <1>2 DEF Given
<1>9. a \in Given /\ a.code = x.row.code
  BY <1>1 DEF Given
<1>10. /\ a.code \in revoked => a.code \in straddled
       /\ (\E s \in Spent : s.code = a.code) => a.code \in overlapped
       /\ \A s \in Spent : s.token # t
  <2> HIDE DEF a, row, h
  <2> QED
    BY <1>2, <1>9 DEF IInv, Dead, Single, Spent
<1>11. Owner!Hand(a, t)
  <2>1. new = [token |-> t, code |-> a.code, client |-> a.client,
               traces |-> a.ticked, until |-> now + TokenTTL]
    OBVIOUS
  <2> HIDE DEF a, new
  <2> QED
    BY <1>2, <1>6, <1>7, <1>8, <1>10, <2>1 DEF Owner!Hand
<1> HIDE DEF a
<1> QED
  BY <1>9, <1>11 DEF Owner!Next

LEMMA WithdrawMaps ==
    ASSUME IInv, NEW C \in SUBSET Clients, RecordRevocation(C),
           tokens' = {row \in tokens : row.client \notin C},
           UNCHANGED <<now, consents, handovers, overlapped>>
    PROVE  Owner!Next
<1>1. Held' = {e \in Held : e.client \notin C}
  <2>1. \A row \in tokens, h \in handovers : Entry(row, h).client = row.client
    BY DEF Entry
  <2> QED
    BY <2>1, HeldAre, HeldAreNext
<1>2. Given' = Given /\ Spent' = Spent
  BY DEF Given, Spent
<1> DEFINE theirs == {a.code : a \in {b \in Given : b.client \in C}}
<1>3. theirs = {k.code : k \in {y \in consents : y.client \in C}}
  <2>1. theirs \subseteq {k.code : k \in {y \in consents : y.client \in C}}
    BY DEF Given
  <2>2. ASSUME NEW k \in consents, k.client \in C
        PROVE  k.code \in theirs
    <3>1. [code |-> k.code, client |-> k.client, ticked |-> k.ticked] \in Given
      BY DEF Given
    <3>2. \E a \in {b \in Given : b.client \in C} : a.code = k.code
      BY <2>2, <3>1
    <3> QED
      BY <3>2
  <2> HIDE DEF theirs
  <2> QED
    BY <2>1, <2>2
<1>4. revoked' = revoked \cup theirs
  BY <1>3 DEF RecordRevocation
<1>5. straddled \subseteq straddled' /\ straddled' \subseteq straddled \cup theirs
  <2>1. \A x \in reading \cup minting :
            \E k \in consents : k.code = x.row.code /\ k.client = x.row.client
    BY DEF IInv, Chain, Backed
  <2> HIDE DEF theirs
  <2> QED
    BY <1>3, <2>1 DEF RecordRevocation
<1>6. Owner!Withdraw(C)
  BY <1>1, <1>2, <1>4, <1>5 DEF Owner!Withdraw
<1> QED
  BY <1>6 DEF Owner!Next

LEMMA ExpireMaps ==
    ASSUME SweepExpired, UNCHANGED <<now, consents, handovers, revoked, straddled, overlapped>>
    PROVE  Owner!Next
<1>1. \A row \in tokens, h \in handovers : Entry(row, h).until = row.expires
  BY DEF Entry
<1>2. Held' = {e \in Held : e.until > now}
  BY <1>1, HeldAre, HeldAreNext DEF SweepExpired
<1>3. Given' = Given /\ Spent' = Spent
  BY DEF Given, Spent
<1>4. Owner!Expire
  BY <1>2, <1>3 DEF Owner!Expire
<1> QED
  BY <1>4 DEF Owner!Next

\* Every statement a handler or the janitor runs is a step of OwnerGrants, or
\* one the owner does not see.
LEMMA StepMaps ==
    ASSUME IInv, Single, [Next]_vars
    PROVE  [Owner!Next]_Owner!vars
<1>1. ASSUME UNCHANGED <<now, tokens, consents, handovers, revoked, straddled, overlapped>>
      PROVE  UNCHANGED Owner!vars
  BY <1>1 DEF Owner!vars, Given, Held, Spent
<1>2. ASSUME NEW c \in Clients, RevokeClient(c)
      PROVE  Owner!Next
  <2>1. tokens' = {row \in tokens : row.client \notin {c}}
    BY <1>2 DEF RevokeClient
  <2> QED
    BY <1>2, <2>1, WithdrawMaps DEF RevokeClient
<1>3. ASSUME RevokeAllClients
      PROVE  Owner!Next
  <2>1. tokens' = {row \in tokens : row.client \notin Clients}
    BY <1>3 DEF RevokeAllClients, IInv, TypeOK, TokenRow
  <2> QED
    BY <1>3, <2>1, WithdrawMaps DEF RevokeAllClients
<1>4. ASSUME JanitorSweep \/ \E r \in sweeping : ExchangeSweep(r)
      PROVE  Owner!Next
  BY <1>4, ExpireMaps DEF JanitorSweep, ExchangeSweep, history
<1>5. ASSUME Tick
      PROVE  Owner!Next
  <2>1. Owner!Pass
    BY <1>5 DEF Tick, tables, history, Owner!Pass, Given, Held, Spent
  <2> QED
    BY <2>1 DEF Owner!Next
<1>6. ASSUME NEW x \in reading, ExchangeBurn(x)
      PROVE  UNCHANGED Owner!vars
  BY <1>1, <1>6 DEF ExchangeBurn
<1>7. ASSUME \/ \E c \in Clients, uris \in SUBSET Redirects : RegisterClient(c, uris)
             \/ \E r \in Requests, c \in Clients, u \in Redirects, v \in Verifiers,
                   asked \in Scopes, ticked \in BOOLEAN :
                      AuthorizeLookup(r, c, u, v, asked, ticked)
             \/ \E r \in Requests : Abort(r)
             \/ \E row \in tokens : UseToken(row)
             \/ \E c \in Clients : JanitorConnections(c)
             \/ JanitorClients \/ UNCHANGED vars
      PROVE  UNCHANGED Owner!vars
  BY <1>1, <1>7 DEF RegisterClient, AuthorizeLookup, Abort, UseToken, JanitorConnections,
                    JanitorClients, vars, tables, history
<1> QED
  BY <1>2, <1>3, <1>4, <1>5, <1>6, <1>7, ApproveMaps, ShareMaps, HandMaps DEF Next

\* The server implements the owner's view of it, for any number of clients,
\* codes and requests: no interleaving, failure or housekeeping makes a token
\* without an approval, a second one without an overlap, a wider one than was
\* ticked, or takes one that is good without a withdrawal.
THEOREM ImplementsOwnerGrants == Spec => GrantsAreTheOwners
<1>1. Init => Owner!Init
  BY DEF Init, Owner!Init, Given, Held, Spent
<1> QED
  BY <1>1, SingleInit, SingleStep, StepMaps, Invariance, PTL
     DEF Spec, GrantsAreTheOwners, Owner!Spec

=============================================================================
