-------------------------- MODULE McpEndpointProofs --------------------------
(***************************************************************************)
(* Proofs about McpEndpoint: a version that was negotiated is one the      *)
(* server then serves, and nobody gives up who could have come to one; the *)
(* list of the versions named keeps within its cap and loses no name but   *)
(* as history says; the three tables a request leaves its mark in agree,   *)
(* however many clients overlap, and whatever fails.                       *)
(***************************************************************************)
EXTENDS McpEndpoint, TLAPS, FiniteSetTheorems, FunctionTheorems, SequenceTheorems

EraVersions(era) == IF era = "modern" THEN Modern ELSE Legacy

\* A handshake ends on a version of its era.
Negotiates ==
    \A c \in Clients : peer[c].phase = "settled" => peer[c].version \in EraVersions(peer[c].era)

\* A note that is under way names a version, and has read a list with room.
HasRoom ==
    \A s \in Clients :
        /\ flight[s].phase \in {"gated", "read"} => Decide(flight[s].r).note \in Versions
        /\ flight[s].phase = "read" =>
              IsFiniteSet(flight[s].kept) /\ Cardinality(flight[s].kept) < MaxSeen

\* Rows are of principals that there are.
LedgerTyped == conn \in [Principals -> Row] /\ older \subseteq Principals \X Principals

Shape == past = [gone |-> past.gone, refused |-> past.refused, torn |-> past.torn,
                 noted |-> past.noted, dropped |-> past.dropped]

\* The cap of the log goes by what it counted.
CallsCounted == At("calls.oldest") => jan.over \in Int

IInv ==
    /\ TypeOK
    /\ CallsCounted
    /\ Negotiates
    /\ HasRoom
    /\ IsFiniteSet(seen)
    /\ Shape
    /\ VersionsNoted

----------------------------------------------------------------------------
(* The eras. *)

LEMMA NoteOf == ASSUME NEW r \in Request PROVE Decide(r).note \in Versions \cup {NoVersion}
<1>1. r.meta.asked \in Versions \cup {NoVersion} /\ r.asked \in Versions \cup {NoVersion}
  BY DEF Request, Meta
<1>2. LegacyDecision(r).note \in {r.asked, NoVersion}
  BY DEF LegacyDecision, Decision, Answer
<1>3. ModernDecision(r).note = r.meta.asked
  BY DEF ModernDecision, Decision
<1> QED
  BY <1>1, <1>2, <1>3 DEF Decide, Decision

LEMMA GreetingIsRequest == ASSUME NEW p \in Peer PROVE Greeting(p) \in Request
  BY DEF Peer, Greeting, InEra, Plain, NoMeta, Request, Meta, Methods

LEMMA WorkIsRequest ==
    ASSUME NEW p \in Peer, NEW t \in Tools
    PROVE  Work(p, t) \in Request
  BY DEF Peer, Work, InEra, Plain, NoMeta, Request, Meta, Methods

\* A greeting that is answered with a result names versions of its own era.
LEMMA GreetingAnswer ==
    ASSUME NEW p \in Peer, Decide(Greeting(p)).answer.how = "result"
    PROVE  Decide(Greeting(p)).answer.versions \subseteq EraVersions(p.era)
<1> DEFINE r == Greeting(p)
<1>1. CASE p.era = "modern"
  <2>1. /\ r.method = "server/discover" /\ r.meta.reserved
    BY <1>1 DEF Greeting, InEra, Plain, NoMeta
  <2>2. Decide(r) = ModernDecision(r)
    BY <2>1 DEF Decide, IsModern
  <2>3. Decide(r).answer.versions \subseteq Modern
    BY <2>2 DEF ModernDecision, Decision, Answer
  <2> QED
    BY <1>1, <2>3 DEF EraVersions
<1>2. CASE p.era = "legacy"
  <2>1. /\ r.method = "initialize" /\ r.header = NoVersion /\ ~r.meta.reserved
    BY <1>2 DEF Greeting, Plain, NoMeta
  <2>2. ~IsModern(r)
    BY <2>1, ErasAssumption DEF IsModern, Versions
  <2>3. Decide(r).answer.versions = {Negotiated(r.asked)}
    BY <2>1, <2>2 DEF Decide, LegacyDecision, Decision, Answer
  <2> QED
    BY <1>2, <2>3, ErasAssumption DEF EraVersions, Negotiated
<1> QED
  BY <1>1, <1>2 DEF Peer

\* A well-formed call in a version of the era is answered by the era's stack.
LEMMA WorkIsServed ==
    ASSUME NEW p \in Peer, NEW t \in Tools, p.version \in EraVersions(p.era)
    PROVE  LET a == Decide(Work(p, t)).answer IN a.how = "result" /\ a.era = p.era
<1> DEFINE r == Work(p, t)
<1>1. CASE p.era = "modern"
  <2>1. p.version \in Modern /\ p.version # NoVersion /\ t # NoTool
    BY <1>1, ErasAssumption DEF EraVersions, Versions
  <2>2. /\ r.method = "tools/call" /\ r.meta.reserved /\ r.meta.asked = p.version
        /\ r.meta.caps /\ r.meta.sound /\ r.header = p.version /\ r.tool = t
        /\ r.mirror = {"method", "name"}
    BY <1>1 DEF Work, InEra, Plain, NoMeta
  <2>3. Refusal(r) = "result"
    BY <2>1, <2>2 DEF Refusal, Named
  <2>4. Decide(r) = ModernDecision(r)
    BY <2>2 DEF Decide, IsModern
  <2> QED
    BY <1>1, <2>3, <2>4 DEF ModernDecision, Decision, Answer
<1>2. CASE p.era = "legacy"
  <2>1. p.version \in Legacy /\ p.version \notin Modern
    BY <1>2, ErasAssumption DEF EraVersions
  <2>2. r.method = "tools/call" /\ ~r.meta.reserved /\ r.header = p.version
    BY <1>2 DEF Work, InEra, Plain, NoMeta
  <2>3. ~IsModern(r)
    BY <2>1, <2>2 DEF IsModern
  <2>4. LegacyDecision(r) = Decision(NoVersion, TRUE, Answer("legacy", "result", {}))
    BY <2>2 DEF LegacyDecision
  <2> QED
    BY <1>2, <2>2, <2>3, <2>4 DEF Decide, Decision, Answer
<1> QED
  BY <1>1, <1>2 DEF Peer

\* What a client makes of an answer is a peer, and settled only in its era.
LEMMA TakenIsSound ==
    ASSUME NEW c \in Clients, NEW p \in Peer, p.phase = "greeting",
           NEW q \in Taken(c, p, Decide(Greeting(p)).answer)
    PROVE  q \in Peer /\ (q.phase = "settled" => q.version \in EraVersions(q.era))
<1> DEFINE a == Decide(Greeting(p)).answer
           common == a.versions \cap p.speaks
<1>1. common \subseteq Versions /\ Fallback[c] \in Versions
  BY EndpointAssumption DEF Peer
<1>2. CASE a.how = "result" /\ common # {}
  <2>1. PICK v \in common : q = [p EXCEPT !.phase = "settled", !.version = v]
    BY <1>2 DEF Taken
  <2>2. v \in EraVersions(p.era)
    BY <1>2, GreetingAnswer
  <2> QED
    BY <1>1, <2>1, <2>2 DEF Peer
<1>3. CASE ~(a.how = "result" /\ common # {})
  <2>1. \/ \E v \in common : q = [p EXCEPT !.version = v]
        \/ q = [p EXCEPT !.era = "legacy", !.version = Fallback[c]]
        \/ q = [p EXCEPT !.phase = "failed"]
    BY <1>3 DEF Taken
  <2> QED
    BY <1>1, <2>1 DEF Peer
<1> QED
  BY <1>2, <1>3

----------------------------------------------------------------------------
(* The steps. *)

LEMMA StepsLength == Len(JanSteps) = 7
  BY DEF JanSteps

LEMMA RoomNat == MaxSeen \in Nat
  BY EndpointAssumption

LEMMA InvInit == Init => IInv
<1> SUFFICES ASSUME Init PROVE IInv
  OBVIOUS
<1>1. peer \in [Clients -> Peer] /\ Negotiates
  <2>1. PICK speaks \in [Clients -> SUBSET Versions] :
           peer = [c \in Clients |->
                      [phase |-> "greeting", version |-> First[c], speaks |-> speaks[c],
                       era |-> IF Kind[c] = "legacy" THEN "legacy" ELSE "modern"]]
    BY DEF Init
  <2> QED
    BY <2>1, EndpointAssumption DEF Peer, Negotiates
<1>2. flight \in [Clients -> Flight] /\ \A s \in Clients : flight[s].phase = "none"
  BY DEF Init, NoFlight, Flight, Phases, Outcomes
<1>3. IsFiniteSet(seen) /\ seen \subseteq Versions /\ Cardinality(seen) <= MaxSeen
  BY FS_EmptySet, RoomNat DEF Init
<1>4. calls \in Seq(Clients) /\ jan.at \in 1..Len(JanSteps) /\ CallsCounted
  BY StepsLength DEF Init, CallsCounted, At, JanSteps
<1>5. Shape /\ VersionsNoted /\ LedgerTyped
  BY DEF Init, Shape, VersionsNoted, LedgerTyped, Row, NoRow
<1> QED
  BY <1>1, <1>2, <1>3, <1>4, <1>5 DEF IInv, TypeOK, HasRoom, LedgerTyped

\* A client's step: only what it tries and what it sends.
LEMMA FlyKeepsInv ==
    ASSUME IInv, NEW c \in Clients, NEW r \in Request, Fly(c, r),
           UNCHANGED <<peer, seen, calls, ledger, jan, past>>
    PROVE  IInv'
<1>1. flight' \in [Clients -> Flight]
  BY DEF IInv, TypeOK, Fly, NoFlight, Flight, Phases, Outcomes
<1>2. flight'[c].phase = "sent" /\ flight'[c].r = r
      /\ \A s \in Clients \ {c} : flight'[s] = flight[s]
  BY DEF IInv, TypeOK, Fly, NoFlight, Flight
<1>3. TypeOK'
  BY <1>1, <1>2 DEF IInv, TypeOK, ledger
<1>4. HasRoom'
  BY <1>2 DEF IInv, HasRoom
<1> QED
  BY <1>3, <1>4 DEF IInv, Negotiates, Shape, VersionsNoted, CallsCounted, At

LEMMA GreetKeepsInv == ASSUME IInv, NEW c \in Clients, Greet(c) PROVE IInv'
<1>1. Greeting(peer[c]) \in Request
  BY GreetingIsRequest DEF IInv, TypeOK
<1> QED
  BY <1>1, FlyKeepsInv DEF Greet

LEMMA CallKeepsInv ==
    ASSUME IInv, NEW c \in Clients, NEW t \in Tools, Call(c, t)
    PROVE  IInv'
<1>1. Work(peer[c], t) \in Request
  BY WorkIsRequest DEF IInv, TypeOK
<1> QED
  BY <1>1, FlyKeepsInv DEF Call

LEMMA StrayKeepsInv ==
    ASSUME IInv, NEW c \in Clients, NEW r \in Odd, Stray(c, r)
    PROVE  IInv'
  BY FlyKeepsInv, EndpointAssumption DEF Stray

LEMMA ReceiveKeepsInv == ASSUME IInv, NEW c \in Clients, Receive(c) PROVE IInv'
<1>1. flight' \in [Clients -> Flight] /\ flight'[c].phase = "none"
      /\ \A s \in Clients \ {c} : flight'[s] = flight[s]
  BY DEF IInv, TypeOK, Receive, NoFlight, Flight, Phases, Outcomes
<1>2. peer' \in [Clients -> Peer] /\ Negotiates'
  <2>1. CASE UNCHANGED peer
    BY <2>1 DEF IInv, TypeOK, Negotiates
  <2>2. CASE /\ peer[c].phase = "greeting" /\ flight[c].r = Greeting(peer[c])
             /\ \E p \in Taken(c, peer[c], Decide(flight[c].r).answer) :
                    peer' = [peer EXCEPT ![c] = p]
    <3>1. PICK p \in Taken(c, peer[c], Decide(Greeting(peer[c])).answer) :
                 peer' = [peer EXCEPT ![c] = p]
      BY <2>2
    <3>2. p \in Peer /\ (p.phase = "settled" => p.version \in EraVersions(p.era))
      BY <2>2, TakenIsSound DEF IInv, TypeOK
    <3> QED
      BY <3>1, <3>2 DEF IInv, TypeOK, Negotiates
  <2> QED
    BY <2>1, <2>2 DEF Receive
<1>3. TypeOK'
  BY <1>1, <1>2 DEF IInv, TypeOK, Receive, ledger
<1>4. HasRoom'
  BY <1>1 DEF IInv, HasRoom
<1> QED
  BY <1>2, <1>3, <1>4 DEF IInv, Receive, Shape, VersionsNoted, CallsCounted, At

\* The server moves a request of a client on, and has room for its note.
LEMMA MoveOnKeepsInv ==
    ASSUME IInv, NEW s \in Clients, NEW f \in Flight,
           flight' = [flight EXCEPT ![s] = f],
           flight[s].phase # "none", f.r = flight[s].r,
           f.phase \in {"gated", "read"} => Decide(f.r).note \in Versions,
           f.phase = "read" => IsFiniteSet(f.kept) /\ Cardinality(f.kept) < MaxSeen,
           UNCHANGED <<peer, jan>>, calls' \in Seq(Clients), LedgerTyped',
           seen' \subseteq Versions, IsFiniteSet(seen'), Cardinality(seen') <= MaxSeen,
           Shape', VersionsNoted'
    PROVE  IInv'
<1>1. /\ flight' \in [Clients -> Flight] /\ flight'[s] = f
      /\ \A t \in Clients \ {s} : flight'[t] = flight[t]
  BY DEF IInv, TypeOK
<1>2. f.r \in Request
  BY DEF IInv, TypeOK
<1>3. TypeOK'
  BY <1>1, <1>2 DEF IInv, TypeOK, LedgerTyped
<1>4. HasRoom'
  BY <1>1 DEF IInv, HasRoom
<1> QED
  BY <1>3, <1>4 DEF IInv, Negotiates, CallsCounted, At

LEMMA LedgerStays == ASSUME IInv, UNCHANGED ledger PROVE LedgerTyped'
  BY DEF IInv, TypeOK, ledger, LedgerTyped

\* Record touches the ledger, and history's word of what may be missing in it.
LEMMA RecordKeeps ==
    ASSUME IInv, NEW s \in Clients, NEW requests \in Nat, NEW tools \in Nat,
           Record(s, requests, tools), seen' = seen
    PROVE  Shape' /\ VersionsNoted' /\ LedgerTyped'
<1>1. past'.noted = past.noted /\ past'.dropped = past.dropped /\ Shape'
  BY DEF Record, IInv, Shape
<1>2. LedgerTyped'
  <2>1. CASE UNCHANGED ledger
    BY <2>1, LedgerStays
  <2>2. CASE Upsert(Principal[s], requests, tools)
    <3>1. Principal[s] \in Principals /\ conn \in [Principals -> Row]
      BY DEF Principals, IInv, TypeOK
    <3>2. conn' \in [Principals -> Row]
      BY <2>2, <3>1 DEF Upsert, Row
    <3>3. older' \subseteq Principals \X Principals
      BY <2>2, <3>1 DEF Upsert, Rows, IInv, TypeOK
    <3> QED
      BY <3>2, <3>3 DEF LedgerTyped
  <2> QED
    BY <2>1, <2>2 DEF Record
<1> QED
  BY <1>1, <1>2 DEF IInv, VersionsNoted

LEMMA GateNoteKeepsInv == ASSUME IInv, NEW s \in Clients, GateNote(s) PROVE IInv'
<1> DEFINE r == flight[s].r
           phase == IF Decide(r).note = NoVersion THEN "noted" ELSE "gated"
           f == [flight[s] EXCEPT !.phase = phase]
<1>1. flight[s] \in Flight /\ r \in Request
  BY DEF IInv, TypeOK, GateNote
<1>2. phase \in {"noted", "gated"} /\ (phase = "gated" => Decide(r).note \in Versions)
  BY <1>1, NoteOf
<1>3. f \in Flight /\ f.phase = phase /\ f.r = r
  BY <1>1, <1>2 DEF Flight, Phases
<1>4. Shape' /\ VersionsNoted' /\ LedgerTyped'
  BY RecordKeeps DEF GateNote
<1>5. flight' = [flight EXCEPT ![s] = f]
  BY DEF GateNote
<1> HIDE DEF f, phase
<1> QED
  BY <1>2, <1>3, <1>4, <1>5, MoveOnKeepsInv DEF IInv, TypeOK, GateNote

\* A note: the name is in the list, or said to be missing.
LEMMA NotedKeeps ==
    ASSUME Shape, VersionsNoted, NEW v, NEW missing,
           past' = Noted(v, missing), v \in seen' \cup missing,
           seen \subseteq seen' \cup missing
    PROVE  Shape' /\ VersionsNoted'
<1>1. /\ past'.noted = past.noted \cup {v}
      /\ past'.dropped = (past.dropped \ {v}) \cup missing
      /\ Shape'
  BY DEF Noted, Shape
<1> QED
  BY <1>1 DEF VersionsNoted

LEMMA NoteReadKeepsInv == ASSUME IInv, NEW s \in Clients, NoteRead(s) PROVE IInv'
<1> DEFINE r == flight[s].r
           v == Decide(r).note
<1>1. PICK list \in {seen, {}} :
         LET skip == v \in list \/ Cardinality(list) >= MaxSeen
         IN /\ flight' = [flight EXCEPT ![s].kept = IF skip THEN {} ELSE list,
                                         ![s].phase = IF skip THEN "noted" ELSE "read"]
            /\ past' = IF skip THEN Noted(v, {v} \ seen) ELSE past
  BY DEF NoteRead
<1> DEFINE skip == v \in list \/ Cardinality(list) >= MaxSeen
           f == [flight[s] EXCEPT !.kept = IF skip THEN {} ELSE list,
                                  !.phase = IF skip THEN "noted" ELSE "read"]
<1>2. flight[s] \in Flight /\ v \in Versions /\ flight[s].phase = "gated"
  BY DEF IInv, TypeOK, HasRoom, NoteRead
<1>3. list \subseteq Versions /\ IsFiniteSet(list)
  BY <1>1, FS_EmptySet DEF IInv, TypeOK
<1>4. Cardinality(list) \in Nat
  BY <1>3, FS_CardinalityType
<1>5. f \in Flight /\ f.r = r /\ f.phase \in {"noted", "read"}
  BY <1>2, <1>3 DEF Flight, Phases
<1>6. f.phase = "read" => IsFiniteSet(f.kept) /\ Cardinality(f.kept) < MaxSeen
  <2>1. ASSUME f.phase = "read" PROVE ~skip /\ f.kept = list
    BY <2>1, <1>2 DEF Flight
  <2> QED
    BY <2>1, <1>3, <1>4, RoomNat
<1>7. Shape' /\ VersionsNoted'
  <2>1. CASE skip
    BY <2>1, <1>1, NotedKeeps DEF IInv, NoteRead
  <2>2. CASE ~skip
    BY <2>2, <1>1 DEF IInv, NoteRead, Shape, VersionsNoted
  <2> QED
    BY <2>1, <2>2
<1>8. flight' = [flight EXCEPT ![s] = f]
  BY <1>1, <1>2 DEF IInv, TypeOK
<1> HIDE DEF f, skip
<1> QED
  BY <1>2, <1>5, <1>6, <1>7, <1>8, MoveOnKeepsInv, LedgerStays DEF IInv, TypeOK, NoteRead

LEMMA NoteWriteKeepsInv == ASSUME IInv, NEW s \in Clients, NoteWrite(s) PROVE IInv'
<1> DEFINE r == flight[s].r
           v == Decide(r).note
           list == flight[s].kept \cup {v}
           f == [flight[s] EXCEPT !.kept = {}, !.phase = "noted"]
<1>1. /\ flight[s] \in Flight /\ v \in Versions /\ flight[s].phase = "read"
      /\ IsFiniteSet(flight[s].kept) /\ Cardinality(flight[s].kept) < MaxSeen
  BY DEF IInv, TypeOK, HasRoom, NoteWrite
<1>2. list \subseteq Versions /\ IsFiniteSet(list) /\ Cardinality(list) <= MaxSeen
  <2>1. Cardinality(flight[s].kept) \in Nat
    BY <1>1, FS_CardinalityType
  <2>2. /\ IsFiniteSet(list)
        /\ \/ Cardinality(list) = Cardinality(flight[s].kept)
           \/ Cardinality(list) = Cardinality(flight[s].kept) + 1
    BY <1>1, FS_AddElement
  <2> QED
    BY <1>1, <2>1, <2>2, RoomNat DEF Flight
<1>3. \/ seen' = list /\ past' = Noted(v, seen \ list)
      \/ seen' = seen /\ past' = Noted(v, {v} \ seen)
  BY DEF NoteWrite
<1>4. Shape' /\ VersionsNoted'
  BY <1>3, NotedKeeps DEF IInv
<1>5. seen' \subseteq Versions /\ IsFiniteSet(seen') /\ Cardinality(seen') <= MaxSeen
  BY <1>2, <1>3 DEF IInv, TypeOK
<1>6. f \in Flight /\ f.r = r /\ f.phase = "noted"
  BY <1>1 DEF Flight, Phases
<1>7. flight' = [flight EXCEPT ![s] = f]
  BY <1>1 DEF IInv, TypeOK, NoteWrite
<1> HIDE DEF f, list
<1> QED
  BY <1>1, <1>4, <1>5, <1>6, <1>7, MoveOnKeepsInv, LedgerStays DEF IInv, TypeOK, NoteWrite

LEMMA RespondKeepsInv == ASSUME IInv, NEW s \in Clients, Respond(s) PROVE IInv'
<1> DEFINE f == [flight[s] EXCEPT !.phase = "handled"]
<1>1. flight[s] \in Flight /\ flight[s].phase = "noted"
  BY DEF IInv, TypeOK, Respond
<1>2. f \in Flight /\ f.r = flight[s].r /\ f.phase = "handled"
  BY <1>1 DEF Flight, Phases
<1>3. flight' = [flight EXCEPT ![s] = f]
  BY DEF Respond
<1>4. Shape' /\ VersionsNoted'
  <2>1. past'.noted = past.noted /\ past'.dropped = past.dropped /\ Shape'
    BY DEF IInv, Respond, Shape
  <2> QED
    BY <2>1 DEF IInv, Respond, VersionsNoted
<1> HIDE DEF f
<1> QED
  BY <1>1, <1>2, <1>3, <1>4, MoveOnKeepsInv, LedgerStays DEF IInv, TypeOK, Respond

LEMMA RunKeepsInv == ASSUME IInv, NEW s \in Clients, Run(s) PROVE IInv'
<1>1. PICK outcome \in {"ok", "error"} :
         flight' = [flight EXCEPT ![s].ran = outcome, ![s].told = outcome, ![s].phase = "ran"]
  BY DEF Run
<1> DEFINE f == [flight[s] EXCEPT !.ran = outcome, !.told = outcome, !.phase = "ran"]
<1>2. flight[s] \in Flight /\ flight[s].phase = "noted"
  BY DEF IInv, TypeOK, Run
<1>3. f \in Flight /\ f.r = flight[s].r /\ f.phase = "ran"
  BY <1>2 DEF Flight, Phases, Outcomes
<1>4. flight' = [flight EXCEPT ![s] = f]
  BY <1>1, <1>2 DEF IInv, TypeOK
<1>5. Shape' /\ VersionsNoted'
  BY DEF IInv, Run, Shape, VersionsNoted
<1> HIDE DEF f
<1> QED
  BY <1>2, <1>3, <1>4, <1>5, MoveOnKeepsInv, LedgerStays DEF IInv, TypeOK, Run

LEMMA LogKeepsInv == ASSUME IInv, NEW s \in Clients, Log(s) PROVE IInv'
<1> DEFINE f == [flight[s] EXCEPT !.phase = "handled"]
<1>1. flight[s] \in Flight /\ flight[s].phase = "ran"
  BY DEF IInv, TypeOK, Log
<1>2. f \in Flight /\ f.r = flight[s].r /\ f.phase = "handled"
  BY <1>1 DEF Flight, Phases
<1>3. flight' = [flight EXCEPT ![s] = f]
  BY DEF Log
<1>4. calls' \in Seq(Clients)
  <2>1. calls' = Append(calls, s) \/ calls' = calls
    BY DEF Log
  <2>2. calls \in Seq(Clients)
    BY DEF IInv, TypeOK
  <2> QED
    BY <2>1, <2>2, AppendProperties
<1>5. Shape' /\ VersionsNoted'
  <2>1. past'.noted = past.noted /\ past'.dropped = past.dropped /\ Shape'
    BY DEF IInv, Log, Shape
  <2> QED
    BY <2>1 DEF IInv, Log, VersionsNoted
<1> HIDE DEF f
<1> QED
  BY <1>1, <1>2, <1>3, <1>4, <1>5, MoveOnKeepsInv, LedgerStays DEF IInv, TypeOK, Log

LEMMA CountKeepsInv == ASSUME IInv, NEW s \in Clients, Count(s) PROVE IInv'
<1> DEFINE f == [flight[s] EXCEPT !.phase = "answered"]
<1>1. flight[s] \in Flight /\ flight[s].phase = "handled"
  BY DEF IInv, TypeOK, Count
<1>2. f \in Flight /\ f.r = flight[s].r /\ f.phase = "answered"
  BY <1>1 DEF Flight, Phases
<1>3. flight' = [flight EXCEPT ![s] = f]
  BY DEF Count
<1>4. Shape' /\ VersionsNoted' /\ LedgerTyped'
  <2>1. CASE UNCHANGED <<ledger, past, left>>
    BY <2>1, LedgerStays DEF IInv, Count, Shape, VersionsNoted
  <2>2. CASE Record(s, 0, 1)
    BY <2>2, RecordKeeps DEF Count
  <2> QED
    BY <2>1, <2>2 DEF Count
<1> HIDE DEF f
<1> QED
  BY <1>1, <1>2, <1>3, <1>4, MoveOnKeepsInv DEF IInv, TypeOK, Count

LEMMA StopKeepsInv == ASSUME IInv, Stop PROVE IInv'
<1>1. flight' \in [Clients -> Flight] /\ \A s \in Clients : flight'[s].phase = "none"
  BY DEF Stop, NoFlight, Flight, Phases, Outcomes
<1>2. TypeOK'
  BY <1>1, StepsLength DEF IInv, TypeOK, Stop, ledger
<1> QED
  BY <1>1, <1>2
     DEF IInv, Stop, Negotiates, HasRoom, Shape, VersionsNoted, CallsCounted, At, JanSteps

\* From one statement to the next; only the count of the calls leads to their cap.
LEMMA MoveIsTyped ==
    ASSUME IInv, NEW over, Move(over), At("calls.count") => over \in Int
    PROVE  jan'.at \in 1..Len(JanSteps) /\ CallsCounted'
<1>1. jan.at \in 1..7 /\ jan'.at = (jan.at % 7) + 1 /\ jan'.over = over
  BY StepsLength DEF IInv, TypeOK, Move
<1>2. jan'.at \in 1..7
  BY <1>1
<1>3. JanSteps[jan'.at] = "calls.oldest" => JanSteps[jan.at] = "calls.count"
  BY <1>1, <1>2 DEF JanSteps
<1> QED
  BY <1>1, <1>2, <1>3, StepsLength DEF CallsCounted, At

\* An eviction leaves the end of the log.
LEMMA EvictKeeps ==
    ASSUME IInv, NEW k \in 0..Len(calls), Evict(k), seen' = seen
    PROVE  calls' \in Seq(Clients) /\ Shape' /\ VersionsNoted'
<1>1. calls' \in Seq(Clients)
  BY SubSeqProperties DEF IInv, TypeOK, Evict
<1>2. past'.noted = past.noted /\ past'.dropped = past.dropped /\ Shape'
  BY DEF IInv, Evict, Shape
<1> QED
  BY <1>1, <1>2 DEF IInv, VersionsNoted

LEMMA JanitorKeepsInv == ASSUME IInv, Janitor PROVE IInv'
<1> SUFFICES /\ UNCHANGED <<peer, flight, seen>>
             /\ jan'.at \in 1..Len(JanSteps) /\ CallsCounted'
             /\ calls' \in Seq(Clients) /\ LedgerTyped' /\ Shape' /\ VersionsNoted'
  BY DEF IInv, TypeOK, Negotiates, HasRoom, LedgerTyped
<1>1. CASE JanitorStarts
  BY <1>1, MoveIsTyped, LedgerStays DEF JanitorStarts, IInv, TypeOK, Shape, VersionsNoted
<1>2. CASE CallsDays
  BY <1>2, MoveIsTyped, EvictKeeps, LedgerStays DEF CallsDays
<1>3. CASE Counts
  <2>1. Len(calls) - CallsCap \in Int
    BY EndpointAssumption DEF IInv, TypeOK
  <2>2. At("connections.count") => ~At("calls.count")
    BY DEF At
  <2>3. jan'.at \in 1..Len(JanSteps) /\ CallsCounted'
    BY <1>3, <2>1, <2>2, MoveIsTyped DEF Counts
  <2> QED
    BY <1>3, <2>3, LedgerStays DEF Counts, IInv, TypeOK, Shape, VersionsNoted
<1>4. CASE CallsOldest
  <2>1. Surplus(Len(calls)) \in 0..Len(calls)
    BY <1>4, LenProperties DEF Surplus, IInv, TypeOK, CallsCounted, CallsOldest
  <2>2. PICK k \in {0, Surplus(Len(calls))} : Evict(k)
    BY <1>4 DEF CallsOldest
  <2>3. k \in 0..Len(calls)
    BY <2>1, LenProperties DEF IInv, TypeOK
  <2> QED
    BY <1>4, <2>2, <2>3, MoveIsTyped, EvictKeeps, LedgerStays DEF CallsOldest
<1>5. ASSUME NEW rows, Forgotten(rows)
      PROVE  UNCHANGED <<peer, flight, seen, calls>> /\ LedgerTyped' /\ Shape' /\ VersionsNoted'
  <2>1. past'.noted = past.noted /\ past'.dropped = past.dropped /\ Shape'
    BY <1>5 DEF IInv, Forgotten, Shape
  <2>2. LedgerTyped'
    BY <1>5 DEF IInv, TypeOK, Forgotten, LedgerTyped, Row, NoRow
  <2> QED
    BY <1>5, <2>1, <2>2 DEF IInv, Forgotten, VersionsNoted
<1>6. CASE ConnectionsIdle
  BY <1>5, <1>6, MoveIsTyped DEF ConnectionsIdle, IInv, TypeOK
<1>7. CASE ConnectionsOldest
  BY <1>5, <1>7, MoveIsTyped DEF ConnectionsOldest, IInv, TypeOK
<1> QED
  BY <1>1, <1>2, <1>3, <1>4, <1>6, <1>7 DEF Janitor

LEMMA InvNext == IInv /\ [Next]_vars => IInv'
<1> SUFFICES ASSUME IInv, [Next]_vars PROVE IInv'
  OBVIOUS
<1>1. CASE UNCHANGED vars
  BY <1>1 DEF vars, ledger, IInv, TypeOK, Negotiates, HasRoom, Shape, VersionsNoted,
              CallsCounted, At
<1>2. CASE \E c \in Clients : Greet(c) \/ Receive(c) \/ Serve(c)
  BY <1>2, GreetKeepsInv, ReceiveKeepsInv, GateNoteKeepsInv, NoteReadKeepsInv,
     NoteWriteKeepsInv, RespondKeepsInv, RunKeepsInv, LogKeepsInv, CountKeepsInv DEF Serve
<1>3. CASE \E c \in Clients, t \in Tools : Call(c, t)
  BY <1>3, CallKeepsInv
<1>4. CASE \E c \in Clients, r \in Odd : Stray(c, r)
  BY <1>4, StrayKeepsInv
<1>5. CASE Stop
  BY <1>5, StopKeepsInv
<1>6. CASE Janitor
  BY <1>6, JanitorKeepsInv
<1> QED
  BY <1>1, <1>2, <1>3, <1>4, <1>5, <1>6 DEF Next

LEMMA Invariance == Spec => []IInv
  BY InvInit, InvNext, PTL DEF Spec

----------------------------------------------------------------------------
(* The log and the ledger.  Between the gate's count and the ledger's tool  *)
(* count a call is owed to the handler, then due to the ledger; what either *)
(* observer has, with what it is owed, does not exceed what the one before  *)
(* it has.                                                                  *)

\* A request that ends in the log, or refused with a tool to its name.
Marks(r) == Decide(r).call \/ NamesTool(r)

OwesMark(s) ==
    \/ flight[s].phase = "ran"
    \/ flight[s].phase \in {"gated", "read", "noted"} /\ Marks(flight[s].r)

OwesCount(s) == flight[s].phase = "handled" /\ NamesTool(flight[s].r)

Owed(p) == {s \in Clients : Principal[s] = p /\ OwesMark(s)}
Due(p) == {s \in Clients : Principal[s] = p /\ OwesCount(s)}

PastTyped == past.gone \in [Principals -> Nat] /\ past.refused \in [Principals -> Nat]

Balanced ==
    \A p \in Principals \ past.torn :
        /\ conn[p].tools + Cardinality(Due(p)) <= Handled(p)
        /\ Handled(p) + Cardinality(Owed(p)) <= conn[p].requests

Books == PastTyped /\ Balanced /\ ToldWhatRan

LEMMA OwedFinite ==
    ASSUME NEW p
    PROVE  /\ IsFiniteSet(Owed(p)) /\ Cardinality(Owed(p)) \in Nat
           /\ IsFiniteSet(Due(p)) /\ Cardinality(Due(p)) \in Nat
<1>1. Owed(p) \in SUBSET Clients /\ Due(p) \in SUBSET Clients
  BY DEF Owed, Due
<1>2. IsFiniteSet(Owed(p)) /\ IsFiniteSet(Due(p))
  BY <1>1, FS_Subset, EndpointAssumption
<1> QED
  BY <1>2, FS_CardinalityType

LEMMA CallsFinite ==
    ASSUME IInv, NEW p
    PROVE  /\ CallsOf(p) \subseteq 1..Len(calls)
           /\ IsFiniteSet(CallsOf(p)) /\ Cardinality(CallsOf(p)) \in Nat
<1>1. CallsOf(p) \in SUBSET (1..Len(calls)) /\ Len(calls) \in Nat
  BY LenProperties DEF CallsOf, IInv, TypeOK
<1>2. IsFiniteSet(1..Len(calls))
  BY <1>1, FS_Interval
<1>3. IsFiniteSet(CallsOf(p))
  BY <1>1, <1>2, FS_Subset
<1> QED
  BY <1>1, <1>3, FS_CardinalityType

\* Two sets that differ in one element at most.
LEMMA OneApart ==
    ASSUME NEW S, NEW T, NEW x, IsFiniteSet(S), S \ {x} = T \ {x}
    PROVE  Cardinality(T) = Cardinality(S) + (IF x \in T THEN 1 ELSE 0)
                                           - (IF x \in S THEN 1 ELSE 0)
<1>1. Cardinality(S) \in Nat
  BY FS_CardinalityType
<1>2. CASE x \in T
  <2>1. T = S \cup {x}
    BY <1>2
  <2> QED
    BY <1>1, <1>2, <2>1, FS_AddElement
<1>3. CASE x \notin T
  <2>1. T = S \ {x}
    BY <1>3
  <2> QED
    BY <1>1, <1>3, <2>1, FS_RemoveElement
<1> QED
  BY <1>2, <1>3

LEMMA SameCalls ==
    ASSUME IInv, UNCHANGED calls, NEW p
    PROVE  /\ Cardinality(CallsOf(p)) \in Nat
           /\ Cardinality(CallsOf(p))' = Cardinality(CallsOf(p))
<1>1. CallsOf(p)' = CallsOf(p)
  BY DEF CallsOf
<1> QED
  BY <1>1, CallsFinite

\* A call that is logged is one more of its principal.
LEMMA LogAdds ==
    ASSUME IInv, NEW s \in Clients, calls' = Append(calls, s), NEW p
    PROVE  Cardinality(CallsOf(p))' =
              Cardinality(CallsOf(p)) + (IF Principal[s] = p THEN 1 ELSE 0)
<1> DEFINE n == Len(calls) + 1
<1>1. calls \in Seq(Clients)
  BY DEF IInv, TypeOK
<1>2. /\ DOMAIN calls = 1..Len(calls) /\ Len(calls) \in Nat
      /\ DOMAIN calls' = 1..n
      /\ calls'[n] = s /\ \A i \in 1..Len(calls) : calls'[i] = calls[i]
  <2>1. calls' \in Seq(Clients) /\ Len(calls') = n
    BY <1>1, AppendProperties
  <2> QED
    BY <1>1, <2>1, AppendProperties, LenProperties
<1>3. n \notin CallsOf(p) /\ (n \in CallsOf(p)' <=> Principal[s] = p)
  BY <1>2 DEF CallsOf
<1>4. CallsOf(p) \ {n} = CallsOf(p)' \ {n}
  BY <1>2 DEF CallsOf
<1>5. IsFiniteSet(CallsOf(p)) /\ Cardinality(CallsOf(p)) \in Nat
  BY CallsFinite
<1>6. Cardinality(CallsOf(p)') =
         Cardinality(CallsOf(p)) + (IF n \in CallsOf(p)' THEN 1 ELSE 0)
                                 - (IF n \in CallsOf(p) THEN 1 ELSE 0)
  BY <1>4, <1>5, OneApart
<1> QED
  BY <1>3, <1>5, <1>6

\* What leaves the log is remembered by history.
LEMMA EvictKeepsCount ==
    ASSUME IInv, PastTyped, NEW k \in 0..Len(calls), Evict(k), NEW p \in Principals
    PROVE  Logged(p)' = Logged(p)
<1> DEFINE n == Len(calls)
           Left == CallsOf(p) \ 1..k
           f == [i \in Left |-> i - k]
<1>1. calls \in Seq(Clients) /\ n \in Nat /\ calls \in [1..n -> Clients]
  BY LenProperties DEF IInv, TypeOK
<1>2. /\ DOMAIN calls' = 1..(n - k)
      /\ \A i \in 1..(n - k) : calls'[i] = calls[i + k]
  <2>1. calls' = SubSeq(calls, k + 1, n) /\ \A i \in (k + 1)..n : calls[i] \in Clients
    BY <1>1 DEF Evict
  <2>2. k + 1 \in Int /\ n \in Int
    BY <1>1
  <2>3. /\ calls' \in Seq(Clients)
        /\ Len(calls') = IF k + 1 <= n THEN n - (k + 1) + 1 ELSE 0
        /\ \A i \in 1..(n - (k + 1) + 1) : calls'[i] = calls[k + 1 + i - 1]
    BY <2>1, <2>2, SubSeqProperties
  <2>4. DOMAIN calls' = 1..Len(calls')
    BY <2>3, LenProperties
  <2>5. n \in Int /\ k \in Int /\ 0 <= k /\ k <= n /\ n - (k + 1) + 1 = n - k
    BY <1>1
  <2> HIDE DEF n
  <2>6. Len(calls') = n - k
    <3>1. Len(calls') = IF k + 1 <= n THEN n - (k + 1) + 1 ELSE 0
      BY <2>3
    <3> QED
      BY <2>5, <3>1
  <2>7. \A i \in 1..(n - k) : k + 1 + i - 1 = i + k
    BY <2>5
  <2> QED
    BY <2>3, <2>4, <2>5, <2>6, <2>7
<1>3. CallsOf(p) \subseteq 1..n /\ IsFiniteSet(CallsOf(p)) /\ Cardinality(CallsOf(p)) \in Nat
  BY CallsFinite
<1>4. /\ IsFiniteSet(Left)
      /\ Cardinality(Left) = Cardinality(CallsOf(p)) - Cardinality(CallsOf(p) \cap 1..k)
  BY <1>3, FS_Difference
<1>5. CallsOf(p)' = {i \in 1..(n - k) : Principal[calls[i + k]] = p}
  BY <1>2 DEF CallsOf
<1>6. Left = {i \in (k + 1)..n : Principal[calls[i]] = p}
  BY <1>1, <1>3 DEF CallsOf
<1>7. f \in Bijection(Left, CallsOf(p)')
  <2>1. \A i \in Left : f[i] \in CallsOf(p)'
    BY <1>1, <1>5, <1>6
  <2>2. \A j \in CallsOf(p)' : j + k \in Left /\ f[j + k] = j
    BY <1>1, <1>5, <1>6
  <2>3. \A i, j \in Left : f[i] = f[j] => i = j
    BY <1>1, <1>6
  <2> HIDE DEF f, Left
  <2>4. f \in [Left -> CallsOf(p)']
    BY <2>1 DEF f
  <2> QED
    BY <2>2, <2>3, <2>4, Fun_IsBij
<1>8. Cardinality(CallsOf(p)') = Cardinality(Left)
  BY <1>4, <1>7, FS_Bijection DEF ExistsBijection
<1>9. past'.gone[p] = past.gone[p] + Cardinality(CallsOf(p) \cap 1..k)
  BY DEF Evict, IInv, Shape
<1>10. Cardinality(CallsOf(p) \cap 1..k) \in Nat /\ past.gone[p] \in Nat
  BY <1>3, FS_Intersection, FS_CardinalityType DEF PastTyped
<1> QED
  BY <1>3, <1>4, <1>8, <1>9, <1>10 DEF Logged

One(b) == IF b THEN 1 ELSE 0

\* Only the flight of a client moves.
OnlyFlight(s) == \A t \in Clients \ {s} : flight'[t] = flight[t]

LEMMA OneFlight ==
    ASSUME NEW s \in Clients, OnlyFlight(s), NEW p
    PROVE  /\ Cardinality(Owed(p))' = Cardinality(Owed(p))
                 + One(Principal[s] = p /\ OwesMark(s)') - One(Principal[s] = p /\ OwesMark(s))
           /\ Cardinality(Due(p))' = Cardinality(Due(p))
                 + One(Principal[s] = p /\ OwesCount(s)') - One(Principal[s] = p /\ OwesCount(s))
<1>1. /\ Owed(p) \ {s} = Owed(p)' \ {s} /\ Due(p) \ {s} = Due(p)' \ {s}
      /\ s \in Owed(p) <=> Principal[s] = p /\ OwesMark(s)
      /\ s \in Owed(p)' <=> Principal[s] = p /\ OwesMark(s)'
      /\ s \in Due(p) <=> Principal[s] = p /\ OwesCount(s)
      /\ s \in Due(p)' <=> Principal[s] = p /\ OwesCount(s)'
  BY DEF Owed, Due, OwesMark, OwesCount, OnlyFlight
<1>2. /\ Cardinality(Owed(p)') = Cardinality(Owed(p)) + (IF s \in Owed(p)' THEN 1 ELSE 0)
                                                      - (IF s \in Owed(p) THEN 1 ELSE 0)
      /\ Cardinality(Due(p)') = Cardinality(Due(p)) + (IF s \in Due(p)' THEN 1 ELSE 0)
                                                    - (IF s \in Due(p) THEN 1 ELSE 0)
  BY <1>1, OwedFinite, OneApart
<1> QED
  BY <1>1, <1>2 DEF One

LEMMA HandledNat ==
    ASSUME IInv, PastTyped, NEW p \in Principals
    PROVE  Logged(p) \in Nat /\ past.refused[p] \in Nat /\ Handled(p) \in Nat
<1>1. Logged(p) \in Nat
  BY CallsFinite DEF Logged, PastTyped
<1> QED
  BY <1>1 DEF Handled, PastTyped

\* What is logged is handled, if nothing is evicted or refused.
LEMMA LogIsHandled ==
    ASSUME IInv, PastTyped, NEW p \in Principals, NEW d \in Int,
           past'.gone = past.gone, past'.refused = past.refused,
           Cardinality(CallsOf(p))' = Cardinality(CallsOf(p)) + d
    PROVE  Handled(p)' = Handled(p) + d
<1>1. Cardinality(CallsOf(p)) \in Nat /\ past.gone[p] \in Nat /\ past.refused[p] \in Nat
  BY CallsFinite DEF PastTyped
<1> QED
  BY <1>1 DEF Handled, Logged

\* A step of one client keeps the balance if what it moves from one side to the
\* other is counted on both.
LEMMA StepBalances ==
    ASSUME IInv, Books, NEW s \in Clients, OnlyFlight(s),
           PastTyped', flight'[s].told = flight'[s].ran,
           NEW requests \in Int, NEW handled \in Int, NEW tools \in Int,
           tools + One(OwesCount(s)') - One(OwesCount(s)) <= handled,
           handled + One(OwesMark(s)') - One(OwesMark(s)) <= requests,
           \A p \in Principals \ past'.torn :
              /\ p \notin past.torn
              /\ conn'[p].requests = conn[p].requests + (IF Principal[s] = p THEN requests ELSE 0)
              /\ conn'[p].tools = conn[p].tools + (IF Principal[s] = p THEN tools ELSE 0)
              /\ Handled(p)' = Handled(p) + (IF Principal[s] = p THEN handled ELSE 0)
    PROVE  Books'
<1>1. ToldWhatRan'
  BY DEF Books, ToldWhatRan, OnlyFlight
<1>2. ASSUME NEW p \in Principals \ past'.torn
      PROVE  /\ conn'[p].tools + Cardinality(Due(p))' <= Handled(p)'
             /\ Handled(p)' + Cardinality(Owed(p))' <= conn'[p].requests
  <2>1. /\ conn[p].tools + Cardinality(Due(p)) <= Handled(p)
        /\ Handled(p) + Cardinality(Owed(p)) <= conn[p].requests
    BY <1>2 DEF Books, Balanced
  <2>2. conn[p].tools \in Nat /\ conn[p].requests \in Nat
    BY DEF IInv, TypeOK, Row
  <2>3. Handled(p) \in Nat /\ Cardinality(Due(p)) \in Nat /\ Cardinality(Owed(p)) \in Nat
    BY HandledNat, OwedFinite DEF Books
  <2>4. Handled(p)' = Handled(p) + (IF Principal[s] = p THEN handled ELSE 0)
    BY <1>2
  <2>5. /\ Cardinality(Owed(p))' = Cardinality(Owed(p))
                 + One(Principal[s] = p /\ OwesMark(s)') - One(Principal[s] = p /\ OwesMark(s))
        /\ Cardinality(Due(p))' = Cardinality(Due(p))
                 + One(Principal[s] = p /\ OwesCount(s)') - One(Principal[s] = p /\ OwesCount(s))
    BY OneFlight
  <2>6. /\ conn'[p].requests = conn[p].requests + (IF Principal[s] = p THEN requests ELSE 0)
        /\ conn'[p].tools = conn[p].tools + (IF Principal[s] = p THEN tools ELSE 0)
    BY <1>2
  <2>7. CASE Principal[s] = p
    <3>1. /\ One(Principal[s] = p /\ OwesMark(s)') = One(OwesMark(s)')
          /\ One(Principal[s] = p /\ OwesMark(s)) = One(OwesMark(s))
          /\ One(Principal[s] = p /\ OwesCount(s)') = One(OwesCount(s)')
          /\ One(Principal[s] = p /\ OwesCount(s)) = One(OwesCount(s))
      BY <2>7 DEF One
    <3>2. /\ One(OwesMark(s)') \in Int /\ One(OwesMark(s)) \in Int
          /\ One(OwesCount(s)') \in Int /\ One(OwesCount(s)) \in Int
      BY DEF One
    <3> QED
      BY <2>1, <2>2, <2>3, <2>4, <2>5, <2>6, <2>7, <3>1, <3>2
  <2>8. CASE Principal[s] # p
    <3>1. /\ One(Principal[s] = p /\ OwesMark(s)') = 0
          /\ One(Principal[s] = p /\ OwesMark(s)) = 0
          /\ One(Principal[s] = p /\ OwesCount(s)') = 0
          /\ One(Principal[s] = p /\ OwesCount(s)) = 0
      BY <2>8 DEF One
    <3> QED
      BY <2>1, <2>2, <2>3, <2>4, <2>5, <2>6, <2>8, <3>1
  <2> QED
    BY <2>7, <2>8
<1> QED
  BY <1>1, <1>2 DEF Books, Balanced

\* A step that moves a client's request within one side.
LEMMA QuietKeepsBooks ==
    ASSUME IInv, Books, NEW s \in Clients, OnlyFlight(s),
           past'.gone = past.gone, past'.refused = past.refused, past'.torn = past.torn,
           UNCHANGED <<calls, ledger>>,
           OwesMark(s)' <=> OwesMark(s), OwesCount(s)' <=> OwesCount(s),
           flight'[s].told = flight'[s].ran
    PROVE  Books'
<1>1. \A p \in Principals \ past'.torn :
              /\ p \notin past.torn
              /\ conn'[p].requests = conn[p].requests + (IF Principal[s] = p THEN 0 ELSE 0)
              /\ conn'[p].tools = conn[p].tools + (IF Principal[s] = p THEN 0 ELSE 0)
              /\ Handled(p)' = Handled(p) + (IF Principal[s] = p THEN 0 ELSE 0)
  <2>1. TAKE p \in Principals \ past'.torn
  <2>2. conn[p].requests \in Nat /\ conn[p].tools \in Nat
    BY DEF IInv, TypeOK, Row
  <2>3. Handled(p)' = Handled(p) + 0
    BY SameCalls, LogIsHandled DEF Books
  <2> QED
    BY <2>2, <2>3 DEF ledger
<1>2. /\ 0 + One(OwesCount(s)') - One(OwesCount(s)) <= 0
      /\ 0 + One(OwesMark(s)') - One(OwesMark(s)) <= 0
  BY DEF One
<1>3. PastTyped'
  BY DEF Books, PastTyped
<1> QED
  BY <1>1, <1>2, <1>3, StepBalances

\* What a note in the ledger changes, if it does not tear.
LEMMA RecordAdds ==
    ASSUME IInv, NEW s \in Clients, NEW requests \in Nat, NEW tools \in Nat,
           Record(s, requests, tools)
    PROVE  /\ past'.gone = past.gone /\ past'.refused = past.refused
           /\ \A p \in Principals \ past'.torn :
                 /\ p \notin past.torn
                 /\ conn'[p].requests = conn[p].requests + (IF Principal[s] = p THEN requests ELSE 0)
                 /\ conn'[p].tools = conn[p].tools + (IF Principal[s] = p THEN tools ELSE 0)
<1>1. conn \in [Principals -> Row] /\ Principal[s] \in Principals
  BY DEF IInv, TypeOK, Principals
<1>2. CASE Upsert(Principal[s], requests, tools) /\ past' = past
  BY <1>1, <1>2 DEF Upsert, Row
<1>3. CASE UNCHANGED ledger /\ past' = [past EXCEPT !.torn = @ \cup {Principal[s]}]
  <2>1. /\ past'.gone = past.gone /\ past'.refused = past.refused
        /\ past'.torn = past.torn \cup {Principal[s]}
    BY <1>3 DEF IInv, Shape
  <2> QED
    BY <1>1, <1>3, <2>1 DEF ledger, Row
<1> QED
  BY <1>2, <1>3 DEF Record

LEMMA BooksInit == Init => Books
<1> SUFFICES ASSUME Init PROVE Books
  OBVIOUS
<1>1. PastTyped
  BY DEF Init, PastTyped
<1>2. ToldWhatRan
  BY DEF Init, ToldWhatRan, NoFlight
<1>3. ASSUME NEW p \in Principals
      PROVE  Owed(p) = {} /\ Due(p) = {} /\ CallsOf(p) = {}
  BY DEF Init, Owed, Due, OwesMark, OwesCount, NoFlight, CallsOf
<1>4. Balanced
  <2> SUFFICES ASSUME NEW p \in Principals
               PROVE  /\ conn[p].tools + Cardinality(Due(p)) <= Handled(p)
                      /\ Handled(p) + Cardinality(Owed(p)) <= conn[p].requests
    BY DEF Balanced
  <2>1. conn[p].tools = 0 /\ conn[p].requests = 0 /\ past.gone[p] = 0 /\ past.refused[p] = 0
    BY DEF Init, NoRow
  <2>2. Cardinality(Owed(p)) = 0 /\ Cardinality(Due(p)) = 0 /\ Cardinality(CallsOf(p)) = 0
    BY <1>3, FS_EmptySet
  <2> QED
    BY <2>1, <2>2 DEF Handled, Logged
<1> QED
  BY <1>1, <1>2, <1>4 DEF Books

LEMMA FlyKeepsBooks ==
    ASSUME IInv, Books, NEW c \in Clients, NEW r, Idle(c), Fly(c, r),
           UNCHANGED <<peer, seen, calls, ledger, jan, past>>
    PROVE  Books'
<1>1. flight'[c].phase = "sent" /\ flight'[c].told = flight'[c].ran /\ OnlyFlight(c)
  BY DEF IInv, TypeOK, Fly, NoFlight, OnlyFlight
<1>2. ~OwesMark(c)' /\ ~OwesCount(c)' /\ ~OwesMark(c) /\ ~OwesCount(c)
  BY <1>1 DEF OwesMark, OwesCount, Idle
<1> QED
  BY <1>1, <1>2, QuietKeepsBooks

LEMMA ReceiveKeepsBooks == ASSUME IInv, Books, NEW c \in Clients, Receive(c) PROVE Books'
<1>1. flight'[c].phase = "none" /\ flight'[c].told = flight'[c].ran /\ OnlyFlight(c)
  BY DEF IInv, TypeOK, Receive, NoFlight, OnlyFlight
<1>2. ~OwesMark(c)' /\ ~OwesCount(c)' /\ ~OwesMark(c) /\ ~OwesCount(c)
  BY <1>1 DEF OwesMark, OwesCount, Receive
<1> QED
  BY <1>1, <1>2, QuietKeepsBooks DEF Receive

LEMMA GateNoteKeepsBooks == ASSUME IInv, Books, NEW s \in Clients, GateNote(s) PROVE Books'
<1> DEFINE r == flight[s].r
           phase == IF Decide(r).note = NoVersion THEN "noted" ELSE "gated"
<1>1. /\ flight'[s].phase = phase /\ flight'[s].r = r /\ flight'[s].told = flight'[s].ran
      /\ OnlyFlight(s)
  BY DEF IInv, TypeOK, Flight, GateNote, OnlyFlight, Books, ToldWhatRan
<1>2. ~OwesMark(s) /\ ~OwesCount(s) /\ ~OwesCount(s)'
  BY <1>1 DEF OwesMark, OwesCount, GateNote
<1>3. /\ 0 + One(OwesCount(s)') - One(OwesCount(s)) <= 0
      /\ 0 + One(OwesMark(s)') - One(OwesMark(s)) <= 1
  BY <1>2 DEF One
<1>4. /\ past'.gone = past.gone /\ past'.refused = past.refused
      /\ \A p \in Principals \ past'.torn :
            /\ p \notin past.torn
            /\ conn'[p].requests = conn[p].requests + (IF Principal[s] = p THEN 1 ELSE 0)
            /\ conn'[p].tools = conn[p].tools + (IF Principal[s] = p THEN 0 ELSE 0)
  BY RecordAdds DEF GateNote
<1>5. ASSUME NEW p \in Principals
      PROVE  Handled(p)' = Handled(p) + (IF Principal[s] = p THEN 0 ELSE 0)
  BY <1>4, SameCalls, LogIsHandled DEF GateNote, Books
<1>6. PastTyped'
  BY <1>4 DEF Books, PastTyped
<1> QED
  BY <1>1, <1>3, <1>4, <1>5, <1>6, StepBalances

LEMMA NoteReadKeepsBooks == ASSUME IInv, Books, NEW s \in Clients, NoteRead(s) PROVE Books'
<1> DEFINE r == flight[s].r
<1>1. /\ flight'[s].phase \in {"noted", "read"} /\ flight'[s].r = r
      /\ flight'[s].told = flight'[s].ran /\ OnlyFlight(s)
  BY DEF IInv, TypeOK, Flight, NoteRead, OnlyFlight, Books, ToldWhatRan
<1>2. (OwesMark(s)' <=> OwesMark(s)) /\ (OwesCount(s)' <=> OwesCount(s))
  BY <1>1 DEF OwesMark, OwesCount, NoteRead
<1>3. past'.gone = past.gone /\ past'.refused = past.refused /\ past'.torn = past.torn
  BY DEF IInv, Shape, NoteRead, Noted
<1> QED
  BY <1>1, <1>2, <1>3, QuietKeepsBooks DEF NoteRead

LEMMA NoteWriteKeepsBooks == ASSUME IInv, Books, NEW s \in Clients, NoteWrite(s) PROVE Books'
<1> DEFINE r == flight[s].r
<1>1. /\ flight'[s].phase = "noted" /\ flight'[s].r = r
      /\ flight'[s].told = flight'[s].ran /\ OnlyFlight(s)
  BY DEF IInv, TypeOK, Flight, NoteWrite, OnlyFlight, Books, ToldWhatRan
<1>2. (OwesMark(s)' <=> OwesMark(s)) /\ (OwesCount(s)' <=> OwesCount(s))
  BY <1>1 DEF OwesMark, OwesCount, NoteWrite
<1>3. past'.gone = past.gone /\ past'.refused = past.refused /\ past'.torn = past.torn
  BY DEF IInv, Shape, NoteWrite, Noted
<1> QED
  BY <1>1, <1>2, <1>3, QuietKeepsBooks DEF NoteWrite

\* A request that is refused with a tool to its name is handled, and due.
LEMMA RespondKeepsBooks == ASSUME IInv, Books, NEW s \in Clients, Respond(s) PROVE Books'
<1> DEFINE r == flight[s].r
<1>1. /\ flight'[s].phase = "handled" /\ flight'[s].r = r
      /\ flight'[s].told = flight'[s].ran /\ OnlyFlight(s)
      /\ flight[s].phase = "noted" /\ ~Decide(r).call
  BY DEF IInv, TypeOK, Flight, Respond, OnlyFlight, Books, ToldWhatRan
<1>2. /\ ~OwesMark(s)' /\ ~OwesCount(s)
      /\ OwesMark(s) <=> NamesTool(r)
      /\ OwesCount(s)' <=> NamesTool(r)
  BY <1>1 DEF OwesMark, OwesCount, Marks
<1>3. CASE ~NamesTool(r) /\ UNCHANGED past
  BY <1>1, <1>2, <1>3, QuietKeepsBooks DEF Respond
<1>4. CASE NamesTool(r) /\ past' = [past EXCEPT !.refused[Principal[s]] = @ + 1]
  <2>1. /\ past'.gone = past.gone /\ past'.torn = past.torn
        /\ past'.refused = [past.refused EXCEPT ![Principal[s]] = @ + 1]
    BY <1>4 DEF IInv, Shape
  <2>2. PastTyped'
    <3>1. past.refused \in [Principals -> Nat] /\ Principal[s] \in Principals
      BY DEF Books, PastTyped, Principals
    <3>2. past.refused[Principal[s]] + 1 \in Nat
      BY <3>1
    <3>3. past'.refused \in [Principals -> Nat]
      BY <2>1, <3>1, <3>2
    <3> QED
      BY <2>1, <3>3 DEF Books, PastTyped
  <2>3. ASSUME NEW p \in Principals
        PROVE  Handled(p)' = Handled(p) + (IF Principal[s] = p THEN 1 ELSE 0)
    <3>1. past'.refused[p] = past.refused[p] + (IF Principal[s] = p THEN 1 ELSE 0)
      BY <2>1 DEF Books, PastTyped
    <3>2. Logged(p)' = Logged(p)
      BY <2>1, SameCalls DEF Logged, Respond
    <3>3. Logged(p) \in Nat /\ past.refused[p] \in Nat
      BY HandledNat DEF Books
    <3> QED
      BY <3>1, <3>2, <3>3 DEF Handled
  <2>4. ASSUME NEW p \in Principals \ past'.torn
        PROVE  /\ p \notin past.torn
               /\ conn'[p].requests = conn[p].requests + (IF Principal[s] = p THEN 0 ELSE 0)
               /\ conn'[p].tools = conn[p].tools + (IF Principal[s] = p THEN 0 ELSE 0)
    <3>1. conn[p].requests \in Nat /\ conn[p].tools \in Nat
      BY DEF IInv, TypeOK, Row
    <3> QED
      BY <2>1, <3>1 DEF Respond, ledger
  <2>5. /\ 0 + One(OwesCount(s)') - One(OwesCount(s)) <= 1
        /\ 1 + One(OwesMark(s)') - One(OwesMark(s)) <= 0
    BY <1>2, <1>4 DEF One
  <2> QED
    BY <1>1, <2>2, <2>3, <2>4, <2>5, StepBalances
<1> QED
  BY <1>3, <1>4 DEF Respond

LEMMA RunKeepsBooks == ASSUME IInv, Books, NEW s \in Clients, Run(s) PROVE Books'
<1>1. flight'[s].phase = "ran" /\ flight'[s].told = flight'[s].ran /\ OnlyFlight(s)
  BY DEF IInv, TypeOK, Flight, Run, OnlyFlight
<1>2. OwesMark(s)' /\ OwesMark(s) /\ ~OwesCount(s)' /\ ~OwesCount(s)
  BY <1>1 DEF OwesMark, OwesCount, Marks, Run
<1> QED
  BY <1>1, <1>2, QuietKeepsBooks DEF Run

LEMMA LogKeepsBooks == ASSUME IInv, Books, NEW s \in Clients, Log(s) PROVE Books'
<1>1. /\ flight'[s].phase = "handled" /\ flight'[s].told = flight'[s].ran /\ OnlyFlight(s)
      /\ flight[s].phase = "ran"
  BY DEF IInv, TypeOK, Flight, Log, OnlyFlight, Books, ToldWhatRan
<1>2. OwesMark(s) /\ ~OwesMark(s)' /\ ~OwesCount(s)
  BY <1>1 DEF OwesMark, OwesCount
<1>3. /\ 0 + One(OwesCount(s)') - One(OwesCount(s)) <= 1
      /\ 1 + One(OwesMark(s)') - One(OwesMark(s)) <= 0
  BY <1>2 DEF One
<1>4. ASSUME NEW p \in Principals
      PROVE  conn[p].requests \in Nat /\ conn[p].tools \in Nat /\ Cardinality(CallsOf(p)) \in Nat
  BY CallsFinite DEF IInv, TypeOK, Row
<1>5. CASE calls' = Append(calls, s) /\ UNCHANGED past
  <2>1. \A p \in Principals \ past'.torn :
           /\ p \notin past.torn
           /\ conn'[p].requests = conn[p].requests + (IF Principal[s] = p THEN 0 ELSE 0)
           /\ conn'[p].tools = conn[p].tools + (IF Principal[s] = p THEN 0 ELSE 0)
    BY <1>4, <1>5 DEF Log, ledger
  <2>2. ASSUME NEW p \in Principals
        PROVE  Handled(p)' = Handled(p) + (IF Principal[s] = p THEN 1 ELSE 0)
    BY <1>5, LogAdds, LogIsHandled DEF Books
  <2>3. PastTyped'
    BY <1>5 DEF Books, PastTyped
  <2> QED
    BY <1>1, <1>3, <2>1, <2>2, <2>3, StepBalances
<1>6. CASE UNCHANGED calls /\ past' = [past EXCEPT !.torn = @ \cup {Principal[s]}]
  <2>1. /\ past'.gone = past.gone /\ past'.refused = past.refused
        /\ past'.torn = past.torn \cup {Principal[s]}
    BY <1>6 DEF IInv, Shape
  <2>2. \A p \in Principals \ past'.torn :
           /\ p \notin past.torn
           /\ conn'[p].requests = conn[p].requests + (IF Principal[s] = p THEN 0 ELSE 0)
           /\ conn'[p].tools = conn[p].tools + (IF Principal[s] = p THEN 0 ELSE 0)
           /\ Handled(p)' = Handled(p) + (IF Principal[s] = p THEN 1 ELSE 0)
    <3>1. TAKE p \in Principals \ past'.torn
    <3>2. Principal[s] # p
      BY <2>1
    <3>3. Handled(p)' = Handled(p) + 0
      BY <1>6, <2>1, SameCalls, LogIsHandled DEF Books
    <3> QED
      BY <1>4, <2>1, <3>2, <3>3 DEF Log, ledger
  <2>3. PastTyped'
    BY <2>1 DEF Books, PastTyped
  <2> QED
    BY <1>1, <1>3, <2>2, <2>3, StepBalances
<1> QED
  BY <1>5, <1>6 DEF Log

LEMMA CountKeepsBooks == ASSUME IInv, Books, NEW s \in Clients, Count(s) PROVE Books'
<1>1. /\ flight'[s].phase = "answered" /\ flight'[s].told = flight'[s].ran /\ OnlyFlight(s)
      /\ flight[s].phase = "handled"
  BY DEF IInv, TypeOK, Flight, Count, OnlyFlight, Books, ToldWhatRan
<1>2. ~OwesMark(s) /\ ~OwesMark(s)' /\ ~OwesCount(s)'
  BY <1>1 DEF OwesMark, OwesCount
<1>3. CASE ~NamesTool(flight[s].r) /\ UNCHANGED <<ledger, past, left>>
  <2>1. ~OwesCount(s)
    BY <1>3 DEF OwesCount
  <2> QED
    BY <1>1, <1>2, <1>3, <2>1, QuietKeepsBooks DEF Count
<1>4. CASE NamesTool(flight[s].r) /\ Record(s, 0, 1)
  <2>1. OwesCount(s)
    BY <1>1, <1>4 DEF OwesCount
  <2>2. /\ 1 + One(OwesCount(s)') - One(OwesCount(s)) <= 0
        /\ 0 + One(OwesMark(s)') - One(OwesMark(s)) <= 0
    BY <1>2, <2>1 DEF One
  <2>3. /\ past'.gone = past.gone /\ past'.refused = past.refused
        /\ \A p \in Principals \ past'.torn :
              /\ p \notin past.torn
              /\ conn'[p].requests = conn[p].requests + (IF Principal[s] = p THEN 0 ELSE 0)
              /\ conn'[p].tools = conn[p].tools + (IF Principal[s] = p THEN 1 ELSE 0)
    BY <1>4, RecordAdds
  <2>4. ASSUME NEW p \in Principals
        PROVE  Handled(p)' = Handled(p) + (IF Principal[s] = p THEN 0 ELSE 0)
    BY <2>3, SameCalls, LogIsHandled DEF Count, Books
  <2>5. PastTyped'
    BY <2>3 DEF Books, PastTyped
  <2> QED
    BY <1>1, <2>2, <2>3, <2>4, <2>5, StepBalances
<1> QED
  BY <1>3, <1>4 DEF Count

\* A stop forgets what was owed.
LEMMA StopKeepsBooks == ASSUME IInv, Books, Stop PROVE Books'
<1>1. PastTyped' /\ ToldWhatRan'
  BY DEF Books, PastTyped, ToldWhatRan, Stop, NoFlight
<1>2. ASSUME NEW p \in Principals \ past'.torn
      PROVE  /\ conn'[p].tools + Cardinality(Due(p))' <= Handled(p)'
             /\ Handled(p)' + Cardinality(Owed(p))' <= conn'[p].requests
  <2>1. Owed(p)' = {} /\ Due(p)' = {}
    BY DEF Owed, Due, OwesMark, OwesCount, Stop, NoFlight
  <2>2. Cardinality(Owed(p))' = 0 /\ Cardinality(Due(p))' = 0
    BY <2>1, FS_EmptySet
  <2>3. /\ conn[p].tools + Cardinality(Due(p)) <= Handled(p)
        /\ Handled(p) + Cardinality(Owed(p)) <= conn[p].requests
    BY <1>2 DEF Books, Balanced, Stop
  <2>4. conn[p].tools \in Nat /\ conn[p].requests \in Nat
    BY DEF IInv, TypeOK, Row
  <2>5. Handled(p) \in Nat /\ Cardinality(Due(p)) \in Nat /\ Cardinality(Owed(p)) \in Nat
    BY HandledNat, OwedFinite DEF Books
  <2>6. Handled(p)' = Handled(p) /\ conn' = conn
    BY DEF Stop, Handled, Logged, CallsOf, ledger
  <2> QED
    BY <2>2, <2>3, <2>4, <2>5, <2>6
<1> QED
  BY <1>1, <1>2 DEF Books, Balanced

\* The janitor forgets rows that are then said to be torn, and calls that
\* history remembers.
LEMMA SweepBalances ==
    ASSUME IInv, Books, UNCHANGED flight, past.torn \subseteq past'.torn, PastTyped',
           \A p \in Principals \ past'.torn : conn'[p] = conn[p] /\ Handled(p)' = Handled(p)
    PROVE  Books'
<1>1. ToldWhatRan'
  BY DEF Books, ToldWhatRan
<1>2. ASSUME NEW p \in Principals \ past'.torn
      PROVE  /\ conn'[p].tools + Cardinality(Due(p))' <= Handled(p)'
             /\ Handled(p)' + Cardinality(Owed(p))' <= conn'[p].requests
  <2>1. Owed(p)' = Owed(p) /\ Due(p)' = Due(p)
    BY DEF Owed, Due, OwesMark, OwesCount
  <2> QED
    BY <1>2, <2>1 DEF Books, Balanced
<1> QED
  BY <1>1, <1>2 DEF Books, Balanced

LEMMA JanitorKeepsBooks == ASSUME IInv, Books, Janitor PROVE Books'
<1>1. ASSUME NEW k \in 0..Len(calls), Evict(k), UNCHANGED <<flight, ledger>>
      PROVE  Books'
  <2>1. past'.torn = past.torn /\ past'.refused = past.refused
    BY <1>1 DEF Evict, IInv, Shape
  <2>2. PastTyped'
    <3>1. past'.gone = [p \in Principals |-> past.gone[p] + Cardinality(CallsOf(p) \cap 1..k)]
      BY <1>1 DEF Evict, IInv, Shape
    <3>2. \A p \in Principals : Cardinality(CallsOf(p) \cap 1..k) \in Nat /\ past.gone[p] \in Nat
      BY CallsFinite, FS_Intersection, FS_CardinalityType DEF Books, PastTyped
    <3>3. ASSUME NEW p \in Principals
          PROVE  past.gone[p] + Cardinality(CallsOf(p) \cap 1..k) \in Nat
      <4> DEFINE old == past.gone[p]
                 new == Cardinality(CallsOf(p) \cap 1..k)
      <4>1. old \in Nat /\ new \in Nat
        BY <3>2
      <4> HIDE DEF old, new
      <4>2. old + new \in Nat
        BY <4>1
      <4> QED
        BY <4>2 DEF old, new
    <3> QED
      BY <2>1, <3>1, <3>3, Zenon DEF Books, PastTyped
  <2>3. \A p \in Principals : Handled(p)' = Handled(p)
    BY <1>1, <2>1, EvictKeepsCount DEF Books, Handled
  <2> QED
    BY <1>1, <2>1, <2>2, <2>3, SweepBalances DEF ledger
<1>2. ASSUME NEW rows, Forgotten(rows)
      PROVE  Books'
  <2>1. /\ past'.torn = past.torn \cup rows /\ past'.gone = past.gone
        /\ past'.refused = past.refused
    BY <1>2 DEF Forgotten, IInv, Shape
  <2>2. PastTyped'
    BY <2>1 DEF Books, PastTyped
  <2>3. \A p \in Principals \ past'.torn : conn'[p] = conn[p] /\ Handled(p)' = Handled(p)
    BY <1>2, <2>1 DEF Forgotten, Handled, Logged, CallsOf
  <2> QED
    BY <1>2, <2>1, <2>2, <2>3, SweepBalances DEF Forgotten
<1>3. ASSUME UNCHANGED <<flight, calls, ledger, past>>
      PROVE  Books'
  <2>1. \A p \in Principals : conn'[p] = conn[p] /\ Handled(p)' = Handled(p)
    BY <1>3 DEF Handled, Logged, CallsOf, ledger
  <2> QED
    BY <1>3, <2>1, SweepBalances DEF Books, PastTyped
<1>4. CASE CallsDays
  BY <1>1, <1>4 DEF CallsDays
<1>5. CASE CallsOldest
  <2>1. jan.over \in Int /\ Len(calls) \in Nat
    BY <1>5, LenProperties DEF IInv, TypeOK, CallsCounted, CallsOldest
  <2>2. Surplus(Len(calls)) \in 0..Len(calls) /\ 0 \in 0..Len(calls)
    BY <2>1 DEF Surplus
  <2> QED
    BY <1>1, <1>5, <2>2 DEF CallsOldest
<1>6. CASE JanitorStarts \/ Counts
  BY <1>3, <1>6 DEF JanitorStarts, Counts
<1>7. CASE ConnectionsIdle \/ ConnectionsOldest
  BY <1>2, <1>7 DEF ConnectionsIdle, ConnectionsOldest
<1> QED
  BY <1>4, <1>5, <1>6, <1>7 DEF Janitor

LEMMA BooksNext == IInv /\ Books /\ [Next]_vars => Books'
<1> SUFFICES ASSUME IInv, Books, [Next]_vars PROVE Books'
  OBVIOUS
<1>1. CASE UNCHANGED vars
  BY <1>1 DEF vars, ledger, Books, PastTyped, Balanced, Owed, Due, OwesMark, OwesCount,
              Handled, Logged, CallsOf, ToldWhatRan
<1>2. ASSUME NEW c \in Clients, Greet(c) \/ Receive(c) \/ Serve(c) PROVE Books'
  BY <1>2, FlyKeepsBooks, ReceiveKeepsBooks, GateNoteKeepsBooks, NoteReadKeepsBooks,
     NoteWriteKeepsBooks, RespondKeepsBooks, RunKeepsBooks, LogKeepsBooks, CountKeepsBooks DEF Greet, Serve
<1>3. CASE \E c \in Clients, t \in Tools : Call(c, t)
  BY <1>3, FlyKeepsBooks DEF Call
<1>4. CASE \E c \in Clients, r \in Odd : Stray(c, r)
  BY <1>4, FlyKeepsBooks DEF Stray
<1>5. CASE Stop
  BY <1>5, StopKeepsBooks
<1>6. CASE Janitor
  BY <1>6, JanitorKeepsBooks
<1> QED
  BY <1>1, <1>2, <1>3, <1>4, <1>5, <1>6 DEF Next

LEMMA BooksInvariance == Spec => []Books
  BY BooksInit, BooksNext, Invariance, PTL DEF Spec

----------------------------------------------------------------------------
(* The handshake: what a client still tries, and what is left to it then.   *)

Hopeful ==
    \A c \in Clients :
        /\ peer[c].phase = "failed" => ~CanSettle(c)
        /\ peer[c].phase = "greeting" /\ peer[c].era = "modern" => Kind[c] # "legacy"
        /\ peer[c].phase = "greeting" /\ peer[c].era = "legacy" =>
              /\ Kind[c] # "modern" /\ peer[c].version = Asks(c)
              /\ Kind[c] = "dual" => peer[c].speaks \cap Modern = {}

LEMMA HopefulInit == Init => Hopeful
<1> SUFFICES ASSUME Init, NEW c \in Clients
             PROVE  /\ peer[c].phase = "greeting"
                    /\ peer[c].era = (IF Kind[c] = "legacy" THEN "legacy" ELSE "modern")
                    /\ peer[c].version = First[c]
  BY DEF Hopeful, Asks
<1>1. PICK speaks \in [Clients -> SUBSET Versions] :
         peer = [d \in Clients |->
                    [phase |-> "greeting", version |-> First[d], speaks |-> speaks[d],
                     era |-> IF Kind[d] = "legacy" THEN "legacy" ELSE "modern"]]
  BY DEF Init
<1> QED
  BY <1>1

\* A modern greeting is refused for its version alone, and told the others.
LEMMA DiscoverAnswer ==
    ASSUME NEW p \in Peer, p.era = "modern"
    PROVE  LET a == Decide(Greeting(p)).answer
           IN a.how \in {"result", "UnsupportedProtocolVersion"} /\ a.versions = Modern
<1> DEFINE r == Greeting(p)
<1>1. p.version \in Versions /\ p.version # NoVersion
  BY ErasAssumption DEF Peer
<1>2. /\ r.method = "server/discover" /\ r.meta.reserved /\ r.meta.asked = p.version
      /\ r.meta.caps /\ r.meta.sound /\ r.header = p.version /\ r.bare
      /\ r.mirror = {"method", "name"} /\ r.method \notin Named
  BY DEF Greeting, InEra, Plain, NoMeta, Named
<1>3. Refusal(r) \in {"result", "UnsupportedProtocolVersion"}
  BY <1>1, <1>2 DEF Refusal
<1>4. Decide(r) = ModernDecision(r)
  BY <1>2 DEF Decide, IsModern
<1> QED
  BY <1>2, <1>3, <1>4 DEF ModernDecision, Decision, Answer

LEMMA InitializeAnswer ==
    ASSUME NEW p \in Peer, p.era = "legacy"
    PROVE  LET a == Decide(Greeting(p)).answer
           IN a.how = "result" /\ a.versions = {Negotiated(p.version)}
<1> DEFINE r == Greeting(p)
<1>1. /\ r.method = "initialize" /\ r.header = NoVersion /\ ~r.meta.reserved
      /\ r.asked = p.version
  BY DEF Greeting, Plain, NoMeta
<1>2. ~IsModern(r)
  BY <1>1, ErasAssumption DEF IsModern, Versions
<1>3. Decide(r) = LegacyDecision(r)
  BY <1>1, <1>2 DEF Decide
<1> QED
  BY <1>1, <1>3 DEF LegacyDecision, Decision, Answer

LEMMA ReceiveKeepsHopeful == ASSUME IInv, Hopeful, NEW c \in Clients, Receive(c) PROVE Hopeful'
<1>1. CASE UNCHANGED peer
  BY <1>1 DEF Hopeful, CanSettle
<1>2. CASE /\ peer[c].phase = "greeting" /\ flight[c].r = Greeting(peer[c])
           /\ \E q \in Taken(c, peer[c], Decide(flight[c].r).answer) :
                  peer' = [peer EXCEPT ![c] = q]
  <2> DEFINE p == peer[c]
             a == Decide(Greeting(p)).answer
             common == a.versions \cap p.speaks
  <2>1. PICK q \in Taken(c, p, a) : peer' = [peer EXCEPT ![c] = q]
    BY <1>2
  <2>2. p \in Peer /\ peer'[c] = q /\ \A d \in Clients \ {c} : peer'[d] = peer[d]
    BY <2>1 DEF IInv, TypeOK
  <2>3. \/ q.phase = "settled"
        \/ a.how # "result" /\ common # {} /\ \E v \in common : q = [p EXCEPT !.version = v]
        \/ /\ common = {} \/ a.how \notin {"result", "UnsupportedProtocolVersion"}
           /\ \/ /\ Kind[c] = "dual" /\ p.era = "modern"
                 /\ q = [p EXCEPT !.era = "legacy", !.version = Fallback[c]]
              \/ /\ ~(Kind[c] = "dual" /\ p.era = "modern")
                 /\ q = [p EXCEPT !.phase = "failed"]
    BY <2>1, <2>2 DEF Taken, Peer
  <2>4. Kind[c] \in {"legacy", "modern", "dual"}
    BY EndpointAssumption
  <2>5. CASE p.era = "modern"
    <3>1. a.how \in {"result", "UnsupportedProtocolVersion"} /\ common = p.speaks \cap Modern
      BY <2>2, <2>5, DiscoverAnswer
    <3>2. Kind[c] # "legacy"
      BY <1>2, <2>5 DEF Hopeful
    <3>3. /\ q.phase = "failed" => Kind[c] = "modern" /\ q.speaks \cap Modern = {}
          /\ q.phase = "greeting" /\ q.era = "legacy" =>
                Kind[c] = "dual" /\ q.speaks \cap Modern = {} /\ q.version = Fallback[c]
      <4> HIDE DEF a, common
      <4> QED
        BY <1>2, <2>2, <2>3, <2>4, <2>5, <3>1, <3>2 DEF Peer
    <3> QED
      BY <2>2, <3>2, <3>3 DEF Hopeful, CanSettle, Asks
  <2>6. CASE p.era = "legacy"
    <3>1. a.how = "result" /\ common = {Negotiated(p.version)} \cap p.speaks
      BY <2>2, <2>6, InitializeAnswer
    <3>2. /\ Kind[c] # "modern" /\ p.version = Asks(c)
          /\ Kind[c] = "dual" => p.speaks \cap Modern = {}
      BY <1>2, <2>6 DEF Hopeful
    <3>3. /\ q.phase = "settled" \/ (q.phase = "failed" /\ q.speaks = p.speaks)
          /\ q.phase = "failed" => Negotiated(p.version) \notin p.speaks
      <4> HIDE DEF a, common
      <4> QED
        BY <2>2, <2>3, <2>6, <3>1 DEF Peer
    <3> QED
      BY <2>2, <2>4, <3>2, <3>3 DEF Hopeful, CanSettle, Asks
  <2> QED
    BY <2>2, <2>5, <2>6 DEF Peer
<1> QED
  BY <1>1, <1>2 DEF Receive

LEMMA HopefulNext == IInv /\ Hopeful /\ [Next]_vars => Hopeful'
<1> SUFFICES ASSUME IInv, Hopeful, [Next]_vars PROVE Hopeful'
  OBVIOUS
<1>1. CASE \E c \in Clients : Receive(c)
  BY <1>1, ReceiveKeepsHopeful
<1>2. CASE ~\E c \in Clients : Receive(c)
  <2>1. UNCHANGED peer
    BY <1>2 DEF Next, Greet, Serve, Call, Stray, Stop, GateNote, NoteRead, NoteWrite, Respond, Run,
                Log, Count, Janitor, JanitorStarts, CallsDays, Counts, CallsOldest, ConnectionsIdle,
                ConnectionsOldest, Forgotten, vars
  <2> QED
    BY <2>1 DEF Hopeful, CanSettle
<1> QED
  BY <1>1, <1>2

----------------------------------------------------------------------------
(* Theorems. *)

\* Requests, clients, logs and the list of versions keep their shape; above
\* all the list keeps within MAX_PROTOCOL_VERSIONS, whichever notes overlap.
THEOREM TypeCorrect == Spec => []TypeOK
<1>1. IInv => TypeOK
  BY DEF IInv
<1> QED
  BY <1>1, Invariance, PTL

\* Whatever versions the server implements and whatever the client speaks, a
\* version they negotiated is one the server then serves to it.
THEOREM SettledServed == Spec => []SettledIsServed
<1>1. IInv => SettledIsServed
  <2> SUFFICES ASSUME IInv, NEW c \in Clients, peer[c].phase = "settled"
               PROVE  /\ peer[c].version \in EraVersions(peer[c].era)
                      /\ \A t \in Tools :
                            LET a == Decide(Work(peer[c], t)).answer
                            IN a.how = "result" /\ a.era = peer[c].era
    BY DEF SettledIsServed, EraVersions
  <2>1. peer[c] \in Peer /\ peer[c].version \in EraVersions(peer[c].era)
    BY DEF IInv, TypeOK, Negotiates
  <2> QED
    BY <2>1, WorkIsServed
<1> QED
  BY <1>1, Invariance, PTL

\* And no client gives up that the handshake could have brought to a version,
\* whatever it names first, whatever it speaks, however often it is refused.
THEOREM HandshakeSound == Spec => []HandshakeIsSound
<1>1. Hopeful => NobodyGivesUp
  BY DEF Hopeful, NobodyGivesUp
<1>2. Spec => []Hopeful
  BY HopefulInit, HopefulNext, Invariance, PTL DEF Spec
<1> QED
  BY <1>1, <1>2, SettledServed, PTL DEF HandshakeIsSound

\* The gate, the log and the ledger agree on every principal whose rows neither
\* a failed write nor the janitor has touched, at every step of every request
\* and after any stop: tool calls counted, calls logged or refused, requests
\* counted, in that order.  The caller is told what the tool did, logged or not.
THEOREM LedgersKept == Spec => []LedgersAgree
<1>1. IInv /\ Books => LedgersAgree
  <2> SUFFICES ASSUME IInv, Books, NEW p \in Principals \ past.torn
               PROVE  conn[p].tools <= Handled(p) /\ Handled(p) <= conn[p].requests
    BY DEF LedgersAgree, CountsAgree, IInv, Books
  <2>1. /\ conn[p].tools + Cardinality(Due(p)) <= Handled(p)
        /\ Handled(p) + Cardinality(Owed(p)) <= conn[p].requests
    BY DEF Books, Balanced
  <2>2. conn[p].tools \in Nat /\ conn[p].requests \in Nat
    BY DEF IInv, TypeOK, Row
  <2>3. Handled(p) \in Nat /\ Cardinality(Due(p)) \in Nat /\ Cardinality(Owed(p)) \in Nat
    BY HandledNat, OwedFinite DEF Books
  <2> QED
    BY <2>1, <2>2, <2>3
<1> QED
  BY <1>1, Invariance, BooksInvariance, PTL

\* A version a client named is in the list, but for a full list, a failure of
\* the store or the overlap of two notes.
THEOREM NamesKept == Spec => []VersionsNoted
<1>1. IInv => VersionsNoted
  BY DEF IInv
<1> QED
  BY <1>1, Invariance, PTL

=============================================================================
