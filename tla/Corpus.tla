-------------------------------- MODULE Corpus --------------------------------
(***************************************************************************)
(* Nodes, vocabularies, terms and taggings (db.ts, with the tools of       *)
(* mcp.ts and the routes of app.ts that call it).  Terms are found or      *)
(* created by name; a vocabulary of kind "categories" refuses to create    *)
(* one when a node is tagged; if one is named `type`, the types of nodes   *)
(* must be terms of it.  Each of these reads a row, awaits, and writes.    *)
(*                                                                         *)
(* Two reads in a row that lead to one write are one step when what the    *)
(* second finds decides.  UNIQUE, REFERENCES and ON DELETE CASCADE of      *)
(* 0001_init.sql are part of the statements.  A request names one term;    *)
(* several are resolved one after another and tagged in one batch.         *)
(* Labels, weights, parents and dates are left out.                        *)
(***************************************************************************)
EXTENDS Naturals

CONSTANTS
    VocabNames, TypeVocab,  \* machine names, and the one that guards types
    TermNames,              \* names of terms and of types
    Blank,                  \* the empty string, as a type
    Texts,                  \* title and body of a node
    Keep,                   \* a field left out of an update
    NoTerm,                 \* a vocabulary created by itself
    Requests,               \* slots for requests in flight
    MaxVocabs, MaxNodes     \* bounds on rows ever created

ASSUME CorpusAssumption ==
    /\ TypeVocab \in VocabNames
    /\ Blank \notin TermNames
    /\ NoTerm \notin TermNames
    /\ Keep \notin TermNames \cup {Blank} \cup Texts
    /\ MaxVocabs \in Nat /\ MaxNodes \in Nat

VARIABLES
    vocabs, terms, nodes, tags,  \* the tables
    vocabCount, nodeCount,       \* rows created so far: ids are never reused
    filing,    \* requests that find or create a vocabulary or a term
    creating,  \* node_create between its check and its insert
    updating,  \* node_update after its read
    dropping   \* vocabulary_delete between its count and its delete

tables == <<vocabs, terms, nodes, tags, vocabCount, nodeCount>>
flights == <<filing, creating, updating, dropping>>
vars == <<tables, flights>>

Kinds == {"tags", "categories"}
Types == TermNames \cup {Blank}
Refs == VocabNames \X (TermNames \cup {NoTerm})

Vocab == [id: Nat, name: VocabNames, kind: Kinds]
\* origin is history: created on purpose, by tagging, or by tagging after the
\* vocabulary was made anew behind the request's back.
Term == [vocab: Nat, name: TermNames, origin: {"create", "tag", "late"}]
Node == [id: Nat, type: Types, text: Texts]
Tag == [node: Nat, vocab: Nat, term: TermNames]

\* node: to be tagged, or 0.  vocab: found or inserted so far, or 0.
\* saw, history: the vocabulary whose kind was looked at, or that it made.
Filing ==
    [req: Requests, step: {"resolve", "find", "vocab", "term", "tag"},
     ref: Refs, kind: Kinds, by: {"create", "tag"}, vocab: Nat, saw: Nat, node: Nat]
\* late, history: a policy was set after the check; stale: the node was
\* written after the read.
Creating == [req: Requests, type: Types, text: Texts, ref: Refs, late: BOOLEAN]
Updating ==
    [req: Requests, step: {"check", "write"}, old: Node,
     type: Types \cup {Keep}, text: Texts \cup {Keep}, late: BOOLEAN, stale: BOOLEAN]
\* late, history: a term was added after the count.
Dropping == [req: Requests, vocab: Nat, force: BOOLEAN, late: BOOLEAN]

TypeOK ==
    /\ vocabs \subseteq Vocab
    /\ terms \subseteq Term
    /\ nodes \subseteq Node
    /\ tags \subseteq Tag
    /\ vocabCount \in 0..MaxVocabs
    /\ nodeCount \in 0..MaxNodes
    /\ filing \subseteq Filing
    /\ creating \subseteq Creating
    /\ updating \subseteq Updating
    /\ dropping \subseteq Dropping

Init ==
    /\ vocabs = {} /\ terms = {} /\ nodes = {} /\ tags = {}
    /\ vocabCount = 0 /\ nodeCount = 0
    /\ filing = {} /\ creating = {} /\ updating = {} /\ dropping = {}

Free(r) == \A x \in filing \cup creating \cup updating \cup dropping : x.req # r

Named(name) == {v \in vocabs : v.name = name}
HasTerm(id, name) == \E t \in terms : t.vocab = id /\ t.name = name

----------------------------------------------------------------------------
(* Find or create: createVocabulary, createTerm, resolveTermForTagging. *)

Filed(r, step, ref, kind, by, node) ==
    [req |-> r, step |-> step, ref |-> ref, kind |-> kind, by |-> by,
     vocab |-> 0, saw |-> 0, node |-> node]

\* An existing one is answered as it is, whatever the kind asked for.
VocabularyCreate(r, name, kind) ==
    /\ Free(r)
    /\ Named(name) = {}
    /\ filing' = filing \cup {Filed(r, "vocab", <<name, NoTerm>>, kind, "create", 0)}
    /\ UNCHANGED <<tables, creating, updating, dropping>>

TermCreate(r, ref, kind) ==
    /\ Free(r)
    /\ filing' = filing \cup {Filed(r, "find", ref, kind, "create", 0)}
    /\ UNCHANGED <<tables, creating, updating, dropping>>

\* node_tag: requireNode.
TagNode(r, n, ref) ==
    /\ Free(r)
    /\ filing' = filing \cup {Filed(r, "resolve", ref, "tags", "tag", n.id)}
    /\ UNCHANGED <<tables, creating, updating, dropping>>

\* The term is there: on to the tagging, if there is a node.
Found(x, id) ==
    filing' = (filing \ {x}) \cup
        {y \in {[x EXCEPT !.step = "tag", !.vocab = id]} : x.node # 0}

ResolveControlled(x, v) ==
    /\ x.step = "resolve"
    /\ v.name = x.ref[1] /\ v.kind = "categories"
    /\ HasTerm(v.id, x.ref[2])
    /\ Found(x, v.id)
    /\ UNCHANGED <<tables, creating, updating, dropping>>

\* MUTANT of IsFree: a controlled vocabulary is tagged like any other.
IsFreeAlways(name) == TRUE

IsFree(name) == \A v \in Named(name) : v.kind # "categories"

ResolveFree(x, id) ==
    /\ x.step = "resolve"
    /\ IsFree(x.ref[1])
    /\ IF Named(x.ref[1]) = {} THEN id = 0 ELSE \E v \in Named(x.ref[1]) : v.id = id
    /\ filing' = (filing \ {x}) \cup {[x EXCEPT !.step = "find", !.saw = id]}
    /\ UNCHANGED <<tables, creating, updating, dropping>>

FindNothing(x) ==
    /\ x.step = "find" /\ x.vocab = 0
    /\ Named(x.ref[1]) = {}
    /\ filing' = (filing \ {x}) \cup {[x EXCEPT !.step = "vocab"]}
    /\ UNCHANGED <<tables, creating, updating, dropping>>

\* By name, or by id when the request inserted it.
FindVocab(x, v) ==
    /\ x.step = "find"
    /\ IF x.vocab = 0 THEN v.name = x.ref[1] ELSE v.id = x.vocab
    /\ \/ HasTerm(v.id, x.ref[2]) /\ Found(x, v.id)
       \/ /\ ~HasTerm(v.id, x.ref[2])
          /\ filing' = (filing \ {x}) \cup {[x EXCEPT !.step = "term", !.vocab = v.id]}
    /\ UNCHANGED <<tables, creating, updating, dropping>>

\* The guard of types is armed: those past their check are late.
Armed(name, kind) ==
    IF name = TypeVocab /\ kind = "categories"
    THEN /\ creating' = {[y EXCEPT !.late = TRUE] : y \in creating}
         /\ updating' = {[y EXCEPT !.late = TRUE] : y \in updating}
    ELSE UNCHANGED <<creating, updating>>

AddVocab(x) ==
    /\ x.step = "vocab"
    /\ Named(x.ref[1]) = {}
    /\ vocabCount < MaxVocabs
    /\ vocabCount' = vocabCount + 1
    /\ vocabs' = vocabs \cup {[id |-> vocabCount', name |-> x.ref[1], kind |-> x.kind]}
    /\ filing' = (filing \ {x}) \cup
          {y \in {[x EXCEPT !.step = "find", !.vocab = vocabCount', !.saw = vocabCount']} :
               x.ref[2] # NoTerm}
    /\ Armed(x.ref[1], x.kind)
    /\ UNCHANGED <<terms, nodes, tags, nodeCount, dropping>>

Origin(x) ==
    CASE x.by = "create" -> "create"
      [] x.by = "tag" /\ x.saw = x.vocab -> "tag"
      [] OTHER -> "late"

AddTerm(x) ==
    /\ x.step = "term"
    /\ \E v \in vocabs : v.id = x.vocab
    /\ ~HasTerm(x.vocab, x.ref[2])
    /\ terms' = terms \cup {[vocab |-> x.vocab, name |-> x.ref[2], origin |-> Origin(x)]}
    /\ Found(x, x.vocab)
    /\ dropping' = {[y EXCEPT !.late = y.late \/ y.vocab = x.vocab] : y \in dropping}
    /\ UNCHANGED <<vocabs, nodes, tags, vocabCount, nodeCount, creating, updating>>

PutTag(x) ==
    /\ x.step = "tag"
    /\ \E n \in nodes : n.id = x.node
    /\ HasTerm(x.vocab, x.ref[2])
    /\ tags' = tags \cup {[node |-> x.node, vocab |-> x.vocab, term |-> x.ref[2]]}
    /\ filing' = filing \ {x}
    /\ UNCHANGED <<vocabs, terms, nodes, vocabCount, nodeCount, creating, updating, dropping>>

Untag(g) ==
    /\ tags' = tags \ {g}
    /\ UNCHANGED <<vocabs, terms, nodes, vocabCount, nodeCount, flights>>

----------------------------------------------------------------------------
(* Nodes. *)

\* assertTypeAllowed
TypeAllowed(type) ==
    \A v \in Named(TypeVocab) : v.kind = "categories" => HasTerm(v.id, type)

CreateNode(r, type, text, ref) ==
    /\ Free(r)
    /\ TypeAllowed(type)
    /\ creating' = creating \cup
          {[req |-> r, type |-> type, text |-> text, ref |-> ref, late |-> FALSE]}
    /\ UNCHANGED <<tables, filing, updating, dropping>>

\* The terms are resolved once the node is there.
InsertNode(x) ==
    /\ nodeCount < MaxNodes
    /\ nodeCount' = nodeCount + 1
    /\ nodes' = nodes \cup {[id |-> nodeCount', type |-> x.type, text |-> x.text]}
    /\ creating' = creating \ {x}
    /\ filing' = filing \cup
          {y \in {Filed(x.req, "resolve", x.ref, "tags", "tag", nodeCount')} : x.ref[2] # NoTerm}
    /\ UNCHANGED <<vocabs, terms, tags, vocabCount, updating, dropping>>

\* MUTANT of NeedsCheck: only node_create asks the guard.
NeedsNoCheck(n, type) == FALSE

\* A type that is given, not empty, and another one than before.
NeedsCheck(n, type) == type \notin {Keep, Blank, n.type}

UpdateRead(r, n, type, text) ==
    /\ Free(r)
    /\ updating' = updating \cup
          {[req |-> r, step |-> IF NeedsCheck(n, type) THEN "check" ELSE "write", old |-> n,
            type |-> type, text |-> text, late |-> FALSE, stale |-> FALSE]}
    /\ UNCHANGED <<tables, filing, creating, dropping>>

UpdateCheck(x) ==
    /\ x.step = "check"
    /\ TypeAllowed(x.type)
    /\ updating' = (updating \ {x}) \cup {[x EXCEPT !.step = "write", !.late = FALSE]}
    /\ UNCHANGED <<tables, filing, creating, dropping>>

\* MUTANT of Merged: a type left out is written as empty.
MergedBlank(x) ==
    [id |-> x.old.id,
     type |-> IF x.type = Keep THEN Blank ELSE x.type,
     text |-> IF x.text = Keep THEN x.old.text ELSE x.text]

\* MUTANT of Merged: what is left out is written as such.
MergedRaw(x) == [id |-> x.old.id, type |-> x.type, text |-> x.text]

\* Every column is written, from the row as it was read.
Merged(x) ==
    [id |-> x.old.id,
     type |-> IF x.type = Keep THEN x.old.type ELSE x.type,
     text |-> IF x.text = Keep THEN x.old.text ELSE x.text]

UpdateWrite(x) ==
    /\ x.step = "write"
    /\ \E n \in nodes : n.id = x.old.id
    /\ nodes' = {n \in nodes : n.id # x.old.id} \cup {Merged(x)}
    /\ updating' = {[y EXCEPT !.stale = y.stale \/ y.old.id = x.old.id] : y \in updating \ {x}}
    /\ UNCHANGED <<vocabs, terms, tags, vocabCount, nodeCount, filing, creating, dropping>>

DeleteNode(n) ==
    /\ nodes' = nodes \ {n}
    /\ tags' = {g \in tags : g.node # n.id}
    /\ UNCHANGED <<vocabs, terms, vocabCount, nodeCount, flights>>

----------------------------------------------------------------------------
(* deleteVocabulary *)

\* MUTANT of Impact: only the tag assignments are counted.
ImpactOnTags(id) == {g \in tags : g.vocab = id}

\* vocabularyImpact: no assignment without a term.
Impact(id) == {t \in terms : t.vocab = id}

DropCount(r, v, force) ==
    /\ Free(r)
    /\ force \/ Impact(v.id) = {}
    /\ dropping' = dropping \cup
          {[req |-> r, vocab |-> v.id, force |-> force, late |-> FALSE]}
    /\ UNCHANGED <<tables, filing, creating, updating>>

\* MUTANT of Remaining: foreign keys are left off.
RemainingAll(rows, id) == rows

\* ON DELETE CASCADE
Remaining(rows, id) == {row \in rows : row.vocab # id}

Drop(x) ==
    /\ \E v \in vocabs : v.id = x.vocab
    /\ vocabs' = {v \in vocabs : v.id # x.vocab}
    /\ terms' = Remaining(terms, x.vocab)
    /\ tags' = Remaining(tags, x.vocab)
    /\ dropping' = dropping \ {x}
    /\ UNCHANGED <<nodes, vocabCount, nodeCount, filing, creating, updating>>

----------------------------------------------------------------------------

\* Refused by a check, by UNIQUE or a foreign key; the row to write is gone; a
\* store error; a stop.
Abort(r) ==
    /\ ~Free(r)
    /\ filing' = {x \in filing : x.req # r}
    /\ creating' = {x \in creating : x.req # r}
    /\ updating' = {x \in updating : x.req # r}
    /\ dropping' = {x \in dropping : x.req # r}
    /\ UNCHANGED tables

Next ==
    \/ \E r \in Requests :
           \/ \E name \in VocabNames, kind \in Kinds : VocabularyCreate(r, name, kind)
           \/ \E ref \in VocabNames \X TermNames, kind \in Kinds : TermCreate(r, ref, kind)
           \/ \E n \in nodes, ref \in VocabNames \X TermNames : TagNode(r, n, ref)
           \/ \E type \in Types, text \in Texts, ref \in Refs : CreateNode(r, type, text, ref)
           \/ \E n \in nodes, type \in Types \cup {Keep}, text \in Texts \cup {Keep} :
                  UpdateRead(r, n, type, text)
           \/ \E v \in vocabs, force \in BOOLEAN : DropCount(r, v, force)
           \/ Abort(r)
    \/ \E x \in filing :
           \/ \E v \in vocabs : ResolveControlled(x, v) \/ FindVocab(x, v)
           \/ \E id \in 0..MaxVocabs : ResolveFree(x, id)
           \/ FindNothing(x)
           \/ AddVocab(x)
           \/ AddTerm(x)
           \/ PutTag(x)
    \/ \E g \in tags : Untag(g)
    \/ \E x \in creating : InsertNode(x)
    \/ \E x \in updating : UpdateCheck(x) \/ UpdateWrite(x)
    \/ \E n \in nodes : DeleteNode(n)
    \/ \E x \in dropping : Drop(x)

Spec == Init /\ [][Next]_vars

----------------------------------------------------------------------------
(* Properties. *)

\* Every term of a controlled vocabulary was added on purpose, unless the
\* vocabulary was made between a tagging's look at its kind and the insert.
ControlledIsDeliberate ==
    \A t \in terms, v \in vocabs :
        v.id = t.vocab /\ v.kind = "categories" => t.origin # "tag"

\* Request x ends with this step.
Ends(x, flightsAfter) == \A y \in flightsAfter : y.req # x.req

\* A node's type is written only if the guard allows it at that moment, unless
\* the guard was armed after the request asked it, or the node was written
\* after it was read (then a type nobody passed comes back).  The empty type,
\* which an update never asks the guard about, is the other exception.
TypeGuarded ==
    [][\A n \in nodes' :
           \/ TypeAllowed(n.type) \/ n.type = Blank
           \/ \E m \in nodes : m.id = n.id /\ m.type = n.type
           \/ \E x \in creating : Ends(x, creating') /\ x.late
           \/ \E x \in updating : Ends(x, updating') /\ (x.late \/ x.stale)]_vars

\* "Only the fields you pass move" (mcp.ts:179), unless the node was written
\* after it was read.
OnlyPassedFieldsMove ==
    [][\A m \in nodes, n \in nodes' :
           m.id = n.id /\ m # n =>
               \E x \in updating :
                   /\ Ends(x, updating')
                   /\ \/ x.stale
                      \/ /\ m.type # n.type => n.type = x.type
                         /\ m.text # n.text => n.text = x.text]_vars

\* "Refuses by default when terms would be lost" (db.ts:743): a delete without
\* force takes no term, but one added after its count.
DropIsAnnounced ==
    [][\A t \in terms \ terms' :
           \E x \in dropping : Ends(x, dropping') /\ (x.force \/ x.late)]_vars

\* The content by name.  A row whose vocabulary is gone would be under NoTerm.
NameOf(id) ==
    IF \E v \in vocabs : v.id = id THEN (CHOOSE v \in vocabs : v.id = id).name ELSE NoTerm

Headings == {[name |-> v.name, kind |-> v.kind] : v \in vocabs}
Entered == {[heading |-> NameOf(t.vocab), entry |-> t.name, origin |-> t.origin] : t \in terms}
Filings == {[item |-> g.node, heading |-> NameOf(g.vocab), entry |-> g.term] : g \in tags}

Content == INSTANCE Catalogue WITH
    Names <- VocabNames, Entries <- TermNames, Ids <- 1..MaxNodes,
    headings <- Headings, entries <- Entered, items <- nodes, filings <- Filings,
    known <- 1..nodeCount

\* However requests interleave at their reads, the content is a Catalogue:
\* nothing is under a name that is not there, a request whose vocabulary went
\* puts nothing under the next one of that name, and what goes takes with it
\* all that refers to it and nothing else (0001_init.sql).
ContentIsACatalogue == Content!Spec

=============================================================================
