----------------------------- MODULE CorpusProofs -----------------------------
(***************************************************************************)
(* Proofs about Corpus, for any names, any number of requests in flight    *)
(* and any number of rows.                                                 *)
(*                                                                         *)
(* A request in flight carries what it read.  The inductive invariant says *)
(* of each kind of request what is still true of it: the vocabulary whose  *)
(* kind was looked at is free for ever (KindsSeen), a type that was let    *)
(* through is allowed until a policy is set (CreatesAllowed,               *)
(* UpdatesAllowed), the row read is the row there until another write      *)
(* (ReadsFresh), and what was counted is all there is (CountsFresh).       *)
(*                                                                         *)
(* The last part shows Corpus to implement Catalogue: rows are named by    *)
(* their vocabulary, and the name is of no other while it is there.        *)
(***************************************************************************)
EXTENDS Corpus, TLAPS

\* Ids were drawn, and are of one row each, as names of vocabularies are.
Rows ==
    /\ \A v \in vocabs : v.id \in 1..vocabCount
    /\ \A v, w \in vocabs : v.id = w.id \/ v.name = w.name => v = w
    /\ \A n \in nodes : n.id \in 1..nodeCount
    /\ \A m, n \in nodes : m.id = n.id => m = n

\* One request in a slot.
OneEach ==
    /\ \A x, y \in creating : x.req = y.req => x = y
    /\ \A x, y \in updating : x.req = y.req => x = y
    /\ \A x, y \in dropping : x.req = y.req => x = y

\* A tagging creates free vocabularies only, and the one it saw is free.
KindsSeen ==
    \A x \in filing :
        x.by = "tag" =>
            /\ x.kind = "tags"
            /\ x.saw <= vocabCount
            /\ \A v \in vocabs : v.id = x.saw => v.kind = "tags"

\* Past the making of a vocabulary there is a term to find.
TermsNamed == \A x \in filing : x.step # "vocab" => x.ref[2] \in TermNames

\* What node_create checked still holds, unless a policy was set since.
CreatesAllowed == \A x \in creating : ~x.late => TypeAllowed(x.type)

\* So does what node_update checked, if there was something to check.
UpdatesAllowed ==
    \A x \in updating :
        x.step = "write" /\ ~x.late =>
            x.type \in {Keep, Blank, x.old.type} \/ TypeAllowed(x.type)

\* The row read is the row there, unless another update wrote it.
ReadsFresh ==
    \A x \in updating :
        /\ x.old.id \in 1..nodeCount
        /\ ~x.stale => \A n \in nodes : n.id = x.old.id => n = x.old

\* An unforced delete found no term, and there is none but those added since.
CountsFresh == \A x \in dropping : x.force \/ x.late \/ Impact(x.vocab) = {}

\* No term outlives its vocabulary and no tagging its node or its term.
NothingDangles ==
    /\ \A t \in terms : \E v \in vocabs : v.id = t.vocab
    /\ \A g \in tags : HasTerm(g.vocab, g.term) /\ \E n \in nodes : n.id = g.node

IInv ==
    /\ TypeOK
    /\ Rows
    /\ OneEach
    /\ NothingDangles
    /\ ControlledIsDeliberate
    /\ KindsSeen
    /\ TermsNamed
    /\ CreatesAllowed
    /\ UpdatesAllowed
    /\ ReadsFresh
    /\ CountsFresh

----------------------------------------------------------------------------
(* Lemmas about the operators. *)

\* A request written down by Filed has the shape of one.
LEMMA FiledIsFiling ==
    ASSUME NEW r \in Requests, NEW step \in {"resolve", "find", "vocab", "term", "tag"},
           NEW ref \in Refs, NEW kind \in Kinds, NEW by \in {"create", "tag"}, NEW n \in Nat
    PROVE  Filed(r, step, ref, kind, by, n) \in Filing
  BY DEF Filed, Filing

\* Going on, or not, to the tagging keeps the shape and what was seen.
LEMMA FoundKeeps ==
    ASSUME TypeOK, KindsSeen, NEW x \in filing, NEW id \in Nat, Found(x, id)
    PROVE  /\ filing' \subseteq Filing
           /\ \A y \in filing' :
                  \E z \in filing :
                      /\ y.by = z.by /\ y.kind = z.kind /\ y.saw = z.saw /\ y.ref = z.ref
                      /\ y.step = z.step \/ z = x
  <1> DEFINE y == [x EXCEPT !.step = "tag", !.vocab = id]
  <1>1. /\ y \in Filing
        /\ y.by = x.by /\ y.kind = x.kind /\ y.saw = x.saw /\ y.ref = x.ref
    BY DEF TypeOK, Filing
  <1>2. filing' \subseteq filing \cup {y}
    BY DEF Found
  <1> HIDE DEF y
  <1> QED
    BY <1>1, <1>2 DEF TypeOK

\* A type stays allowed if its policy and its term stay.
LEMMA AllowedStays ==
    ASSUME NEW type, TypeAllowed(type),
           \A v \in vocabs' : v.name = TypeVocab /\ v.kind = "categories" =>
               v \in vocabs /\ \A name : HasTerm(v.id, name) => HasTerm(v.id, name)'
    PROVE  TypeAllowed(type)'
  BY DEF TypeAllowed, Named

\* Steps that leave the tables and the other requests alone.
LEMMA FilingMoves ==
    ASSUME IInv, UNCHANGED <<tables, creating, updating, dropping>>,
           filing' \subseteq Filing, KindsSeen', TermsNamed'
    PROVE  IInv'
  BY DEF IInv, tables, TypeOK, Rows, OneEach, NothingDangles, ControlledIsDeliberate,
         CreatesAllowed, UpdatesAllowed, ReadsFresh, CountsFresh, TypeAllowed, Named,
         HasTerm, Impact

----------------------------------------------------------------------------
(* The inductive invariant. *)

LEMMA InitHolds == Init => IInv
  BY CorpusAssumption
  DEF Init, IInv, TypeOK, Rows, OneEach, NothingDangles, ControlledIsDeliberate, KindsSeen,
      TermsNamed, CreatesAllowed, UpdatesAllowed, ReadsFresh, CountsFresh

LEMMA VocabularyCreateHolds ==
    ASSUME IInv, NEW r \in Requests, NEW name \in VocabNames, NEW kind \in Kinds,
           VocabularyCreate(r, name, kind)
    PROVE  IInv'
  <1> DEFINE y == Filed(r, "vocab", <<name, NoTerm>>, kind, "create", 0)
  <1>1. filing' = filing \cup {y} /\ y.by = "create" /\ y.step = "vocab"
    BY DEF VocabularyCreate, Filed
  <1>2. y \in Filing
    BY FiledIsFiling DEF Refs
  <1>3. KindsSeen' /\ TermsNamed'
    BY <1>1 DEF VocabularyCreate, tables, IInv, KindsSeen, TermsNamed
  <1> QED
    BY <1>1, <1>2, <1>3, FilingMoves DEF VocabularyCreate, IInv, TypeOK

LEMMA TermCreateHolds ==
    ASSUME IInv, NEW r \in Requests, NEW ref \in VocabNames \X TermNames,
           NEW kind \in Kinds, TermCreate(r, ref, kind)
    PROVE  IInv'
  <1> DEFINE y == Filed(r, "find", ref, kind, "create", 0)
  <1>1. filing' = filing \cup {y} /\ y.by = "create" /\ y.ref = ref
    BY DEF TermCreate, Filed
  <1>2. y \in Filing
    BY FiledIsFiling DEF Refs
  <1>3. KindsSeen' /\ TermsNamed'
    BY <1>1 DEF TermCreate, tables, IInv, KindsSeen, TermsNamed
  <1> QED
    BY <1>1, <1>2, <1>3, FilingMoves DEF TermCreate, IInv, TypeOK

LEMMA TagNodeHolds ==
    ASSUME IInv, NEW r \in Requests, NEW n \in nodes, NEW ref \in VocabNames \X TermNames,
           TagNode(r, n, ref)
    PROVE  IInv'
  <1> DEFINE y == Filed(r, "resolve", ref, "tags", "tag", n.id)
  <1>1. filing' = filing \cup {y} /\ y.kind = "tags" /\ y.saw = 0 /\ y.ref = ref
    BY DEF TagNode, Filed
  <1>2. n.id \in Nat
    BY DEF IInv, TypeOK, Node
  <1>3. y \in Filing
    BY <1>2, FiledIsFiling DEF Refs, Kinds
  <1>4. KindsSeen' /\ TermsNamed'
    BY <1>1 DEF TagNode, tables, IInv, TypeOK, KindsSeen, TermsNamed, Rows
  <1> QED
    BY <1>1, <1>3, <1>4, FilingMoves DEF TagNode, IInv, TypeOK

\* A request that found its term keeps the invariant.
LEMMA FoundHolds ==
    ASSUME IInv, NEW x \in filing, NEW id \in Nat, Found(x, id), x.step # "vocab",
           UNCHANGED <<tables, creating, updating, dropping>>
    PROVE  IInv'
  <1>1. KindsSeen' /\ TermsNamed'
    BY FoundKeeps DEF tables, IInv, KindsSeen, TermsNamed
  <1> QED
    BY <1>1, FoundKeeps, FilingMoves DEF IInv

LEMMA ResolveFreeHolds ==
    ASSUME IInv, NEW x \in filing, NEW id \in 0..MaxVocabs, ResolveFree(x, id)
    PROVE  IInv'
  <1> DEFINE y == [x EXCEPT !.step = "find", !.saw = id]
  <1>1. filing' = (filing \ {x}) \cup {y} /\ UNCHANGED vocabs /\ UNCHANGED vocabCount
    BY DEF ResolveFree, tables
  <1>2. id \in Nat
    BY CorpusAssumption
  <1>3. y \in Filing /\ y.by = x.by /\ y.kind = x.kind /\ y.saw = id /\ y.ref = x.ref
    BY <1>2 DEF IInv, TypeOK, Filing
  <1>4. id <= vocabCount /\ \A v \in vocabs : v.id = id => v.kind = "tags"
    BY CorpusAssumption DEF ResolveFree, IsFree, Named, IInv, TypeOK, Vocab, Kinds, Rows
  <1> HIDE DEF y
  <1>5. KindsSeen' /\ TermsNamed'
    BY <1>1, <1>3, <1>4 DEF ResolveFree, IInv, KindsSeen, TermsNamed
  <1> QED
    BY <1>1, <1>3, <1>5, FilingMoves DEF ResolveFree, IInv, TypeOK

LEMMA FindNothingHolds ==
    ASSUME IInv, NEW x \in filing, FindNothing(x)
    PROVE  IInv'
  <1> DEFINE y == [x EXCEPT !.step = "vocab"]
  <1>1. filing' = (filing \ {x}) \cup {y} /\ UNCHANGED vocabs /\ UNCHANGED vocabCount
    BY DEF FindNothing, tables
  <1>2. y \in Filing /\ y.by = x.by /\ y.kind = x.kind /\ y.saw = x.saw /\ y.ref = x.ref
    BY DEF IInv, TypeOK, Filing
  <1> HIDE DEF y
  <1>3. KindsSeen' /\ TermsNamed'
    BY <1>1, <1>2 DEF FindNothing, IInv, KindsSeen, TermsNamed
  <1> QED
    BY <1>1, <1>2, <1>3, FilingMoves DEF FindNothing, IInv, TypeOK

LEMMA FindVocabHolds ==
    ASSUME IInv, NEW x \in filing, NEW v \in vocabs, FindVocab(x, v)
    PROVE  IInv'
  <1> DEFINE y == [x EXCEPT !.step = "term", !.vocab = v.id]
  <1>1. v.id \in Nat
    BY DEF IInv, TypeOK, Vocab
  <1>2. CASE Found(x, v.id)
    BY <1>1, <1>2, FoundHolds DEF FindVocab
  <1>3. CASE filing' = (filing \ {x}) \cup {y}
    <2>1. y \in Filing /\ y.by = x.by /\ y.kind = x.kind /\ y.saw = x.saw /\ y.ref = x.ref
      BY <1>1 DEF IInv, TypeOK, Filing
    <2> HIDE DEF y
    <2>2. KindsSeen' /\ TermsNamed'
      BY <1>3, <2>1 DEF FindVocab, tables, IInv, KindsSeen, TermsNamed
    <2> QED
      BY <1>3, <2>1, <2>2, FilingMoves DEF FindVocab, IInv, TypeOK
  <1> QED
    BY <1>2, <1>3 DEF FindVocab

\* A policy that is set marks every request past its check, or nothing is
\* marked.
LEMMA ArmedKeeps ==
    ASSUME IInv, NEW name, NEW kind, Armed(name, kind)
    PROVE  /\ creating' \subseteq Creating /\ updating' \subseteq Updating
           /\ \A c, d \in creating' : c.req = d.req => c = d
           /\ \A c, d \in updating' : c.req = d.req => c = d
           /\ \A c \in updating' :
                  \E d \in updating : c.old = d.old /\ c.stale = d.stale
           /\ name = TypeVocab /\ kind = "categories" =>
                  \A c \in creating' \cup updating' : c.late
           /\ ~(name = TypeVocab /\ kind = "categories") => UNCHANGED <<creating, updating>>
  <1>1. CASE name = TypeVocab /\ kind = "categories"
    <2>1. /\ creating' = {[y EXCEPT !.late = TRUE] : y \in creating}
          /\ updating' = {[y EXCEPT !.late = TRUE] : y \in updating}
      BY <1>1 DEF Armed
    <2>2. \A y \in creating : /\ [y EXCEPT !.late = TRUE] \in Creating
                              /\ [y EXCEPT !.late = TRUE].req = y.req
                              /\ [y EXCEPT !.late = TRUE].late
      BY DEF IInv, TypeOK, Creating
    <2>3. \A y \in updating : /\ [y EXCEPT !.late = TRUE] \in Updating
                              /\ [y EXCEPT !.late = TRUE].req = y.req
                              /\ [y EXCEPT !.late = TRUE].old = y.old
                              /\ [y EXCEPT !.late = TRUE].stale = y.stale
                              /\ [y EXCEPT !.late = TRUE].late
      BY DEF IInv, TypeOK, Updating
    <2>4. creating' \subseteq Creating /\ updating' \subseteq Updating
      BY <2>1, <2>2, <2>3
    <2>5. ASSUME NEW c \in creating', NEW d \in creating', c.req = d.req PROVE c = d
      <3>1. PICK y \in creating, z \in creating :
                c = [y EXCEPT !.late = TRUE] /\ d = [z EXCEPT !.late = TRUE]
        BY <2>1
      <3>2. y.req = z.req
        BY <2>5, <2>2, <3>1
      <3> QED
        BY <3>1, <3>2 DEF IInv, OneEach
    <2>6. ASSUME NEW c \in updating', NEW d \in updating', c.req = d.req PROVE c = d
      <3>1. PICK y \in updating, z \in updating :
                c = [y EXCEPT !.late = TRUE] /\ d = [z EXCEPT !.late = TRUE]
        BY <2>1
      <3>2. y.req = z.req
        BY <2>6, <2>3, <3>1
      <3> QED
        BY <3>1, <3>2 DEF IInv, OneEach
    <2>7. \A c \in updating' : \E d \in updating : c.old = d.old /\ c.stale = d.stale
      BY <2>1, <2>3
    <2>8. \A c \in creating' \cup updating' : c.late
      BY <2>1, <2>2, <2>3
    <2> QED
      BY <1>1, <2>4, <2>5, <2>6, <2>7, <2>8
  <1>2. CASE ~(name = TypeVocab /\ kind = "categories")
    BY <1>2 DEF Armed, IInv, TypeOK, OneEach
  <1> QED
    BY <1>1, <1>2

LEMMA AddVocabHolds ==
    ASSUME IInv, NEW x \in filing, AddVocab(x)
    PROVE  IInv'
  <1> DEFINE v == [id |-> vocabCount + 1, name |-> x.ref[1], kind |-> x.kind]
             y == [x EXCEPT !.step = "find", !.vocab = vocabCount + 1, !.saw = vocabCount + 1]
  <1>1. /\ vocabs' = vocabs \cup {v} /\ vocabCount' = vocabCount + 1
        /\ filing' \subseteq filing \cup {y}
        /\ y \in filing' => y \in filing \/ x.ref[2] # NoTerm
        /\ Named(x.ref[1]) = {} /\ vocabCount < MaxVocabs
        /\ UNCHANGED <<terms, nodes, tags, nodeCount, dropping>>
    BY DEF AddVocab
  <1>2. vocabCount \in Nat /\ vocabCount + 1 \in Nat /\ x \in Filing
    BY CorpusAssumption DEF IInv, TypeOK
  <1>3. v \in Vocab /\ v.id = vocabCount + 1 /\ v.name = x.ref[1] /\ v.kind = x.kind
    BY <1>2 DEF Filing, Refs, Vocab
  <1>4. /\ y \in Filing
        /\ y.by = x.by /\ y.kind = x.kind /\ y.saw = vocabCount + 1 /\ y.ref = x.ref
    BY <1>2 DEF Filing
  <1>5. Armed(v.name, v.kind)
    BY DEF AddVocab
  <1> HIDE DEF v, y
  <1>6. TypeOK'
    BY <1>1, <1>2, <1>3, <1>4, <1>5, ArmedKeeps, CorpusAssumption DEF IInv, TypeOK
  <1>7. Rows'
    BY <1>1, <1>2, <1>3 DEF IInv, Rows, Named
  <1>8. OneEach'
    BY <1>1, <1>5, ArmedKeeps DEF IInv, OneEach
  <1>9. NothingDangles'
    BY <1>1 DEF IInv, NothingDangles, HasTerm
  <1>10. ControlledIsDeliberate'
    BY <1>1, <1>2, <1>3 DEF IInv, Rows, NothingDangles, ControlledIsDeliberate
  <1>11. KindsSeen'
    BY <1>1, <1>2, <1>3, <1>4 DEF IInv, TypeOK, Filing, KindsSeen, Rows
  <1>12. TermsNamed'
    BY <1>1, <1>2, <1>4 DEF IInv, TermsNamed, Filing, Refs
  <1>13. CreatesAllowed' /\ UpdatesAllowed'
    <2>1. CASE v.name = TypeVocab /\ v.kind = "categories"
      BY <1>5, <2>1, ArmedKeeps DEF CreatesAllowed, UpdatesAllowed
    <2>2. CASE ~(v.name = TypeVocab /\ v.kind = "categories")
      <3>1. UNCHANGED <<creating, updating>>
        BY <1>5, <2>2, ArmedKeeps
      <3>2. ASSUME NEW type, TypeAllowed(type) PROVE TypeAllowed(type)'
        BY <1>1, <2>2, <3>2, AllowedStays DEF HasTerm
      <3> QED
        BY <3>1, <3>2 DEF IInv, CreatesAllowed, UpdatesAllowed
    <2> QED
      BY <2>1, <2>2
  <1>14. ReadsFresh'
    BY <1>1, <1>5, ArmedKeeps DEF IInv, ReadsFresh
  <1>15. CountsFresh'
    BY <1>1 DEF IInv, CountsFresh, Impact
  <1> QED
    BY <1>6, <1>7, <1>8, <1>9, <1>10, <1>11, <1>12, <1>13, <1>14, <1>15 DEF IInv

LEMMA AddTermHolds ==
    ASSUME IInv, NEW x \in filing, AddTerm(x)
    PROVE  IInv'
  <1> DEFINE t == [vocab |-> x.vocab, name |-> x.ref[2], origin |-> Origin(x)]
             Mark(d) == [d EXCEPT !.late = d.late \/ d.vocab = x.vocab]
  <1>1. x \in Filing /\ x.vocab \in Nat /\ x.step = "term" /\ x.ref[2] \in TermNames
    BY DEF AddTerm, IInv, TypeOK, TermsNamed, Filing
  <1>2. /\ terms' = terms \cup {t} /\ Found(x, x.vocab)
        /\ \E v \in vocabs : v.id = x.vocab
        /\ dropping' = {Mark(d) : d \in dropping}
        /\ UNCHANGED <<vocabs, nodes, tags, vocabCount, nodeCount, creating, updating>>
    BY DEF AddTerm
  <1>3. t \in Term /\ t.vocab = x.vocab /\ t.origin = Origin(x)
    BY <1>1 DEF Term, Origin
  <1>4. \A d \in dropping :
            /\ Mark(d) \in Dropping
            /\ Mark(d).req = d.req /\ Mark(d).vocab = d.vocab /\ Mark(d).force = d.force
            /\ Mark(d).late <=> d.late \/ d.vocab = x.vocab
    BY DEF IInv, TypeOK, Dropping
  <1> HIDE DEF t, Mark
  <1>5. TypeOK'
    BY <1>1, <1>2, <1>3, <1>4, FoundKeeps DEF IInv, TypeOK
  <1>6. OneEach'
    BY <1>2, <1>4 DEF IInv, OneEach
  <1>7. NothingDangles'
    BY <1>2, <1>3 DEF IInv, NothingDangles, HasTerm
  <1>8. ControlledIsDeliberate'
    <2>1. \A v \in vocabs : v.id = x.vocab /\ v.kind = "categories" => t.origin # "tag"
      BY <1>3 DEF Origin, IInv, KindsSeen
    <2> QED
      BY <1>2, <1>3, <2>1 DEF IInv, ControlledIsDeliberate
  <1>9. KindsSeen' /\ TermsNamed'
    BY <1>1, <1>2, FoundKeeps DEF IInv, KindsSeen, TermsNamed
  <1>10. ASSUME NEW type, TypeAllowed(type) PROVE TypeAllowed(type)'
    BY <1>2, <1>10, AllowedStays DEF HasTerm
  <1>11. CreatesAllowed' /\ UpdatesAllowed'
    BY <1>2, <1>10 DEF IInv, CreatesAllowed, UpdatesAllowed
  <1>12. CountsFresh'
    BY <1>2, <1>3, <1>4 DEF IInv, CountsFresh, Impact
  <1> QED
    BY <1>2, <1>5, <1>6, <1>7, <1>8, <1>9, <1>11, <1>12 DEF IInv, Rows, ReadsFresh

LEMMA PutTagHolds ==
    ASSUME IInv, NEW x \in filing, PutTag(x)
    PROVE  IInv'
  <1> DEFINE g == [node |-> x.node, vocab |-> x.vocab, term |-> x.ref[2]]
  <1>1. g \in Tag
    BY DEF PutTag, IInv, TypeOK, TermsNamed, Filing, Tag
  <1>2. TypeOK'
    BY <1>1 DEF PutTag, IInv, TypeOK
  <1>3. NothingDangles'
    BY DEF PutTag, IInv, NothingDangles, HasTerm
  <1>4. KindsSeen' /\ TermsNamed'
    BY DEF PutTag, IInv, KindsSeen, TermsNamed
  <1> QED
    BY <1>2, <1>3, <1>4
    DEF PutTag, IInv, Rows, OneEach, ControlledIsDeliberate, CreatesAllowed, UpdatesAllowed,
        ReadsFresh, CountsFresh, TypeAllowed, Named, HasTerm, Impact

LEMMA UntagHolds ==
    ASSUME IInv, NEW g \in tags, Untag(g)
    PROVE  IInv'
  BY DEF Untag, flights, IInv, TypeOK, Rows, OneEach, NothingDangles, ControlledIsDeliberate,
         KindsSeen, TermsNamed, CreatesAllowed, UpdatesAllowed, ReadsFresh, CountsFresh,
         TypeAllowed, Named, HasTerm, Impact

LEMMA CreateNodeHolds ==
    ASSUME IInv, NEW r \in Requests, NEW type \in Types, NEW text \in Texts, NEW ref \in Refs,
           CreateNode(r, type, text, ref)
    PROVE  IInv'
  <1> DEFINE x == [req |-> r, type |-> type, text |-> text, ref |-> ref, late |-> FALSE]
  <1>1. creating' = creating \cup {x} /\ x \in Creating
    BY DEF CreateNode, Creating
  <1>2. TypeOK'
    BY <1>1 DEF CreateNode, tables, IInv, TypeOK
  <1>3. OneEach'
    <2>1. x.req = r /\ \A c \in creating : c.req # r
      BY DEF CreateNode, Free
    <2> HIDE DEF x
    <2> QED
      BY <1>1, <2>1 DEF CreateNode, IInv, OneEach
  <1>4. CreatesAllowed' /\ UpdatesAllowed'
    BY <1>1
    DEF CreateNode, tables, IInv, CreatesAllowed, UpdatesAllowed, TypeAllowed, Named, HasTerm
  <1> QED
    BY <1>2, <1>3, <1>4
    DEF CreateNode, tables, IInv, Rows, NothingDangles, ControlledIsDeliberate, KindsSeen,
        TermsNamed, ReadsFresh, CountsFresh, HasTerm, Impact

LEMMA InsertNodeHolds ==
    ASSUME IInv, NEW x \in creating, InsertNode(x)
    PROVE  IInv'
  <1> DEFINE n == [id |-> nodeCount + 1, type |-> x.type, text |-> x.text]
             y == Filed(x.req, "resolve", x.ref, "tags", "tag", nodeCount + 1)
  <1>1. /\ nodes' = nodes \cup {n} /\ nodeCount' = nodeCount + 1 /\ nodeCount < MaxNodes
        /\ filing' \subseteq filing \cup {y}
        /\ y \in filing' => y \in filing \/ x.ref[2] # NoTerm
        /\ creating' = creating \ {x}
        /\ UNCHANGED <<vocabs, terms, tags, vocabCount, updating, dropping>>
    BY DEF InsertNode
  <1>2. nodeCount \in Nat /\ nodeCount + 1 \in Nat /\ x \in Creating
    BY CorpusAssumption DEF IInv, TypeOK
  <1>3. n \in Node /\ n.id = nodeCount + 1
    BY <1>2 DEF Creating, Node
  <1>4. y \in Filing
    BY <1>2, FiledIsFiling DEF Creating, Kinds
  <1>5. y.kind = "tags" /\ y.saw = 0 /\ y.ref = x.ref
    BY DEF Filed
  <1> HIDE DEF n, y
  <1>6. TypeOK'
    BY <1>1, <1>2, <1>3, <1>4, CorpusAssumption DEF IInv, TypeOK
  <1>7. Rows'
    BY <1>1, <1>2, <1>3 DEF IInv, Rows
  <1>8. KindsSeen'
    BY <1>1, <1>5 DEF IInv, TypeOK, KindsSeen, Rows
  <1>9. TermsNamed'
    BY <1>1, <1>2, <1>5 DEF IInv, TermsNamed, Creating, Refs
  <1>10. ReadsFresh'
    BY <1>1, <1>2, <1>3 DEF IInv, ReadsFresh
  <1> QED
    BY <1>1, <1>6, <1>7, <1>8, <1>9, <1>10
    DEF IInv, OneEach, NothingDangles, ControlledIsDeliberate, CreatesAllowed, UpdatesAllowed,
        CountsFresh, TypeAllowed, Named, HasTerm, Impact

LEMMA UpdateReadHolds ==
    ASSUME IInv, NEW r \in Requests, NEW n \in nodes, NEW type \in Types \cup {Keep},
           NEW text \in Texts \cup {Keep}, UpdateRead(r, n, type, text)
    PROVE  IInv'
  <1> DEFINE x == [req |-> r, step |-> IF NeedsCheck(n, type) THEN "check" ELSE "write",
                   old |-> n, type |-> type, text |-> text, late |-> FALSE, stale |-> FALSE]
  <1>1. updating' = updating \cup {x} /\ x \in Updating
    BY DEF UpdateRead, IInv, TypeOK, Updating
  <1>2. TypeOK'
    BY <1>1 DEF UpdateRead, tables, IInv, TypeOK
  <1>3. OneEach'
    <2>1. x.req = r /\ \A c \in updating : c.req # r
      BY DEF UpdateRead, Free
    <2> HIDE DEF x
    <2> QED
      BY <1>1, <2>1 DEF UpdateRead, IInv, OneEach
  <1>4. CreatesAllowed'
    BY DEF UpdateRead, tables, IInv, CreatesAllowed, TypeAllowed, Named, HasTerm
  <1>5. UpdatesAllowed'
    <2>1. x.step = "write" => x.type \in {Keep, Blank, x.old.type}
      BY DEF NeedsCheck
    <2>2. UNCHANGED <<vocabs, terms>>
      BY DEF UpdateRead, tables
    <2> HIDE DEF x
    <2> QED
      BY <1>1, <2>1, <2>2 DEF IInv, UpdatesAllowed, TypeAllowed, Named, HasTerm
  <1>6. ReadsFresh'
    BY <1>1 DEF UpdateRead, tables, IInv, ReadsFresh, Rows
  <1> QED
    BY <1>2, <1>3, <1>4, <1>5, <1>6
    DEF UpdateRead, tables, IInv, Rows, NothingDangles, ControlledIsDeliberate, KindsSeen,
        TermsNamed, CountsFresh, HasTerm, Impact

LEMMA UpdateCheckHolds ==
    ASSUME IInv, NEW x \in updating, UpdateCheck(x)
    PROVE  IInv'
  <1> DEFINE y == [x EXCEPT !.step = "write", !.late = FALSE]
  <1>1. updating' = (updating \ {x}) \cup {y} /\ TypeAllowed(x.type)
    BY DEF UpdateCheck
  <1>2. /\ y \in Updating
        /\ y.req = x.req /\ y.old = x.old /\ y.type = x.type /\ y.stale = x.stale
    BY DEF IInv, TypeOK, Updating
  <1> HIDE DEF y
  <1>3. TypeOK'
    BY <1>1, <1>2 DEF UpdateCheck, tables, IInv, TypeOK
  <1>4. OneEach'
    BY <1>1, <1>2 DEF UpdateCheck, IInv, OneEach
  <1>5. CreatesAllowed' /\ UpdatesAllowed'
    BY <1>1, <1>2
    DEF UpdateCheck, tables, IInv, CreatesAllowed, UpdatesAllowed, TypeAllowed, Named, HasTerm
  <1>6. ReadsFresh'
    BY <1>1, <1>2 DEF UpdateCheck, tables, IInv, ReadsFresh
  <1> QED
    BY <1>3, <1>4, <1>5, <1>6
    DEF UpdateCheck, tables, IInv, Rows, NothingDangles, ControlledIsDeliberate, KindsSeen,
        TermsNamed, CountsFresh, HasTerm, Impact

\* The row an update writes has the id of the row it read.
LEMMA MergedIsNode ==
    ASSUME NEW x \in Updating
    PROVE  Merged(x) \in Node /\ Merged(x).id = x.old.id
  BY DEF Updating, Node, Merged

LEMMA UpdateWriteHolds ==
    ASSUME IInv, NEW x \in updating, UpdateWrite(x)
    PROVE  IInv'
  <1> DEFINE Mark(y) == [y EXCEPT !.stale = y.stale \/ y.old.id = x.old.id]
             m == Merged(x)
  <1>1. /\ nodes' = {n \in nodes : n.id # x.old.id} \cup {m}
        /\ updating' = {Mark(y) : y \in updating \ {x}}
        /\ \E n \in nodes : n.id = x.old.id
        /\ UNCHANGED <<vocabs, terms, tags, vocabCount, nodeCount, filing, creating, dropping>>
    BY DEF UpdateWrite
  <1>2. \A y \in updating :
            /\ Mark(y) \in Updating
            /\ Mark(y).req = y.req /\ Mark(y).step = y.step /\ Mark(y).type = y.type
            /\ Mark(y).old = y.old /\ Mark(y).late = y.late
            /\ Mark(y).stale <=> y.stale \/ y.old.id = x.old.id
    BY DEF IInv, TypeOK, Updating
  <1>3. m \in Node /\ m.id = x.old.id
    BY MergedIsNode DEF IInv, TypeOK
  <1> HIDE DEF Mark, m
  <1>4. TypeOK'
    BY <1>1, <1>2, <1>3 DEF IInv, TypeOK
  <1>5. Rows'
    BY <1>1, <1>3 DEF IInv, Rows
  <1>6. OneEach'
    BY <1>1, <1>2 DEF IInv, OneEach
  <1>7. NothingDangles'
    BY <1>1, <1>3 DEF IInv, NothingDangles, HasTerm
  <1>8. CreatesAllowed' /\ UpdatesAllowed'
    BY <1>1, <1>2 DEF IInv, CreatesAllowed, UpdatesAllowed, TypeAllowed, Named, HasTerm
  <1>9. ReadsFresh'
    BY <1>1, <1>2, <1>3 DEF IInv, ReadsFresh
  <1> QED
    BY <1>1, <1>4, <1>5, <1>6, <1>7, <1>8, <1>9
    DEF IInv, ControlledIsDeliberate, KindsSeen, TermsNamed, CountsFresh, Impact

LEMMA DeleteNodeHolds ==
    ASSUME IInv, NEW n \in nodes, DeleteNode(n)
    PROVE  IInv'
  <1>1. NothingDangles'
    BY DEF DeleteNode, IInv, TypeOK, Node, Rows, NothingDangles, HasTerm
  <1>2. ReadsFresh' /\ Rows' /\ TypeOK'
    BY DEF DeleteNode, flights, IInv, TypeOK, Rows, ReadsFresh
  <1> QED
    BY <1>1, <1>2
    DEF DeleteNode, flights, IInv, OneEach, ControlledIsDeliberate, KindsSeen, TermsNamed,
        CreatesAllowed, UpdatesAllowed, CountsFresh, TypeAllowed, Named, HasTerm, Impact

LEMMA DropCountHolds ==
    ASSUME IInv, NEW r \in Requests, NEW v \in vocabs, NEW force \in BOOLEAN,
           DropCount(r, v, force)
    PROVE  IInv'
  <1> DEFINE x == [req |-> r, vocab |-> v.id, force |-> force, late |-> FALSE]
  <1>1. dropping' = dropping \cup {x} /\ x \in Dropping
    BY DEF DropCount, IInv, TypeOK, Vocab, Dropping
  <1>2. /\ x.req = r /\ \A d \in dropping : d.req # r
        /\ x.vocab = v.id /\ x.force = force
    BY DEF DropCount, Free
  <1> HIDE DEF x
  <1>3. TypeOK'
    BY <1>1 DEF DropCount, tables, IInv, TypeOK
  <1>4. OneEach'
    BY <1>1, <1>2 DEF DropCount, IInv, OneEach
  <1>5. CountsFresh'
    BY <1>1, <1>2 DEF DropCount, tables, IInv, CountsFresh, Impact
  <1> QED
    BY <1>3, <1>4, <1>5
    DEF DropCount, tables, IInv, Rows, NothingDangles, ControlledIsDeliberate, KindsSeen,
        TermsNamed, CreatesAllowed, UpdatesAllowed, ReadsFresh, TypeAllowed, Named, HasTerm

LEMMA DropHolds ==
    ASSUME IInv, NEW x \in dropping, Drop(x)
    PROVE  IInv'
  <1>1. TypeOK' /\ Rows' /\ OneEach'
    BY DEF Drop, Remaining, IInv, TypeOK, Rows, OneEach
  <1>2. NothingDangles'
    BY DEF Drop, Remaining, IInv, TypeOK, Tag, NothingDangles, HasTerm
  <1>3. ASSUME NEW type, TypeAllowed(type) PROVE TypeAllowed(type)'
    BY <1>3, AllowedStays DEF Drop, Remaining, HasTerm
  <1>4. CreatesAllowed' /\ UpdatesAllowed'
    BY <1>3 DEF Drop, IInv, CreatesAllowed, UpdatesAllowed
  <1>5. CountsFresh'
    BY DEF Drop, Remaining, IInv, CountsFresh, Impact
  <1> QED
    BY <1>1, <1>2, <1>4, <1>5
    DEF Drop, Remaining, IInv, ControlledIsDeliberate, KindsSeen, TermsNamed, ReadsFresh

LEMMA AbortHolds ==
    ASSUME IInv, NEW r \in Requests, Abort(r)
    PROVE  IInv'
  BY DEF Abort, tables, IInv, TypeOK, Rows, OneEach, NothingDangles, ControlledIsDeliberate,
         KindsSeen, TermsNamed, CreatesAllowed, UpdatesAllowed, ReadsFresh, CountsFresh,
         TypeAllowed, Named, HasTerm, Impact

LEMMA StutterHolds == IInv /\ UNCHANGED vars => IInv'
  BY DEF vars, tables, flights, IInv, TypeOK, Rows, OneEach, NothingDangles,
         ControlledIsDeliberate, KindsSeen, TermsNamed, CreatesAllowed, UpdatesAllowed,
         ReadsFresh, CountsFresh, TypeAllowed, Named, HasTerm, Impact

LEMMA StepHolds == IInv /\ [Next]_vars => IInv'
  <1> SUFFICES ASSUME IInv, [Next]_vars PROVE IInv'
    OBVIOUS
  <1>1. CASE \E r \in Requests, name \in VocabNames, kind \in Kinds :
                 VocabularyCreate(r, name, kind)
    BY <1>1, VocabularyCreateHolds
  <1>2. CASE \E r \in Requests, ref \in VocabNames \X TermNames, kind \in Kinds :
                 TermCreate(r, ref, kind)
    BY <1>2, TermCreateHolds
  <1>3. CASE \E r \in Requests, n \in nodes, ref \in VocabNames \X TermNames :
                 TagNode(r, n, ref)
    BY <1>3, TagNodeHolds
  <1>4. CASE \E r \in Requests, type \in Types, text \in Texts, ref \in Refs :
                 CreateNode(r, type, text, ref)
    BY <1>4, CreateNodeHolds
  <1>5. CASE \E r \in Requests, n \in nodes, type \in Types \cup {Keep},
                text \in Texts \cup {Keep} : UpdateRead(r, n, type, text)
    BY <1>5, UpdateReadHolds
  <1>6. CASE \E r \in Requests, v \in vocabs, force \in BOOLEAN : DropCount(r, v, force)
    BY <1>6, DropCountHolds
  <1>7. CASE \E r \in Requests : Abort(r)
    BY <1>7, AbortHolds
  <1>8. CASE \E x \in filing, v \in vocabs : ResolveControlled(x, v)
    <2>1. \A v \in vocabs : v.id \in Nat
      BY DEF IInv, TypeOK, Vocab
    <2> QED
      BY <1>8, <2>1, FoundHolds DEF ResolveControlled
  <1>9. CASE \E x \in filing, v \in vocabs : FindVocab(x, v)
    BY <1>9, FindVocabHolds
  <1>10. CASE \E x \in filing, id \in 0..MaxVocabs : ResolveFree(x, id)
    BY <1>10, ResolveFreeHolds
  <1>11. CASE \E x \in filing : FindNothing(x) \/ AddVocab(x) \/ AddTerm(x) \/ PutTag(x)
    BY <1>11, FindNothingHolds, AddVocabHolds, AddTermHolds, PutTagHolds
  <1>12. CASE \E g \in tags : Untag(g)
    BY <1>12, UntagHolds
  <1>13. CASE \E x \in creating : InsertNode(x)
    BY <1>13, InsertNodeHolds
  <1>14. CASE \E x \in updating : UpdateCheck(x) \/ UpdateWrite(x)
    BY <1>14, UpdateCheckHolds, UpdateWriteHolds
  <1>15. CASE \E n \in nodes : DeleteNode(n)
    BY <1>15, DeleteNodeHolds
  <1>16. CASE \E x \in dropping : Drop(x)
    BY <1>16, DropHolds
  <1>17. CASE UNCHANGED vars
    BY <1>17, StutterHolds
  <1> QED
    BY <1>1, <1>2, <1>3, <1>4, <1>5, <1>6, <1>7, <1>8, <1>9, <1>10, <1>11, <1>12, <1>13,
       <1>14, <1>15, <1>16, <1>17 DEF Next

----------------------------------------------------------------------------
(* The properties. *)

\* Steps that leave the nodes alone; every other one is an insert, the write
\* of an update, or a delete.
LEMMA NodeSteps ==
    ASSUME Next
    PROVE  \/ nodes' = nodes
           \/ \E x \in creating : InsertNode(x)
           \/ \E x \in updating : UpdateWrite(x)
           \/ \E n \in nodes : DeleteNode(n)
  BY DEF Next, VocabularyCreate, TermCreate, TagNode, CreateNode, UpdateRead, DropCount, Abort,
         ResolveControlled, FindVocab, ResolveFree, FindNothing, AddVocab, AddTerm, PutTag,
         Untag, UpdateCheck, Drop, tables

\* The update that wrote has ended.
LEMMA WriterEnds ==
    ASSUME IInv, NEW x \in updating, UpdateWrite(x)
    PROVE  Ends(x, updating')
  <1>1. \A y \in updating : [y EXCEPT !.stale = y.stale \/ y.old.id = x.old.id].req = y.req
    BY DEF IInv, TypeOK, Updating
  <1>2. \A y \in updating \ {x} : y.req # x.req
    BY DEF IInv, OneEach
  <1>3. ASSUME NEW z \in updating' PROVE z.req # x.req
    <2>1. PICK y \in updating \ {x} : z = [y EXCEPT !.stale = y.stale \/ y.old.id = x.old.id]
      BY DEF UpdateWrite
    <2> QED
      BY <1>1, <1>2, <2>1
  <1> QED
    BY <1>3 DEF Ends

\* Every conjunct of the inductive invariant, at all times.
THEOREM Invariance == Spec => []IInv
  BY InitHolds, StepHolds, PTL DEF Spec

\* The tables and the requests in flight keep their shape.
THEOREM TypeCorrect == Spec => []TypeOK
  <1>1. IInv => TypeOK
    BY DEF IInv
  <1> QED
    BY <1>1, Invariance, PTL

\* No term outlives its vocabulary and no tagging its node or its term
\* (0001_init.sql), whatever is deleted under a request in flight.
THEOREM Referential == Spec => []NothingDangles
  <1>1. IInv => NothingDangles
    BY DEF IInv
  <1> QED
    BY <1>1, Invariance, PTL

\* Tagging adds no term to a controlled vocabulary (db.ts
\* resolveTermForTagging), but to one made anew behind its back.
THEOREM Deliberate == Spec => []ControlledIsDeliberate
  <1>1. IInv => ControlledIsDeliberate
    BY DEF IInv
  <1> QED
    BY <1>1, Invariance, PTL

\* A node gets no type the policy does not list (db.ts assertTypeAllowed), but
\* the empty one, or from a request overtaken by a policy or another update.
THEOREM TypesGuarded == Spec => TypeGuarded
  <1> DEFINE Guarded(n) ==
          \/ TypeAllowed(n.type) \/ n.type = Blank
          \/ \E m \in nodes : m.id = n.id /\ m.type = n.type
          \/ \E x \in creating : Ends(x, creating') /\ x.late
          \/ \E x \in updating : Ends(x, updating') /\ (x.late \/ x.stale)
  <1>1. ASSUME IInv, [Next]_vars
        PROVE  [\A n \in nodes' : Guarded(n)]_vars
    <2> SUFFICES ASSUME Next, NEW n \in nodes' PROVE Guarded(n)
      BY <1>1
    <2>1. CASE n \in nodes
      BY <2>1
    <2>2. ASSUME NEW x \in creating, InsertNode(x), n \notin nodes
          PROVE  Guarded(n)
      <3>1. n.type = x.type /\ creating' = creating \ {x}
        BY <2>2 DEF InsertNode
      <3>2. Ends(x, creating')
        BY <1>1, <3>1 DEF Ends, IInv, OneEach
      <3>3. x.late \/ TypeAllowed(x.type)
        BY <1>1 DEF IInv, CreatesAllowed
      <3> QED
        BY <3>1, <3>2, <3>3
    <2>3. ASSUME NEW x \in updating, UpdateWrite(x), n \notin nodes
          PROVE  Guarded(n)
      <3>1. n = Merged(x) /\ x.step = "write"
        BY <2>3 DEF UpdateWrite
      <3>2. x \in Updating
        BY <1>1 DEF IInv, TypeOK
      <3>3. CASE x.late \/ x.stale
        BY <1>1, <2>3, <3>3, WriterEnds
      <3>4. CASE ~x.stale /\ n.type = x.old.type
        <4>1. PICK m \in nodes : m.id = x.old.id
          BY <2>3 DEF UpdateWrite
        <4>2. m = x.old /\ n.id = x.old.id
          BY <1>1, <3>1, <3>2, <3>4, <4>1, MergedIsNode DEF IInv, ReadsFresh
        <4> QED
          BY <3>4, <4>1, <4>2
      <3>5. CASE ~x.late /\ n.type # x.old.type
        <4>1. n.type = x.type /\ x.type # Keep
          BY <3>1, <3>5 DEF Merged
        <4> QED
          BY <1>1, <3>1, <3>5, <4>1 DEF IInv, UpdatesAllowed
      <3> QED
        BY <3>3, <3>4, <3>5
    <2>4. CASE \E m \in nodes : DeleteNode(m)
      BY <2>1, <2>4 DEF DeleteNode
    <2> QED
      BY <2>1, <2>2, <2>3, <2>4, NodeSteps
  <1> QED
    BY Invariance, <1>1, PTL DEF Spec, TypeGuarded

\* An update moves no field it was not given (db.ts updateNode), but puts back
\* what another one wrote after it read the row.
THEOREM FieldsKept == Spec => OnlyPassedFieldsMove
  <1> DEFINE Kept(m, n) ==
          m.id = n.id /\ m # n =>
              \E x \in updating :
                  /\ Ends(x, updating')
                  /\ \/ x.stale
                     \/ /\ m.type # n.type => n.type = x.type
                        /\ m.text # n.text => n.text = x.text
  <1>1. ASSUME IInv, [Next]_vars
        PROVE  [\A m \in nodes, n \in nodes' : Kept(m, n)]_vars
    <2> SUFFICES ASSUME Next, NEW m \in nodes, NEW n \in nodes', m.id = n.id, m # n
                 PROVE  Kept(m, n)
      BY <1>1
    <2>1. n \notin nodes
      BY <1>1 DEF IInv, Rows
    <2>2. ASSUME NEW x \in creating, InsertNode(x)
          PROVE  FALSE
      BY <1>1, <2>1, <2>2 DEF InsertNode, IInv, TypeOK, Rows
    <2>3. ASSUME NEW x \in updating, UpdateWrite(x)
          PROVE  Kept(m, n)
      <3>1. n = Merged(x) /\ n.id = x.old.id
        BY <1>1, <2>1, <2>3, MergedIsNode DEF UpdateWrite, IInv, TypeOK
      <3>2. x.stale \/ m = x.old
        BY <1>1, <3>1 DEF IInv, ReadsFresh
      <3>3. Ends(x, updating')
        BY <1>1, <2>3, WriterEnds
      <3>4. m = x.old => /\ m.type # n.type => n.type = x.type
                         /\ m.text # n.text => n.text = x.text
        BY <3>1 DEF Merged
      <3> QED
        BY <3>2, <3>3, <3>4
    <2>4. CASE \E d \in nodes : DeleteNode(d)
      BY <2>1, <2>4 DEF DeleteNode
    <2> QED
      BY <2>1, <2>2, <2>3, <2>4, NodeSteps
  <1> QED
    BY Invariance, <1>1, PTL DEF Spec, OnlyPassedFieldsMove

\* A vocabulary deleted without force takes no term along (db.ts
\* deleteVocabulary), but one added after its count.
THEOREM DropsAnnounced == Spec => DropIsAnnounced
  <1>1. ASSUME IInv, [Next]_vars
        PROVE  [\A t \in terms \ terms' :
                   \E x \in dropping : Ends(x, dropping') /\ (x.force \/ x.late)]_vars
    <2> SUFFICES ASSUME Next, NEW t \in terms, t \notin terms'
                 PROVE  \E x \in dropping : Ends(x, dropping') /\ (x.force \/ x.late)
      BY <1>1
    <2>1. PICK x \in dropping : Drop(x)
      BY DEF Next, VocabularyCreate, TermCreate, TagNode, CreateNode, UpdateRead, DropCount,
             Abort, ResolveControlled, FindVocab, ResolveFree, FindNothing, AddVocab, AddTerm,
             PutTag, Untag, InsertNode, UpdateCheck, UpdateWrite, DeleteNode, tables
    <2>2. t \in Impact(x.vocab)
      BY <2>1 DEF Drop, Remaining, Impact
    <2>3. x.force \/ x.late
      BY <1>1, <2>2 DEF IInv, CountsFresh
    <2>4. Ends(x, dropping')
      BY <1>1, <2>1 DEF Drop, Ends, IInv, OneEach
    <2> QED
      BY <2>3, <2>4
  <1> QED
    BY Invariance, <1>1, PTL DEF Spec, DropIsAnnounced

----------------------------------------------------------------------------
(* The content by name: every write is one of the Catalogue's, although a  *)
(* request knows its vocabulary by id and a name may be given again.       *)

LEMMA NameOfRow ==
    ASSUME Rows, NEW v \in vocabs
    PROVE  NameOf(v.id) = v.name
  BY DEF Rows, NameOf

LEMMA NameOfRowNext ==
    ASSUME Rows', NEW v \in vocabs'
    PROVE  NameOf(v.id)' = v.name
  BY DEF Rows, NameOf

\* Every term and every tagging is of a vocabulary, and under its name.
LEMMA Placed ==
    ASSUME IInv
    PROVE  /\ \A t \in terms : \E v \in vocabs : v.id = t.vocab /\ NameOf(t.vocab) = v.name
           /\ \A g \in tags : \E v \in vocabs : v.id = g.vocab /\ NameOf(g.vocab) = v.name
<1>1. \A t \in terms : \E v \in vocabs : v.id = t.vocab
  BY DEF IInv, NothingDangles
<1>2. \A g \in tags : \E v \in vocabs : v.id = g.vocab
  BY <1>1 DEF IInv, NothingDangles, HasTerm
<1> QED
  BY <1>1, <1>2, NameOfRow DEF IInv

\* A name is of one vocabulary.
LEMMA NamesTell ==
    ASSUME IInv, NEW v \in vocabs, NEW w \in vocabs, v.name = w.name
    PROVE  v = w
  BY DEF IInv, Rows

\* What is under a name stays there while no vocabulary goes.
LEMMA NamesFixed ==
    ASSUME IInv, Rows', vocabs \subseteq vocabs'
    PROVE  /\ \A t \in terms : NameOf(t.vocab)' = NameOf(t.vocab)
           /\ \A g \in tags : NameOf(g.vocab)' = NameOf(g.vocab)
  BY Placed, NameOfRowNext

\* The statements, one lemma each.
LEMMA AddVocabMaps ==
    ASSUME IInv, IInv', NEW x \in filing, AddVocab(x)
    PROVE  Content!Next
<1> DEFINE v == [id |-> vocabCount', name |-> x.ref[1], kind |-> x.kind]
<1>1. vocabs' = vocabs \cup {v} /\ terms' = terms /\ tags' = tags /\ nodes' = nodes
      /\ nodeCount' = nodeCount /\ Named(x.ref[1]) = {}
  BY DEF AddVocab
<1>2. x.ref[1] \in VocabNames /\ x.kind \in Kinds
  BY DEF IInv, TypeOK, Filing, Refs
<1>3. Headings' = Headings \cup {[name |-> x.ref[1], kind |-> x.kind]}
  <2>1. v.name = x.ref[1] /\ v.kind = x.kind
    OBVIOUS
  <2> HIDE DEF v
  <2> QED
    BY <1>1, <2>1 DEF Headings
<1>4. Entered' = Entered /\ Filings' = Filings
  BY <1>1, NamesFixed DEF Entered, Filings, IInv
<1>5. \A h \in Headings : h.name # x.ref[1]
  BY <1>1 DEF Headings, Named
<1>6. Content!Begin(x.ref[1], x.kind)
  BY <1>1, <1>3, <1>4, <1>5 DEF Content!Begin
<1> QED
  BY <1>2, <1>6 DEF Content!Next, Content!Kinds, Kinds

LEMMA AddTermMaps ==
    ASSUME IInv, IInv', NEW x \in filing, AddTerm(x)
    PROVE  Content!Next
<1>1. PICK v \in vocabs : v.id = x.vocab
  BY DEF AddTerm
<1> DEFINE t == [vocab |-> x.vocab, name |-> x.ref[2], origin |-> Origin(x)]
           h == [name |-> v.name, kind |-> v.kind]
<1>2. /\ terms' = terms \cup {t} /\ vocabs' = vocabs /\ tags' = tags /\ nodes' = nodes
      /\ nodeCount' = nodeCount /\ ~HasTerm(x.vocab, x.ref[2])
  BY DEF AddTerm
<1>3. Headings' = Headings /\ Filings' = Filings
  BY <1>2 DEF Headings, Filings, NameOf
<1>4. Entered' = Entered \cup {[heading |-> h.name, entry |-> x.ref[2], origin |-> Origin(x)]}
  <2>1. NameOf(t.vocab)' = h.name /\ t.name = x.ref[2] /\ t.origin = Origin(x)
    BY <1>1, <1>2, NameOfRowNext DEF IInv
  <2>2. \A u \in terms : NameOf(u.vocab)' = NameOf(u.vocab)
    BY <1>2, NamesFixed DEF IInv
  <2> HIDE DEF t, h
  <2> QED
    BY <1>2, <2>1, <2>2 DEF Entered
<1>5. h.kind = "categories" => Origin(x) # "tag"
  <2>1. t \in terms' /\ v \in vocabs' /\ v.id = t.vocab /\ t.origin = Origin(x) /\ h.kind = v.kind
    BY <1>1, <1>2
  <2> HIDE DEF t, h
  <2> QED
    BY <2>1 DEF IInv, ControlledIsDeliberate
<1>6. ASSUME NEW e \in Entered, e.heading = h.name
      PROVE  e.entry # x.ref[2]
  <2>1. PICK u \in terms : e = [heading |-> NameOf(u.vocab), entry |-> u.name, origin |-> u.origin]
    BY DEF Entered
  <2>2. u.vocab = x.vocab
    BY <1>1, <1>6, <2>1, Placed, NamesTell
  <2> QED
    BY <1>2, <2>1, <2>2 DEF HasTerm
<1>7. Content!Enter(h, x.ref[2], Origin(x))
  <2> HIDE DEF t
  <2> QED
    BY <1>2, <1>3, <1>4, <1>5, <1>6 DEF Content!Enter
<1>8. h \in Headings
  BY DEF Headings
<1>9. x.ref[2] \in TermNames /\ Origin(x) \in {"create", "tag", "late"}
  BY DEF AddTerm, Origin, IInv, TermsNamed
<1> HIDE DEF h
<1> QED
  BY <1>7, <1>8, <1>9 DEF Content!Next

LEMMA PutTagMaps ==
    ASSUME IInv, IInv', NEW x \in filing, PutTag(x)
    PROVE  Content!Next
<1>1. PICK n \in nodes, t \in terms : n.id = x.node /\ t.vocab = x.vocab /\ t.name = x.ref[2]
  BY DEF PutTag, HasTerm
<1> DEFINE g == [node |-> x.node, vocab |-> x.vocab, term |-> x.ref[2]]
           e == [heading |-> NameOf(t.vocab), entry |-> t.name, origin |-> t.origin]
<1>2. /\ tags' = tags \cup {g} /\ vocabs' = vocabs /\ terms' = terms /\ nodes' = nodes
      /\ nodeCount' = nodeCount
  BY DEF PutTag
<1>3. Headings' = Headings /\ Entered' = Entered
  BY <1>2 DEF Headings, Entered, NameOf
<1>4. NameOf(x.vocab)' = NameOf(x.vocab)
  BY <1>2 DEF NameOf
<1>5. Filings' = Filings \cup {[item |-> n.id, heading |-> e.heading, entry |-> e.entry]}
  <2>1. /\ g.node = n.id /\ NameOf(g.vocab)' = e.heading /\ g.term = e.entry
    BY <1>1, <1>4
  <2>2. \A k \in tags : NameOf(k.vocab)' = NameOf(k.vocab)
    BY <1>2, NamesFixed DEF IInv
  <2> HIDE DEF g, e
  <2> QED
    BY <1>2, <2>1, <2>2 DEF Filings
<1>6. Content!File(n, e)
  BY <1>2, <1>3, <1>5 DEF Content!File
<1>7. e \in Entered
  BY DEF Entered
<1> QED
  BY <1>6, <1>7 DEF Content!Next

LEMMA UntagMaps ==
    ASSUME IInv, NEW g \in tags, Untag(g)
    PROVE  Content!Next
<1> DEFINE f == [item |-> g.node, heading |-> NameOf(g.vocab), entry |-> g.term]
<1>1. /\ tags' = tags \ {g} /\ vocabs' = vocabs /\ terms' = terms /\ nodes' = nodes
      /\ nodeCount' = nodeCount
  BY DEF Untag
<1>2. Headings' = Headings /\ Entered' = Entered
  BY <1>1 DEF Headings, Entered, NameOf
<1>3. ASSUME NEW k \in tags,
             f = [item |-> k.node, heading |-> NameOf(k.vocab), entry |-> k.term]
      PROVE  k = g
  <2>1. k.vocab = g.vocab
    BY <1>3, Placed, NamesTell
  <2> QED
    BY <1>3, <2>1 DEF IInv, TypeOK, Tag
<1>4. Filings' = {[item |-> k.node, heading |-> NameOf(k.vocab), entry |-> k.term] : k \in tags \ {g}}
  BY <1>1 DEF Filings, NameOf
<1>5. Filings' = Filings \ {f}
  BY <1>3, <1>4 DEF Filings
<1>6. Content!Unfile(f)
  BY <1>1, <1>2, <1>5 DEF Content!Unfile
<1>7. f \in Filings
  BY DEF Filings
<1> QED
  BY <1>6, <1>7 DEF Content!Next

LEMMA InsertNodeMaps ==
    ASSUME IInv, NEW x \in creating, InsertNode(x)
    PROVE  Content!Next
<1>1. /\ nodeCount' = nodeCount + 1 /\ nodeCount \in Nat /\ nodeCount + 1 \in 1..MaxNodes
      /\ nodes' = nodes \cup {[id |-> nodeCount + 1, type |-> x.type, text |-> x.text]}
      /\ vocabs' = vocabs /\ terms' = terms /\ tags' = tags
  BY CorpusAssumption DEF InsertNode, IInv, TypeOK
<1>2. Headings' = Headings /\ Entered' = Entered /\ Filings' = Filings
  BY <1>1 DEF Headings, Entered, Filings, NameOf
<1>3. nodeCount + 1 \notin 1..nodeCount /\ 1..nodeCount' = 1..nodeCount \cup {nodeCount + 1}
  BY <1>1
<1>4. x.type \in Types /\ x.text \in Texts
  BY DEF IInv, TypeOK, Creating
<1>5. Content!Add(nodeCount + 1, x.type, x.text)
  BY <1>1, <1>2, <1>3 DEF Content!Add
<1> QED
  BY <1>1, <1>4, <1>5 DEF Content!Next

LEMMA UpdateWriteMaps ==
    ASSUME IInv, NEW x \in updating, UpdateWrite(x)
    PROVE  Content!Next
<1>1. PICK n \in nodes : n.id = x.old.id
  BY DEF UpdateWrite
<1> DEFINE m == Merged(x)
<1>2. /\ nodes' = {k \in nodes : k.id # x.old.id} \cup {m}
      /\ vocabs' = vocabs /\ terms' = terms /\ tags' = tags /\ nodeCount' = nodeCount
  BY DEF UpdateWrite
<1>3. m \in Node /\ m = [id |-> n.id, type |-> m.type, text |-> m.text]
  BY <1>1, MergedIsNode DEF Merged, IInv, TypeOK
<1> HIDE DEF m
<1>4. nodes' = (nodes \ {n}) \cup {m}
  BY <1>1, <1>2 DEF IInv, Rows
<1>5. Headings' = Headings /\ Entered' = Entered /\ Filings' = Filings
  BY <1>2 DEF Headings, Entered, Filings, NameOf
<1>6. Content!Edit(n, m.type, m.text)
  BY <1>2, <1>3, <1>4, <1>5 DEF Content!Edit
<1> QED
  BY <1>3, <1>6 DEF Content!Next, Node

LEMMA DeleteNodeMaps ==
    ASSUME IInv, NEW n \in nodes, DeleteNode(n)
    PROVE  Content!Next
<1>1. /\ nodes' = nodes \ {n} /\ tags' = {g \in tags : g.node # n.id}
      /\ vocabs' = vocabs /\ terms' = terms /\ nodeCount' = nodeCount
  BY DEF DeleteNode
<1>2. Headings' = Headings /\ Entered' = Entered
  BY <1>1 DEF Headings, Entered, NameOf
<1>3. Filings' = {[item |-> g.node, heading |-> NameOf(g.vocab), entry |-> g.term] :
                     g \in {k \in tags : k.node # n.id}}
  BY <1>1 DEF Filings, NameOf
<1>4. Filings' = {f \in Filings : f.item # n.id}
  BY <1>3 DEF Filings
<1>5. Content!Discard(n)
  BY <1>1, <1>2, <1>4 DEF Content!Discard
<1> QED
  BY <1>5 DEF Content!Next

LEMMA DropMaps ==
    ASSUME IInv, IInv', NEW x \in dropping, Drop(x)
    PROVE  Content!Next
<1>1. PICK v \in vocabs : v.id = x.vocab
  BY DEF Drop
<1> DEFINE h == [name |-> v.name, kind |-> v.kind]
<1>2. /\ vocabs' = vocabs \ {v} /\ nodes' = nodes /\ nodeCount' = nodeCount
      /\ terms' = {t \in terms : t.vocab # v.id} /\ tags' = {g \in tags : g.vocab # v.id}
  BY <1>1 DEF Drop, Remaining, IInv, Rows
<1>3. Headings' = Headings \ {h}
  BY <1>2, NamesTell DEF Headings
<1>4. \A w \in vocabs : w.id = v.id <=> w.name = v.name
  BY NamesTell DEF IInv, Rows
<1>5. /\ \A t \in terms' : NameOf(t.vocab)' = NameOf(t.vocab)
      /\ \A g \in tags' : NameOf(g.vocab)' = NameOf(g.vocab)
  BY <1>2, Placed, NameOfRowNext DEF IInv
<1>6. /\ \A t \in terms : t.vocab # v.id <=> NameOf(t.vocab) # v.name
      /\ \A g \in tags : g.vocab # v.id <=> NameOf(g.vocab) # v.name
  BY <1>4, Placed
<1>7. Entered' = {e \in Entered : e.heading # v.name}
  BY <1>2, <1>5, <1>6 DEF Entered
<1>8. Filings' = {f \in Filings : f.heading # v.name}
  BY <1>2, <1>5, <1>6 DEF Filings
<1>9. Content!Close(h)
  BY <1>2, <1>3, <1>7, <1>8 DEF Content!Close
<1>10. h \in Headings
  BY DEF Headings
<1> HIDE DEF h
<1> QED
  BY <1>9, <1>10 DEF Content!Next

\* Every statement is a step of Catalogue, or a read.
LEMMA StepMaps ==
    ASSUME IInv, IInv', [Next]_vars
    PROVE  [Content!Next]_Content!vars
<1>1. ASSUME UNCHANGED tables PROVE UNCHANGED Content!vars
  BY <1>1 DEF tables, Content!vars, Headings, Entered, Filings, NameOf
<1>2. \/ UNCHANGED tables
      \/ \E x \in filing : AddVocab(x) \/ AddTerm(x) \/ PutTag(x)
      \/ \E g \in tags : Untag(g)
      \/ \E x \in creating : InsertNode(x)
      \/ \E x \in updating : UpdateWrite(x)
      \/ \E n \in nodes : DeleteNode(n)
      \/ \E x \in dropping : Drop(x)
  BY DEF Next, vars, VocabularyCreate, TermCreate, TagNode, CreateNode, UpdateRead, DropCount,
         Abort, ResolveControlled, FindVocab, ResolveFree, FindNothing, UpdateCheck
<1> QED
  BY <1>1, <1>2, AddVocabMaps, AddTermMaps, PutTagMaps, UntagMaps, InsertNodeMaps,
     UpdateWriteMaps, DeleteNodeMaps, DropMaps

\* The content of db.ts, with its ids and its requests that read and then
\* write, is a Catalogue: what an editor does takes effect in one step, on the
\* names there are at that step.
THEOREM ImplementsCatalogue == Spec => ContentIsACatalogue
<1>1. Init => Content!Init
  BY DEF Init, Content!Init, Headings, Entered, Filings
<1> QED
  BY <1>1, StepMaps, Invariance, PTL DEF Spec, ContentIsACatalogue, Content!Spec

=============================================================================
