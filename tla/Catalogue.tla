------------------------------ MODULE Catalogue ------------------------------
(***************************************************************************)
(* The content as its editors know it, apart from ids, statements and the  *)
(* requests in flight of db.ts: headings by name, the entries under each,  *)
(* nodes, and which node is filed under which entry.  A heading goes with  *)
(* all that is under it and with nothing else; a heading made anew under   *)
(* an old name begins empty.                                               *)
(***************************************************************************)
CONSTANTS
    Names,    \* of headings
    Entries,  \* names of entries
    Ids,      \* of nodes
    Types, Texts

VARIABLES
    headings,  \* [name, kind]
    entries,   \* [heading, entry, origin]
    items,     \* nodes: [id, type, text]
    filings,   \* [item, heading, entry]
    known      \* ids of nodes there are and were

vars == <<headings, entries, items, filings, known>>

Kinds == {"tags", "categories"}

Init ==
    /\ headings = {} /\ entries = {} /\ items = {} /\ filings = {}
    /\ known = {}

Begin(name, kind) ==
    /\ \A h \in headings : h.name # name
    /\ headings' = headings \cup {[name |-> name, kind |-> kind]}
    /\ UNCHANGED <<entries, items, filings, known>>

\* Under a controlled heading ("categories") an entry comes of no tagging, but
\* of one that looked before the heading was made ("late").
Enter(h, name, origin) ==
    /\ h.kind = "categories" => origin # "tag"
    /\ \A e \in entries : e.heading = h.name => e.entry # name
    /\ entries' = entries \cup {[heading |-> h.name, entry |-> name, origin |-> origin]}
    /\ UNCHANGED <<headings, items, filings, known>>

\* Only what is there is filed, and under what is there.
File(n, e) ==
    /\ filings' = filings \cup {[item |-> n.id, heading |-> e.heading, entry |-> e.entry]}
    /\ UNCHANGED <<headings, entries, items, known>>

Unfile(f) ==
    /\ filings' = filings \ {f}
    /\ UNCHANGED <<headings, entries, items, known>>

\* A heading goes with all that is under it.
Close(h) ==
    /\ headings' = headings \ {h}
    /\ entries' = {e \in entries : e.heading # h.name}
    /\ filings' = {f \in filings : f.heading # h.name}
    /\ UNCHANGED <<items, known>>

Add(id, type, text) ==
    /\ id \notin known
    /\ items' = items \cup {[id |-> id, type |-> type, text |-> text]}
    /\ known' = known \cup {id}
    /\ UNCHANGED <<headings, entries, filings>>

\* An edit moves neither the node's id nor what it is filed under.
Edit(n, type, text) ==
    /\ items' = (items \ {n}) \cup {[id |-> n.id, type |-> type, text |-> text]}
    /\ UNCHANGED <<headings, entries, filings, known>>

Discard(n) ==
    /\ items' = items \ {n}
    /\ filings' = {f \in filings : f.item # n.id}
    /\ UNCHANGED <<headings, entries, known>>

Next ==
    \/ \E name \in Names, kind \in Kinds : Begin(name, kind)
    \/ \E h \in headings :
           \/ \E name \in Entries, origin \in {"create", "tag", "late"} : Enter(h, name, origin)
           \/ Close(h)
    \/ \E n \in items :
           \/ \E e \in entries : File(n, e)
           \/ \E type \in Types, text \in Texts : Edit(n, type, text)
           \/ Discard(n)
    \/ \E f \in filings : Unfile(f)
    \/ \E id \in Ids, type \in Types, text \in Texts : Add(id, type, text)

Spec == Init /\ [][Next]_vars

=============================================================================
