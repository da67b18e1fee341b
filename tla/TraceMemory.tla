----------------------------- MODULE TraceMemory -----------------------------
(***************************************************************************)
(* What the trace promises, apart from how trace.ts and janitor.ts keep    *)
(* it: every recorded read is in the log and in its day's memory at once;  *)
(* the log may lose rows at any time, the memory loses nothing until its   *)
(* keyword is forgotten, and then log and memory lose all of it together.  *)
(***************************************************************************)
EXTENDS Naturals

CONSTANTS
    Keywords,  \* what can be sought by a word, and forgotten
    Others,    \* terms and nodes, which are never forgotten
    Days

Keys == Keywords \cup Others

VARIABLES
    log,    \* the raw reads: [id, key, day]
    memory  \* reads by key and day

vars == <<log, memory>>

Init ==
    /\ log = {}
    /\ memory = [bucket \in Keys \X Days |-> 0]

Seek(k, d) ==
    /\ \E row \in log' \ log :
           /\ row.key = k
           /\ row.day = d
           /\ log' = log \cup {row}
    /\ memory' = [memory EXCEPT ![<<k, d>>] = @ + 1]

Evict ==
    /\ log' \subseteq log
    /\ UNCHANGED memory

Forget(k) ==
    /\ log' = {row \in log : row.key # k}
    /\ memory' = [bucket \in Keys \X Days |->
                   IF bucket[1] = k THEN 0 ELSE memory[bucket]]

Next ==
    \/ \E k \in Keys, d \in Days : Seek(k, d)
    \/ Evict
    \/ \E k \in Keywords : Forget(k)

Spec == Init /\ [][Next]_vars

=============================================================================
