-------------------------- MODULE TraceLedgerProofs --------------------------
(***************************************************************************)
(* Proofs about TraceLedger, for any keywords, budget, caps and number of  *)
(* digs in flight.                                                         *)
(***************************************************************************)
EXTENDS TraceLedger, FiniteSetTheorems, FunctionTheorems, TLAPS

Finite == IsFiniteSet(traces) /\ IsFiniteSet(digs)

\* Row ids and dig_seqs come from counters that never go back.
Numbered ==
    /\ \A row \in traces : row.id <= written /\ row.seq <= lastSeq
    /\ \A d \in digs : d.seq > 0 /\ d.seq <= lastSeq
    /\ \A c \in Slots :
           digging[c].phase = "inserted" => digging[c].seq <= lastSeq

\* A dig in flight has its keyword sought again.
Sought == \A c \in Slots : digging[c] # Idle => digging[c].key \notin forgotten

Ours == TypeOK /\ Finite /\ Numbered /\ Sought

IInv ==
    Ours /\ ForgottenStaysForgotten /\ TraceNamesItsDig /\ BudgetBounded

ForgetSome == \E s \in Spellings : Forget(s)
Record == \/ \E s \in Spellings : Search(s)
          \/ \E k \in Others : Read(k)
          \/ \E c \in Slots : DigTrace(c)
Start == \E c \in Slots, p \in Principals, s \in Spellings : DigStart(c, p, s)
Sweeping ==
    \/ JanitorStart \/ JanitorDays \/ JanitorCountTraces \/ JanitorCapTraces
    \/ JanitorCountDigs \/ JanitorCapDigs \/ JanitorSkip

\* The kinds of step there are.
LEMMA Kinds ==
  ASSUME [Next]_vars
  PROVE  \/ Record \/ ForgetSome \/ Start \/ Sweeping \/ Tick \/ UNCHANGED vars
         \/ \E c \in Slots : DigStamp(c) \/ DigInsert(c) \/ DigAbort(c)
BY DEF Next, Record, ForgetSome, Start, Sweeping

----------------------------------------------------------------------------
(* What kinds of step do to the tables. *)

LEMMA Constants == /\ \A s \in Spellings : KeyOf(s) # NoKey => KeyOf(s) \in Keywords
                   /\ Keywords \subseteq Keys
                   /\ Others \subseteq Keys
                   /\ DigRow = [seq : Nat, key : Keywords, by : Principals, at : Nat]
  BY LedgerAssumption DEF KeyOf, Keywords, Keys, DigRow

\* The day of the clock is a day there is a bucket for.
LEMMA Today == TypeOK => now \in Nat /\ DayOf(now) \in Days
  BY LedgerAssumption DEF TypeOK

\* A step that records: one row and one read, both of the same key and day.
LEMMA Records ==
  ASSUME TypeOK, Sought, Record
  PROVE  \E k \in Keys, n \in Nat :
           /\ RecordTrace(k, n)
           /\ \/ n = 0
              \/ \E c \in Slots : /\ digging[c].phase = "inserted"
                                  /\ digging[c].key = k
                                  /\ digging[c].seq = n
           /\ \A c \in Slots : digging'[c] = digging[c] \/ digging'[c] = Idle
           /\ \A c \in Slots :
                 digging[c].phase \in {"admitted", "reading"} => digging'[c] = digging[c]
           /\ digging' \in [Slots -> Dig \cup {Idle}]
           /\ forgotten' \subseteq forgotten
           /\ k \notin forgotten'
           /\ UNCHANGED <<now, digs, lastSeq, sweep>>
<1>1. CASE \E s \in Spellings : Search(s)
  <2>1. PICK s \in Spellings : Search(s)
    BY <1>1
  <2>2. KeyOf(s) \in Keys
    BY <2>1, Constants DEF Search
  <2> QED
    BY <2>1, <2>2 DEF Search, TypeOK
<1>2. CASE \E k \in Others : Read(k)
  <2>1. PICK k \in Others : Read(k)
    BY <1>2
  <2>2. k \in Keys /\ k \notin forgotten
    BY LedgerAssumption, Constants DEF TypeOK
  <2> QED
    BY <2>1, <2>2 DEF Read, TypeOK
<1>3. CASE \E c \in Slots : DigTrace(c)
  <2>1. PICK c \in Slots : DigTrace(c)
    BY <1>3
  <2>2. digging[c] \in Dig
    BY <2>1 DEF DigTrace, TypeOK, Idle
  <2>3. digging[c].key \in Keys /\ digging[c].seq \in Nat /\ digging[c] # Idle
    BY <2>1, <2>2, Constants DEF Dig, Idle, DigTrace
  <2>4. /\ digging' \in [Slots -> Dig \cup {Idle}]
        /\ \A b \in Slots : digging'[b] = IF b = c THEN Idle ELSE digging[b]
    BY <2>1 DEF DigTrace, TypeOK
  <2> QED
    BY <2>1, <2>3, <2>4 DEF DigTrace, TypeOK, Sought
<1> QED
  BY <1>1, <1>2, <1>3 DEF Record

\* A forget takes away what is kept under the key its spelling is recorded under.
ForgetOf(k) ==
    /\ traces' \subseteq traces /\ \A row \in traces' : row.key # k
    /\ digs' \subseteq digs /\ \A row \in digs' : row.key # k
    /\ days' \in [Keys \X Days -> Nat]
    /\ \A j \in Keys, d \in Days : days'[<<j, d>>] = IF j = k THEN 0 ELSE days[<<j, d>>]
    /\ forgotten' \subseteq forgotten \cup {k}
    /\ (\E c \in Slots : digging[c] # Idle /\ digging[c].key = k)
          => forgotten' = forgotten
    /\ sweep' \in Sweep
    /\ UNCHANGED <<now, written, lastSeq, digging>>

LEMMA Forgets ==
  ASSUME TypeOK, ForgetSome
  PROVE  \E k \in Keywords : ForgetOf(k)
<1>1. PICK s \in Spellings : Forget(s)
  BY DEF ForgetSome
<1>2. KeyOf(s) \in Keywords
  BY <1>1, Constants DEF Forget, ForgetKey
<1>3. sweep' \in Sweep
  <2>1. sweep' = [sweep EXCEPT !.crossed = sweep.step \in {"traces.cap", "digs.cap"}]
    BY <1>1 DEF Forget
  <2>2. (sweep.step \in {"traces.cap", "digs.cap"}) \in BOOLEAN
    OBVIOUS
  <2>3. \A b \in BOOLEAN : [sweep EXCEPT !.crossed = b] \in Sweep
    BY DEF TypeOK, Sweep
  <2> QED
    BY <2>1, <2>2, <2>3, Zenon
<1>4. /\ days' \in [Keys \X Days -> Nat]
      /\ \A j \in Keys, d \in Days :
             days'[<<j, d>>] = IF j = KeyOf(s) THEN 0 ELSE days[<<j, d>>]
  <2>1. days' = [bucket \in Keys \X Days |->
                    IF bucket[1] = KeyOf(s) THEN 0 ELSE days[bucket]]
    BY <1>1 DEF Forget, ForgetKey
  <2> QED
    BY <2>1 DEF TypeOK
<1>5. /\ traces' = {row \in traces : row.key # KeyOf(s)}
      /\ digs' = {row \in digs : row.key # KeyOf(s)}
      /\ UNCHANGED <<now, written, lastSeq, digging>>
  BY <1>1 DEF Forget, ForgetKey
<1>6. /\ forgotten' \subseteq forgotten \cup {KeyOf(s)}
      /\ (\E c \in Slots : digging[c] # Idle /\ digging[c].key = KeyOf(s))
            => forgotten' = forgotten
  BY <1>1 DEF Forget
<1>7. ForgetOf(KeyOf(s))
  BY <1>3, <1>4, <1>5, <1>6 DEF ForgetOf
<1> QED
  BY <1>2, <1>7

\* The janitor only takes rows away, and only from two tables.
LEMMA Sweeps ==
  ASSUME TypeOK, Finite, Sweeping
  PROVE  /\ traces' \subseteq traces
         /\ digs' \subseteq digs
         /\ sweep' \in Sweep
         /\ UNCHANGED <<now, days, written, lastSeq, digging, forgotten>>
<1>1. /\ traces' \subseteq traces
      /\ digs' \subseteq digs
      /\ UNCHANGED <<now, days, written, lastSeq, digging, forgotten>>
  BY DEF Sweeping, JanitorStart, JanitorDays, JanitorCountTraces,
     JanitorCapTraces, JanitorCountDigs, JanitorCapDigs, JanitorSkip
<1> DEFINE Steps == {"idle", "traces.days", "traces.count", "traces.cap",
                     "digs.count", "digs.cap"}
<1>2. \A step \in Steps : At(step) \in Sweep
  BY DEF At, Sweep
<1>8. \A step \in Steps : \A n \in Nat : [At(step) EXCEPT !.over = n] \in Sweep
  BY <1>2 DEF Sweep
<1>9. \A step \in Steps : \A n \in Int : [At(step) EXCEPT !.cutoff = n] \in Sweep
  BY <1>2 DEF Sweep
<1>3. CASE JanitorStart
  BY <1>3, <1>9, LedgerAssumption DEF JanitorStart, TypeOK
<1>4. CASE JanitorDays \/ JanitorCapTraces \/ JanitorCapDigs
  BY <1>2, <1>4 DEF JanitorDays, JanitorCapTraces, JanitorCapDigs
<1>5. CASE JanitorCountTraces
  <2>1. Cardinality(traces) - TraceCap \in Int
    BY FS_CardinalityType, LedgerAssumption DEF Finite
  <2> QED
    BY <1>2, <1>5, <1>8, <2>1 DEF JanitorCountTraces, Counted, Excess
<1>6. CASE JanitorCountDigs
  <2>1. Cardinality(digs) - DigCap \in Int
    BY FS_CardinalityType, LedgerAssumption DEF Finite
  <2> QED
    BY <1>2, <1>6, <1>8, <2>1 DEF JanitorCountDigs, Counted, Excess
<1>7. CASE JanitorSkip
  <2>1. \E step \in {"traces.count", "digs.count", "idle"} : sweep' = At(step)
    BY <1>7 DEF JanitorSkip
  <2> QED
    BY <1>1, <1>2, <2>1
<1> QED
  BY <1>1, <1>3, <1>4, <1>5, <1>6, <1>7 DEF Sweeping

----------------------------------------------------------------------------
(* The invariant, part by part. *)

\* There is room for the first dig.
LEMMA Room == Budget \in Nat /\ Cardinality(Slots) \in Nat /\ 0 < Budget + Cardinality(Slots)
  BY LedgerAssumption, FS_CardinalityType

LEMMA InitIInv == Init => IInv
<1> SUFFICES ASSUME Init PROVE IInv
  OBVIOUS
<1>1. TypeOK
  <2>1. sweep \in Sweep
    BY DEF Init, At, Sweep
  <2>2. days \in [Keys \X Days -> Nat]
    BY DEF Init
  <2> QED
    BY <2>1, <2>2, LedgerAssumption DEF Init, TypeOK
<1>2. Finite
  BY FS_EmptySet DEF Init, Finite
<1>3. Numbered /\ Sought /\ ForgottenStaysForgotten /\ TraceNamesItsDig
  BY DEF Init, Numbered, Sought, Idle, ForgottenStaysForgotten, TraceNamesItsDig
<1>4. BudgetBounded
  <2>1. \A p \in Principals : Spent(p) = {} /\ Under(p) = {}
    BY DEF Init, Spent, Under, Idle
  <2> QED
    BY <2>1, FS_EmptySet, Room DEF BudgetBounded
<1> QED
  BY <1>1, <1>2, <1>3, <1>4 DEF IInv, Ours

\* Types.
LEMMA NextTypes == Ours /\ [Next]_vars => TypeOK' /\ Finite'
<1> SUFFICES ASSUME Ours, [Next]_vars PROVE TypeOK' /\ Finite'
  OBVIOUS
<1> USE DEF Ours
<1>1. CASE Record
  <2>1. PICK k \in Keys, n \in Nat :
           /\ RecordTrace(k, n)
           /\ digging' \in [Slots -> Dig \cup {Idle}]
           /\ forgotten' \subseteq forgotten
           /\ UNCHANGED <<now, digs, lastSeq, sweep>>
    BY <1>1, Records
  <2>2. days' \in [Keys \X Days -> Nat]
    BY <2>1, Today DEF RecordTrace, TypeOK
  <2>3. written' \in Nat /\ traces' \subseteq Trace
    BY <2>1, Today DEF RecordTrace, TypeOK, Trace
  <2>4. IsFiniteSet(traces')
    BY <2>1, FS_AddElement DEF RecordTrace, Finite
  <2> QED
    BY <2>1, <2>2, <2>3, <2>4 DEF TypeOK, Finite
<1>2. CASE ForgetSome
  <2>1. PICK k \in Keywords : ForgetOf(k)
    BY <1>2, Forgets
  <2>2. IsFiniteSet(traces') /\ IsFiniteSet(digs')
    BY <2>1, FS_Subset DEF Finite, ForgetOf
  <2> QED
    BY <2>1, <2>2 DEF TypeOK, Finite, ForgetOf
<1>3. CASE Start
  <2>1. PICK c \in Slots, p \in Principals, s \in Spellings : DigStart(c, p, s)
    BY <1>3 DEF Start
  <2>2. KeyOf(s) \in Keywords
    BY <2>1, Constants DEF DigStart
  <2>3. [phase |-> "admitted", key |-> KeyOf(s), by |-> p, at |-> 0, seq |-> 0] \in Dig
    BY <2>2 DEF Dig
  <2> HIDE DEF Dig
  <2> QED
    BY <2>1, <2>3 DEF DigStart, TypeOK, Finite
<1>4. CASE Sweeping
  <2>1. IsFiniteSet(traces') /\ IsFiniteSet(digs')
    BY <1>4, Sweeps, FS_Subset DEF Finite
  <2> QED
    BY <1>4, <2>1, Sweeps DEF TypeOK, Finite
<1>5. CASE Tick
  BY <1>5, LedgerAssumption DEF Tick, TypeOK, Finite
<1>6. CASE UNCHANGED vars
  BY <1>6 DEF vars, TypeOK, Finite
<1>7. ASSUME NEW c \in Slots, DigStamp(c) PROVE TypeOK' /\ Finite'
  <2>1. digging[c] \in Dig
    BY <1>7 DEF DigStamp, TypeOK, Idle
  <2>2. [digging[c] EXCEPT !.phase = "reading", !.at = now] \in Dig
    BY <2>1, Today DEF Dig
  <2>3. digging' = [digging EXCEPT ![c] = [digging[c] EXCEPT !.phase = "reading", !.at = now]]
    BY <1>7 DEF DigStamp, TypeOK
  <2> QED
    BY <1>7, <2>2, <2>3 DEF DigStamp, TypeOK, Finite
<1>8. ASSUME NEW c \in Slots, DigInsert(c) PROVE TypeOK' /\ Finite'
  <2>1. digging[c] \in Dig
    BY <1>8 DEF DigInsert, TypeOK, Idle
  <2>2. lastSeq' \in Nat /\ lastSeq' = NextSeq
    BY <1>8 DEF DigInsert, TypeOK, NextSeq
  <2>3. [digging[c] EXCEPT !.phase = "inserted", !.seq = NextSeq] \in Dig
    BY <2>1, <2>2 DEF Dig
  <2>4. digging' = [digging EXCEPT ![c] = [digging[c] EXCEPT !.phase = "inserted", !.seq = NextSeq]]
    BY <1>8 DEF DigInsert, TypeOK
  <2>5. [seq |-> NextSeq, key |-> digging[c].key, by |-> digging[c].by, at |-> digging[c].at]
            \in DigRow
    BY <2>1, <2>2 DEF Dig, DigRow
  <2>6. IsFiniteSet(digs')
    BY <1>8, FS_AddElement DEF DigInsert, Finite
  <2> QED
    BY <1>8, <2>2, <2>3, <2>4, <2>5, <2>6 DEF DigInsert, TypeOK, Finite
<1>9. ASSUME NEW c \in Slots, DigAbort(c) PROVE TypeOK' /\ Finite'
  BY <1>9 DEF DigAbort, TypeOK, Finite
<1> QED
  BY <1>1, <1>2, <1>3, <1>4, <1>5, <1>6, <1>7, <1>8, <1>9, Kinds

\* Counters.
LEMMA NextNumbered == Ours /\ [Next]_vars => Numbered'
<1> SUFFICES ASSUME Ours, [Next]_vars PROVE Numbered'
  OBVIOUS
<1> USE DEF Ours
<1>0. /\ lastSeq \in Nat /\ written \in Nat
      /\ \A row \in traces : row.id \in Nat /\ row.seq \in Nat
      /\ \A d \in digs : d.seq \in Nat
      /\ \A c \in Slots : digging[c].phase # "idle" => digging[c] \in Dig
      /\ \A c \in Slots : digging[c] \in Dig => digging[c].seq \in Nat
  BY DEF TypeOK, Trace, DigRow, Dig, Idle
<1>1. CASE Record
  <2>1. PICK k \in Keys, n \in Nat :
           /\ RecordTrace(k, n)
           /\ \/ n = 0
              \/ \E c \in Slots : digging[c].phase = "inserted" /\ digging[c].seq = n
           /\ \A c \in Slots : digging'[c] = digging[c] \/ digging'[c] = Idle
           /\ UNCHANGED <<digs, lastSeq>>
    BY <1>1, Records
  <2>2. n <= lastSeq
    BY <1>0, <2>1 DEF Numbered
  <2> QED
    BY <1>0, <2>1, <2>2 DEF Numbered, RecordTrace, Idle
<1>2. CASE ForgetSome
  BY <1>2, Forgets DEF ForgetOf, Numbered
<1>3. CASE Start
  BY <1>3 DEF Start, DigStart, Numbered, TypeOK
<1>4. CASE Sweeping
  BY <1>4, Sweeps DEF Numbered
<1>5. CASE Tick \/ UNCHANGED vars
  BY <1>5 DEF Tick, vars, Numbered
<1>6. ASSUME NEW c \in Slots, DigStamp(c) \/ DigAbort(c) PROVE Numbered'
  <2>1. /\ \A b \in Slots : digging'[b].phase = "inserted" => digging'[b] = digging[b]
        /\ UNCHANGED <<traces, digs, written, lastSeq>>
    BY <1>0, <1>6 DEF DigStamp, DigAbort, TypeOK, Idle, Dig
  <2> QED
    BY <2>1 DEF Numbered
<1>7. ASSUME NEW c \in Slots, DigInsert(c) PROVE Numbered'
  <2>1. lastSeq' = lastSeq + 1 /\ UNCHANGED <<traces, written>>
    BY <1>7 DEF DigInsert, NextSeq
  <2>2. \A d \in digs' : d \in digs \/ d.seq = lastSeq + 1
    BY <1>7 DEF DigInsert, NextSeq
  <2>3. \A b \in Slots : digging'[b] = digging[b] \/ digging'[b].seq = lastSeq + 1
    BY <1>7, <1>0 DEF DigInsert, NextSeq, TypeOK, Dig
  <2>4. \A b \in Slots : digging[b].phase = "inserted" => digging[b].seq \in Nat
    BY <1>0
  <2> QED
    BY <1>0, <2>1, <2>2, <2>3, <2>4 DEF Numbered
<1> QED
  BY <1>1, <1>2, <1>3, <1>4, <1>5, <1>6, <1>7, Kinds

\* Keywords in flight.
LEMMA NextSought == Ours /\ [Next]_vars => Sought'
<1> SUFFICES ASSUME Ours, [Next]_vars PROVE Sought'
  OBVIOUS
<1> USE DEF Ours
<1>1. CASE Record
  BY <1>1, Records DEF Sought
<1>2. CASE ForgetSome
  BY <1>2, Forgets DEF ForgetOf, Sought
<1>3. CASE Start
  BY <1>3 DEF Start, DigStart, Sought, TypeOK
<1>4. CASE Sweeping
  BY <1>4, Sweeps DEF Sought
<1>5. CASE Tick \/ UNCHANGED vars
  BY <1>5 DEF Tick, vars, Sought
<1>6. ASSUME NEW c \in Slots, DigStamp(c) \/ DigInsert(c) \/ DigAbort(c)
      PROVE  Sought'
  <2>1. \A b \in Slots : digging'[b] # Idle =>
            digging[b] # Idle /\ digging'[b].key = digging[b].key
    BY <1>6 DEF DigStamp, DigInsert, DigAbort, TypeOK, Dig, Idle
  <2> QED
    BY <1>6, <2>1 DEF DigStamp, DigInsert, DigAbort, Sought
<1> QED
  BY <1>1, <1>2, <1>3, <1>4, <1>5, <1>6, Kinds

\* What was forgotten comes back only with a step that seeks it.
LEMMA NextForgotten ==
  Ours /\ ForgottenStaysForgotten /\ [Next]_vars => ForgottenStaysForgotten'
<1> SUFFICES ASSUME Ours, ForgottenStaysForgotten, [Next]_vars
             PROVE  ForgottenStaysForgotten'
  OBVIOUS
<1> USE DEF Ours
<1>0. forgotten \subseteq Keys /\ now \in Nat /\ DayOf(now) \in Days
  BY Constants, Today DEF TypeOK
<1>1. CASE Record
  <2>1. PICK k \in Keys, n \in Nat :
           /\ RecordTrace(k, n)
           /\ forgotten' \subseteq forgotten
           /\ k \notin forgotten'
           /\ UNCHANGED digs
    BY <1>1, Records
  <2>2. \A row \in traces' : row \in traces \/ row.key = k
    BY <2>1 DEF RecordTrace
  <2>3. \A j \in Keys, d \in Days : j # k => days'[<<j, d>>] = days[<<j, d>>]
    BY <1>0, <2>1 DEF RecordTrace, TypeOK
  <2> QED
    BY <1>0, <2>1, <2>2, <2>3 DEF ForgottenStaysForgotten
<1>2. CASE ForgetSome
  <2>1. PICK k \in Keywords : ForgetOf(k)
    BY <1>2, Forgets
  <2>2. forgotten' \subseteq Keys
    BY <1>0, <2>1, Constants DEF ForgetOf
  <2> QED
    BY <1>0, <2>1, <2>2 DEF ForgetOf, ForgottenStaysForgotten
<1>3. CASE Start
  BY <1>3 DEF Start, DigStart, ForgottenStaysForgotten
<1>4. CASE Sweeping
  BY <1>4, Sweeps DEF ForgottenStaysForgotten
<1>5. CASE Tick \/ UNCHANGED vars
  BY <1>5 DEF Tick, vars, ForgottenStaysForgotten
<1>6. ASSUME NEW c \in Slots, DigStamp(c) \/ DigAbort(c)
      PROVE  ForgottenStaysForgotten'
  BY <1>6 DEF DigStamp, DigAbort, ForgottenStaysForgotten
<1>7. ASSUME NEW c \in Slots, DigInsert(c) PROVE ForgottenStaysForgotten'
  <2>1. digging[c].key \notin forgotten
    BY <1>7 DEF DigInsert, Sought, Idle
  <2>2. \A row \in digs' : row \in digs \/ row.key = digging[c].key
    BY <1>7 DEF DigInsert
  <2> QED
    BY <1>7, <2>1, <2>2 DEF DigInsert, ForgottenStaysForgotten
<1> QED
  BY <1>1, <1>2, <1>3, <1>4, <1>5, <1>6, <1>7, Kinds

\* A trace is written for the dig it names, and the next dig takes a number
\* above every number in use.
LEMMA NextNames ==
  Ours /\ TraceNamesItsDig /\ [Next]_vars => TraceNamesItsDig'
<1> SUFFICES ASSUME Ours, TraceNamesItsDig, [Next]_vars PROVE TraceNamesItsDig'
  OBVIOUS
<1> USE DEF Ours
<1>0. /\ lastSeq \in Nat
      /\ \A row \in traces : row.seq \in Nat /\ row.seq <= lastSeq
      /\ \A d \in digs : d.seq \in Nat /\ d.seq > 0 /\ d.seq <= lastSeq
      /\ \A c \in Slots : digging[c].phase # "idle" => digging[c] \in Dig
      /\ \A c \in Slots : digging[c].phase = "inserted" =>
            digging[c].seq \in Nat /\ digging[c].seq <= lastSeq
  BY DEF TypeOK, Trace, DigRow, Dig, Idle, Numbered
<1>1. CASE Record
  <2>1. PICK k \in Keys, n \in Nat :
           /\ RecordTrace(k, n)
           /\ \/ n = 0
              \/ \E c \in Slots : /\ digging[c].phase = "inserted"
                                  /\ digging[c].key = k
                                  /\ digging[c].seq = n
           /\ \A c \in Slots : digging'[c] = digging[c] \/ digging'[c] = Idle
           /\ UNCHANGED digs
    BY <1>1, Records
  <2>2. \A d \in digs : n = d.seq => k = d.key
    BY <1>0, <2>1 DEF TraceNamesItsDig
  <2>3. \A row \in traces' : row \in traces \/ (row.key = k /\ row.seq = n)
    BY <2>1 DEF RecordTrace
  <2> QED
    BY <2>1, <2>2, <2>3 DEF TraceNamesItsDig, Idle
<1>2. CASE ForgetSome
  <2>1. /\ traces' \subseteq traces /\ digs' \subseteq digs
        /\ UNCHANGED digging
    BY <1>2, Forgets DEF ForgetOf
  <2> QED
    BY <2>1 DEF TraceNamesItsDig
<1>3. CASE Start
  BY <1>3 DEF Start, DigStart, TypeOK, TraceNamesItsDig
<1>4. CASE Sweeping
  BY <1>4, Sweeps DEF TraceNamesItsDig
<1>5. CASE Tick \/ UNCHANGED vars
  BY <1>5 DEF Tick, vars, TraceNamesItsDig
<1>6. ASSUME NEW c \in Slots, DigStamp(c) \/ DigAbort(c) PROVE TraceNamesItsDig'
  <2>1. /\ \A b \in Slots : digging'[b].phase = "inserted" => digging'[b] = digging[b]
        /\ UNCHANGED <<traces, digs>>
    BY <1>0, <1>6 DEF DigStamp, DigAbort, TypeOK, Idle, Dig
  <2> QED
    BY <2>1 DEF TraceNamesItsDig
<1>7. ASSUME NEW c \in Slots, DigInsert(c) PROVE TraceNamesItsDig'
  <2>1. UNCHANGED traces
    BY <1>7 DEF DigInsert
  <2>2. \A d \in digs' :
            d \in digs \/ (/\ d.seq = lastSeq + 1
                           /\ d.key = digging[c].key
                           /\ d.by = digging[c].by)
    BY <1>7 DEF DigInsert, NextSeq
  <2>3. \A b \in Slots : b # c => digging'[b] = digging[b]
    BY <1>7 DEF DigInsert, TypeOK
  <2>4. /\ digging'[c].seq = lastSeq + 1
        /\ digging'[c].key = digging[c].key
        /\ digging'[c].by = digging[c].by
    BY <1>0, <1>7 DEF DigInsert, TypeOK, Dig, NextSeq
  <2>5. \A row \in traces, d \in digs' : row.seq = d.seq => row.key = d.key
    BY <1>0, <2>2 DEF TraceNamesItsDig
  <2>6. \A b \in Slots, d \in digs' :
           digging'[b].phase = "inserted" /\ digging'[b].seq = d.seq
              => digging'[b].key = d.key /\ digging'[b].by = d.by
    <3>1. ASSUME NEW b \in Slots, NEW d \in digs', b # c,
                 digging'[b].phase = "inserted", digging'[b].seq = d.seq
          PROVE  digging'[b].key = d.key /\ digging'[b].by = d.by
      BY <1>0, <2>2, <2>3, <3>1 DEF TraceNamesItsDig
    <3>2. ASSUME NEW d \in digs', digging'[c].seq = d.seq
          PROVE  digging'[c].key = d.key /\ digging'[c].by = d.by
      BY <1>0, <2>2, <2>4, <3>2
    <3> QED
      BY <3>1, <3>2
  <2> QED
    BY <2>1, <2>5, <2>6 DEF TraceNamesItsDig
<1> QED
  BY <1>1, <1>2, <1>3, <1>4, <1>5, <1>6, <1>7, Kinds

----------------------------------------------------------------------------
(* The budget. *)

\* One more element is at most one more.
LEMMA AddOne ==
  ASSUME NEW S, NEW x, IsFiniteSet(S)
  PROVE  /\ IsFiniteSet(S \cup {x})
         /\ Cardinality(S) \in Nat
         /\ Cardinality(S \cup {x}) \in Nat
         /\ Cardinality(S \cup {x}) <= Cardinality(S) + 1
<1>1. /\ IsFiniteSet(S \cup {x})
      /\ Cardinality(S \cup {x}) = IF x \in S THEN Cardinality(S) ELSE Cardinality(S) + 1
  BY FS_AddElement
<1> QED
  BY <1>1, FS_CardinalityType

LEMMA SpentFinite ==
  ASSUME TypeOK, Finite, NEW p \in Principals
  PROVE  /\ IsFiniteSet(Spent(p)) /\ Cardinality(Spent(p)) \in Nat
         /\ IsFiniteSet(Under(p)) /\ Cardinality(Under(p)) \in Nat
         /\ Cardinality(Under(p)) <= Cardinality(Slots)
<1>1. Spent(p) \subseteq digs /\ Under(p) \subseteq Slots
  BY DEF Spent, Under
<1> QED
  BY <1>1, FS_Subset, FS_CardinalityType, LedgerAssumption DEF Finite

\* A step that adds no dig to the record, none to those under way, and does not
\* turn the clock back keeps the budget.
LEMMA NoMoreDigs ==
  ASSUME TypeOK, Finite, TypeOK', Finite', BudgetBounded,
         digs' \subseteq digs, now <= now',
         \A p \in Principals : Under(p)' \subseteq Under(p)
  PROVE  BudgetBounded'
<1> SUFFICES ASSUME NEW p \in Principals
             PROVE  Cardinality(Spent(p)') + Cardinality(Under(p)')
                        < Budget + Cardinality(Slots)
  BY DEF BudgetBounded
<1>1. Spent(p)' \subseteq Spent(p)
  BY LedgerAssumption DEF Spent, TypeOK, DigRow
<1>2. /\ Cardinality(Spent(p)') \in Nat /\ Cardinality(Under(p)') \in Nat
      /\ Cardinality(Spent(p)') <= Cardinality(Spent(p))
      /\ Cardinality(Under(p)') <= Cardinality(Under(p))
  BY <1>1, SpentFinite, FS_Subset, FS_CardinalityType
<1>3. Cardinality(Spent(p)) + Cardinality(Under(p)) < Budget + Cardinality(Slots)
  BY DEF BudgetBounded
<1> QED
  BY <1>2, <1>3, SpentFinite, Room

LEMMA NextBudget == Ours /\ BudgetBounded /\ [Next]_vars => BudgetBounded'
<1> SUFFICES ASSUME Ours, BudgetBounded, [Next]_vars PROVE BudgetBounded'
  OBVIOUS
<1>0. TypeOK /\ Finite /\ TypeOK' /\ Finite'
  BY NextTypes DEF Ours
<1>t. now \in Nat /\ now' \in Nat
  BY <1>0, LedgerAssumption DEF TypeOK
<1>1. CASE Record
  <2>1. /\ UNCHANGED <<digs, now>>
        /\ \A c \in Slots : digging'[c] = digging[c] \/ digging'[c] = Idle
    BY <1>0, <1>1, Records DEF Ours
  <2>2. \A p \in Principals : Under(p)' \subseteq Under(p)
    BY <2>1 DEF Under, Idle
  <2> QED
    BY <1>0, <1>t, <2>1, <2>2, NoMoreDigs
<1>2. CASE ForgetSome
  <2>1. digs' \subseteq digs /\ UNCHANGED <<now, digging>>
    BY <1>0, <1>2, Forgets DEF ForgetOf
  <2>2. \A p \in Principals : Under(p)' \subseteq Under(p)
    BY <2>1 DEF Under
  <2> QED
    BY <1>0, <1>t, <2>1, <2>2, NoMoreDigs
<1>3. CASE Start
  <2>1. PICK c \in Slots, p \in Principals, s \in Spellings : DigStart(c, p, s)
    BY <1>3 DEF Start
  <2>2. UNCHANGED <<digs, now>>
    BY <2>1 DEF DigStart
  <2>3. ASSUME NEW q \in Principals
        PROVE  Cardinality(Spent(q)') + Cardinality(Under(q)')
                   < Budget + Cardinality(Slots)
    <3>1. Spent(q)' = Spent(q)
      BY <2>2 DEF Spent
    <3>2. CASE q = p
      <4>1. Cardinality(Spent(q)) < Budget
        BY <2>1, <3>2 DEF DigStart, Affords
      <4>2. Under(q)' \subseteq Slots
        BY DEF Under
      <4>3. Cardinality(Under(q)') <= Cardinality(Slots)
            /\ Cardinality(Under(q)') \in Nat
        BY <4>2, FS_Subset, FS_CardinalityType, LedgerAssumption
      <4> QED
        BY <1>0, <3>1, <4>1, <4>3, Room, SpentFinite
    <3>3. CASE q # p
      <4>1. Under(q)' = Under(q)
        BY <1>0, <2>1, <3>3 DEF DigStart, Under, Idle, TypeOK
      <4> QED
        BY <3>1, <4>1 DEF BudgetBounded
    <3> QED
      BY <3>2, <3>3
  <2> QED
    BY <2>3 DEF BudgetBounded
<1>4. CASE Sweeping
  <2>1. digs' \subseteq digs /\ UNCHANGED <<now, digging>>
    BY <1>0, <1>4, Sweeps
  <2>2. \A p \in Principals : Under(p)' \subseteq Under(p)
    BY <2>1 DEF Under
  <2> QED
    BY <1>0, <1>t, <2>1, <2>2, NoMoreDigs
<1>5. CASE Tick \/ UNCHANGED vars
  <2>1. UNCHANGED <<digs, digging>> /\ now <= now'
    BY <1>5, <1>t DEF Tick, vars
  <2>2. \A p \in Principals : Under(p)' \subseteq Under(p)
    BY <2>1 DEF Under
  <2> QED
    BY <1>0, <1>t, <2>1, <2>2, NoMoreDigs
<1>6. ASSUME NEW c \in Slots, DigStamp(c) \/ DigAbort(c) PROVE BudgetBounded'
  <2>1. UNCHANGED <<digs, now>>
    BY <1>6 DEF DigStamp, DigAbort
  <2>2. \A b \in Slots : digging'[b].phase \in {"admitted", "reading"} =>
            /\ digging[b].phase \in {"admitted", "reading"}
            /\ digging'[b].by = digging[b].by
    BY <1>0, <1>6 DEF DigStamp, DigAbort, TypeOK, Dig, Idle
  <2>3. \A p \in Principals : Under(p)' \subseteq Under(p)
    BY <2>2 DEF Under
  <2> QED
    BY <1>0, <1>t, <2>1, <2>3, NoMoreDigs
<1>7. ASSUME NEW c \in Slots, DigInsert(c) PROVE BudgetBounded'
  <2> DEFINE new == [seq |-> NextSeq, key |-> digging[c].key,
                     by |-> digging[c].by, at |-> digging[c].at]
  <2>1. digs' = digs \cup {new} /\ UNCHANGED now
    BY <1>7 DEF DigInsert
  <2>2. ASSUME NEW q \in Principals
        PROVE  Cardinality(Spent(q)') + Cardinality(Under(q)')
                   < Budget + Cardinality(Slots)
    <3>1. \A b \in Slots : b # c => digging'[b] = digging[b]
      BY <1>0, <1>7 DEF DigInsert, TypeOK
    <3>2. digging'[c].phase = "inserted"
      BY <1>0, <1>7 DEF DigInsert, TypeOK, Dig, Idle
    <3>3. Under(q)' = Under(q) \ {c}
      BY <3>1, <3>2 DEF Under
    <3>4. /\ Cardinality(Spent(q)) \in Nat /\ Cardinality(Under(q)) \in Nat
          /\ Cardinality(Spent(q)) + Cardinality(Under(q)) < Budget + Cardinality(Slots)
      BY <1>0, SpentFinite DEF BudgetBounded
    <3>5. CASE digging[c].by = q
      <4>1. c \in Under(q)
        BY <1>7, <3>5 DEF DigInsert, Under
      <4>2. Cardinality(Under(q)') = Cardinality(Under(q)) - 1
        BY <1>0, <3>3, <4>1, SpentFinite, FS_RemoveElement
      <4>3. Spent(q)' \subseteq Spent(q) \cup {new}
        BY <2>1 DEF Spent
      <4>4. /\ Cardinality(Spent(q)') \in Nat
            /\ Cardinality(Spent(q)') <= Cardinality(Spent(q)) + 1
        <5>1. IsFiniteSet(Spent(q))
          BY <1>0, SpentFinite
        <5>2. /\ IsFiniteSet(Spent(q) \cup {new})
              /\ Cardinality(Spent(q) \cup {new}) \in Nat
              /\ Cardinality(Spent(q) \cup {new}) <= Cardinality(Spent(q)) + 1
          BY <5>1, AddOne
        <5>4. /\ IsFiniteSet(Spent(q)')
              /\ Cardinality(Spent(q)') <= Cardinality(Spent(q) \cup {new})
          BY <4>3, <5>2, FS_Subset
        <5> QED
          BY <3>4, <5>2, <5>4, FS_CardinalityType
      <4> QED
        BY <3>4, <4>2, <4>4, Room
    <3>6. CASE digging[c].by # q
      <4>1. Spent(q)' = Spent(q)
        BY <2>1, <3>6 DEF Spent
      <4>2. Under(q)' = Under(q)
        BY <3>3, <3>6 DEF Under
      <4> QED
        BY <3>4, <4>1, <4>2
    <3> QED
      BY <3>5, <3>6
  <2> QED
    BY <2>2 DEF BudgetBounded
<1> QED
  BY <1>1, <1>2, <1>3, <1>4, <1>5, <1>6, <1>7, Kinds

LEMMA Invariance == Spec => []IInv
<1>1. IInv /\ [Next]_vars => IInv'
  BY NextTypes, NextNumbered, NextSought, NextForgotten, NextNames, NextBudget
     DEF IInv, Ours
<1> QED
  BY <1>1, InitIInv, PTL DEF Spec

----------------------------------------------------------------------------
(* The refinement, and the buckets. *)

\* Every step of the ledger is a step of TraceMemory or changes nothing of it.
LEMMA StepKeepsThePromise == IInv /\ [Next]_vars => [Memory!Next]_Memory!vars
<1> SUFFICES ASSUME IInv, [Next]_vars PROVE [Memory!Next]_Memory!vars
  OBVIOUS
<1>0. Ours
  BY DEF IInv
<1> DEFINE Seen(row) == [id |-> row.id, key |-> row.key, day |-> DayOf(row.at)]
<1>l. Log = {Seen(row) : row \in traces} /\ Log' = {Seen(row) : row \in traces'}
  BY DEF Log
<1>1. CASE Record
  <2>1. PICK k \in Keys, n \in Nat : RecordTrace(k, n) /\ UNCHANGED now
    BY <1>0, <1>1, Records DEF Ours
  <2> DEFINE new == [id |-> written + 1, key |-> k, at |-> now, seq |-> n]
  <2>2. DayOf(now) \in Days
    BY <1>0, Today DEF Ours
  <2>3. traces' = traces \cup {new}
    BY <2>1 DEF RecordTrace
  <2>4. Seen(new) = [id |-> written + 1, key |-> k, day |-> DayOf(now)]
    OBVIOUS
  <2>5. Log' = Log \cup {Seen(new)}
    BY <1>l, <2>3
  <2>6. Seen(new) \notin Log
    <3>1. \A row \in traces : row.id \in Nat /\ row.id <= written /\ written \in Nat
      BY <1>0 DEF Ours, Numbered, TypeOK, Trace
    <3>2. \A row \in traces : row.id # written + 1
      BY <3>1
    <3>3. \A row \in traces : Seen(row).id = row.id
      OBVIOUS
    <3> QED
      BY <1>l, <2>4, <3>2, <3>3
  <2>7. Memory!Seek(k, DayOf(now))
    <3>1. days' = [days EXCEPT ![<<k, DayOf(now)>>] = @ + 1]
      BY <2>1 DEF RecordTrace
    <3>2. Seen(new) \in Log' \ Log
      BY <2>5, <2>6
    <3>3. Seen(new).key = k /\ Seen(new).day = DayOf(now)
      BY <2>4
    <3> HIDE DEF Seen, new
    <3> QED
      BY <2>5, <3>1, <3>2, <3>3 DEF Memory!Seek
  <2> QED
    BY <2>2, <2>7 DEF Memory!Next, Memory!Keys, Keys
<1>2. CASE ForgetSome
  <2>1. PICK s \in Spellings : Forget(s)
    BY <1>2 DEF ForgetSome
  <2>2. KeyOf(s) \in Keywords
    BY <2>1, Constants DEF Forget, ForgetKey
  <2>3. /\ traces' = {row \in traces : row.key # KeyOf(s)}
        /\ days' = [bucket \in Keys \X Days |->
                       IF bucket[1] = KeyOf(s) THEN 0 ELSE days[bucket]]
    BY <2>1 DEF Forget, ForgetKey
  <2>4. \A row \in traces : Seen(row).key = row.key
    OBVIOUS
  <2> HIDE DEF Seen
  <2>5. Log' = {row \in Log : row.key # KeyOf(s)}
    BY <1>l, <2>3, <2>4
  <2>6. Memory!Forget(KeyOf(s))
    BY <2>3, <2>5 DEF Memory!Forget, Memory!Keys, Keys
  <2> QED
    BY <2>2, <2>6 DEF Memory!Next
<1>3. CASE Sweeping
  <2>1. traces' \subseteq traces /\ UNCHANGED days
    BY <1>0, <1>3, Sweeps DEF Ours
  <2>2. Memory!Evict
    BY <1>l, <2>1 DEF Memory!Evict
  <2> QED
    BY <2>2 DEF Memory!Next
<1>4. CASE Start \/ Tick \/ UNCHANGED vars
           \/ \E c \in Slots : DigStamp(c) \/ DigInsert(c) \/ DigAbort(c)
  <2>1. UNCHANGED <<traces, days>>
    BY <1>4 DEF Start, DigStart, Tick, vars, DigStamp, DigInsert, DigAbort
  <2> QED
    BY <1>l, <2>1 DEF Memory!vars
<1> QED
  BY <1>1, <1>2, <1>3, <1>4, Kinds

\* Rows and buckets, on any step TraceMemory allows.
Kept == IsFiniteSet(Log) /\ BucketsCoverRows

LEMMA NextKept ==
  ASSUME TypeOK, Kept, [Memory!Next]_Memory!vars
  PROVE  Kept'
<1> DEFINE Rows(k, d) == {row \in Log : row.key = k /\ row.day = d}
<1>0. /\ IsFiniteSet(Log)
      /\ \A k \in Keys, d \in Days : Cardinality(Rows(k, d)) <= days[<<k, d>>]
  BY DEF Kept, BucketsCoverRows
<1>t. days \in [Keys \X Days -> Nat]
  BY DEF TypeOK
<1>f. \A k, d : IsFiniteSet(Rows(k, d)) /\ Cardinality(Rows(k, d)) \in Nat
  BY <1>0, FS_Subset, FS_CardinalityType
<1> SUFFICES /\ IsFiniteSet(Log')
             /\ \A k \in Keys, d \in Days : Cardinality(Rows(k, d)') <= days'[<<k, d>>]
  BY DEF Kept, BucketsCoverRows
<1>1. ASSUME NEW j \in Keys, NEW e \in Days, Memory!Seek(j, e)
      PROVE  /\ IsFiniteSet(Log')
             /\ \A k \in Keys, d \in Days : Cardinality(Rows(k, d)') <= days'[<<k, d>>]
  <2>1. PICK row : row.key = j /\ row.day = e /\ Log' = Log \cup {row}
    BY <1>1 DEF Memory!Seek
  <2>2. IsFiniteSet(Log')
    BY <1>0, <2>1, AddOne
  <2>3. days' = [days EXCEPT ![<<j, e>>] = @ + 1]
    BY <1>1 DEF Memory!Seek
  <2>4. ASSUME NEW k \in Keys, NEW d \in Days
        PROVE  Cardinality(Rows(k, d)') <= days'[<<k, d>>]
    <3>1. CASE k = j /\ d = e
      <4>1. Rows(k, d)' = Rows(k, d) \cup {row}
        BY <2>1, <3>1
      <4>2. PICK old : old = Rows(k, d)
        OBVIOUS
      <4>3. /\ IsFiniteSet(old) /\ Cardinality(old) \in Nat
            /\ Cardinality(old) <= days[<<k, d>>]
        <5> HIDE DEF Rows
        <5> QED
          BY <1>0, <1>f, <4>2
      <4>4. Rows(k, d)' = old \cup {row}
        BY <4>1, <4>2
      <4>5. Cardinality(Rows(k, d)') <= Cardinality(old) + 1
            /\ Cardinality(Rows(k, d)') \in Nat
        <5> HIDE DEF Rows
        <5> QED
          BY <4>3, <4>4, AddOne
      <4>6. days'[<<k, d>>] = days[<<k, d>>] + 1 /\ days[<<k, d>>] \in Nat
        BY <1>t, <2>3, <3>1
      <4> QED
        BY <4>3, <4>5, <4>6
    <3>2. CASE ~(k = j /\ d = e)
      <4>1. Rows(k, d)' = Rows(k, d)
        BY <2>1, <3>2
      <4>2. days'[<<k, d>>] = days[<<k, d>>]
        BY <1>t, <2>3, <3>2
      <4> QED
        BY <1>0, <4>1, <4>2
    <3> QED
      BY <3>1, <3>2
  <2> QED
    BY <2>2, <2>4
<1>2. CASE Memory!Evict \/ UNCHANGED Memory!vars
  <2>1. Log' \subseteq Log /\ UNCHANGED days
    BY <1>2 DEF Memory!Evict, Memory!vars
  <2>2. \A k, d : Rows(k, d)' \subseteq Rows(k, d)
    BY <2>1
  <2>3. ASSUME NEW k \in Keys, NEW d \in Days
        PROVE  Cardinality(Rows(k, d)') <= days'[<<k, d>>]
    <3>1. /\ IsFiniteSet(Rows(k, d)) /\ Cardinality(Rows(k, d)) \in Nat
          /\ Cardinality(Rows(k, d)) <= days[<<k, d>>]
          /\ Rows(k, d)' \subseteq Rows(k, d)
      <4> HIDE DEF Rows
      <4> QED
        BY <1>0, <1>f, <2>2
    <3>2. days'[<<k, d>>] = days[<<k, d>>] /\ days[<<k, d>>] \in Nat
      BY <1>t, <2>1
    <3> HIDE DEF Rows
    <3>3. /\ Cardinality(Rows(k, d)') <= Cardinality(Rows(k, d))
          /\ Cardinality(Rows(k, d)') \in Nat
      BY <3>1, FS_Subset, FS_CardinalityType
    <3> QED
      BY <3>1, <3>2, <3>3
  <2>4. IsFiniteSet(Log')
    BY <1>0, <2>1, FS_Subset
  <2> QED
    BY <2>3, <2>4
<1>3. ASSUME NEW j \in Keywords, Memory!Forget(j)
      PROVE  /\ IsFiniteSet(Log')
             /\ \A k \in Keys, d \in Days : Cardinality(Rows(k, d)') <= days'[<<k, d>>]
  <2>1. /\ Log' = {row \in Log : row.key # j}
        /\ days' = [bucket \in Keys \X Days |-> IF bucket[1] = j THEN 0 ELSE days[bucket]]
    BY <1>3 DEF Memory!Forget, Memory!Keys, Keys
  <2>2. IsFiniteSet(Log')
    BY <1>0, <2>1, FS_Subset
  <2>3. ASSUME NEW k \in Keys, NEW d \in Days
        PROVE  Cardinality(Rows(k, d)') <= days'[<<k, d>>]
    <3>1. CASE k = j
      <4>1. Rows(k, d)' = {}
        BY <2>1, <3>1
      <4>2. days'[<<k, d>>] = 0
        BY <2>1, <3>1
      <4> QED
        BY <4>1, <4>2, FS_EmptySet
    <3>2. CASE k # j
      <4>1. Rows(k, d)' = Rows(k, d)
        BY <2>1, <3>2
      <4>2. days'[<<k, d>>] = days[<<k, d>>]
        BY <2>1, <3>2
      <4> QED
        BY <1>0, <4>1, <4>2
    <3> QED
      BY <3>1, <3>2
  <2> QED
    BY <2>2, <2>3
<1> QED
  BY <1>1, <1>2, <1>3 DEF Memory!Next, Memory!Keys, Keys

----------------------------------------------------------------------------
(* The caps.  The n oldest of a table are n at most, since rows come in an  *)
(* order without ties; between count and delete a table only grows, or a    *)
(* forget is marked.                                                        *)

\* In a finite order no more than n have fewer than n before them.
LEMMA FewOldest ==
  ASSUME NEW T, IsFiniteSet(T), NEW R,
         \A r, s \in T : r = s \/ <<r, s>> \in R \/ <<s, r>> \in R,
         \A r, s, t \in T : <<r, s>> \in R /\ <<s, t>> \in R => <<r, t>> \in R,
         \A r \in T : <<r, r>> \notin R,
         NEW n \in Nat
  PROVE  Cardinality({row \in T : Cardinality({r \in T : <<r, row>> \in R}) < n}) <= n
<1> DEFINE Before(row) == {r \in T : <<r, row>> \in R}
           Old == {row \in T : Cardinality(Before(row)) < n}
           f == [row \in Old |-> Cardinality(Before(row))]
<1>1. \A row : IsFiniteSet(Before(row)) /\ Cardinality(Before(row)) \in Nat
  BY FS_Subset, FS_CardinalityType
<1>2. ASSUME NEW r \in T, NEW s \in T, <<r, s>> \in R
      PROVE  Cardinality(Before(r)) < Cardinality(Before(s))
  <2>1. Before(r) \in SUBSET Before(s) /\ r \in Before(s) /\ r \notin Before(r)
    BY <1>2
  <2>2. /\ Cardinality(Before(r)) <= Cardinality(Before(s))
        /\ Cardinality(Before(s)) = Cardinality(Before(r)) => Before(s) = Before(r)
    <3> HIDE DEF Before
    <3> QED
      BY <1>1, <2>1, FS_Subset
  <2> HIDE DEF Before
  <2> QED
    BY <1>1, <2>1, <2>2
<1>3. f \in Injection(Old, 0..(n - 1))
  <2>1. \A row \in Old : f[row] \in 0..(n - 1)
    <3> HIDE DEF Before
    <3> QED
      BY <1>1
  <2>2. ASSUME NEW r \in Old, NEW s \in Old, f[r] = f[s]
        PROVE  r = s
    <3>1. Cardinality(Before(r)) = Cardinality(Before(s)) /\ r \in T /\ s \in T
      BY <2>2
    <3>2. Cardinality(Before(r)) \in Nat /\ Cardinality(Before(s)) \in Nat
      BY <1>1
    <3> HIDE DEF Before, f, Old
    <3>3. <<r, s>> \notin R /\ <<s, r>> \notin R
      BY <1>2, <3>1, <3>2
    <3> QED
      BY <3>1, <3>3
  <2> HIDE DEF Old, Before
  <2>3. f \in [Old -> 0..(n - 1)]
    BY <2>1
  <2> HIDE DEF f
  <2> QED
    BY <2>2, <2>3, Fun_IsInj
<1>4. IsFiniteSet(0..(n - 1)) /\ Cardinality(0..(n - 1)) = n
  BY FS_Interval
<1>5. Cardinality(Old) <= Cardinality(0..(n - 1))
  <2> HIDE DEF Old, f
  <2> QED
    BY <1>3, <1>4, FS_Injection DEF ExistsInjection
<1> QED
  BY <1>4, <1>5

\* What a delete of so many of the oldest leaves.
LEMMA EnoughLeft ==
  ASSUME NEW T, IsFiniteSet(T), NEW Old \in SUBSET T, NEW n \in Nat, NEW cap \in Nat,
         Cardinality(Old) <= n, Cardinality(T) >= n + cap
  PROVE  Cardinality(T \ Old) >= cap
<1>1. T \cap Old = Old /\ IsFiniteSet(Old)
  BY FS_Subset
<1>2. Cardinality(T \ Old) = Cardinality(T) - Cardinality(Old)
  BY <1>1, FS_Difference
<1> QED
  BY <1>1, <1>2, FS_CardinalityType

\* No two rows share a number.
Distinct ==
    /\ \A r, s \in traces : r.id = s.id => r = s
    /\ \A r, s \in digs : r.seq = s.seq => r = s

\* What was counted too many is still there.
Covered ==
    ~sweep.crossed =>
        /\ sweep.step = "traces.cap" => Cardinality(traces) >= sweep.over + TraceCap
        /\ sweep.step = "digs.cap" => Cardinality(digs) >= sweep.over + DigCap

LEMMA NextDistinct == Ours /\ Distinct /\ [Next]_vars => Distinct'
<1> SUFFICES ASSUME Ours, Distinct, [Next]_vars PROVE Distinct'
  OBVIOUS
<1>0. /\ lastSeq \in Nat /\ written \in Nat
      /\ \A row \in traces : row.id \in Nat /\ row.id <= written
      /\ \A d \in digs : d.seq \in Nat /\ d.seq <= lastSeq
  BY DEF Ours, Numbered, TypeOK, Trace, DigRow
<1>1. CASE Record
  <2>1. PICK k \in Keys, n \in Nat : RecordTrace(k, n) /\ UNCHANGED digs
    BY <1>1, Records DEF Ours
  <2>2. \A r \in traces' : r \in traces \/ r = [id |-> written + 1, key |-> k, at |-> now, seq |-> n]
    BY <2>1 DEF RecordTrace
  <2>3. \A r \in traces : r.id # written + 1
    BY <1>0
  <2> QED
    BY <2>1, <2>2, <2>3 DEF Distinct
<1>2. ASSUME NEW c \in Slots, DigInsert(c) PROVE Distinct'
  <2>1. \A r \in digs' : \/ r \in digs
                         \/ r = [seq |-> NextSeq, key |-> digging[c].key,
                                 by |-> digging[c].by, at |-> digging[c].at]
    BY <1>2 DEF DigInsert
  <2>2. \A r \in digs : r.seq # NextSeq
    BY <1>0 DEF NextSeq
  <2> QED
    BY <1>2, <2>1, <2>2 DEF Distinct, DigInsert
<1>3. ASSUME traces' \subseteq traces, digs' \subseteq digs PROVE Distinct'
  BY <1>3 DEF Distinct
<1>4. CASE ForgetSome
  BY <1>3, <1>4, Forgets DEF ForgetOf, Ours
<1>5. CASE Sweeping
  BY <1>3, <1>5, Sweeps DEF Ours
<1>6. CASE Start \/ Tick \/ UNCHANGED vars \/ \E c \in Slots : DigStamp(c) \/ DigAbort(c)
  BY <1>3, <1>6 DEF Start, DigStart, Tick, vars, DigStamp, DigAbort
<1> QED
  BY <1>1, <1>2, <1>4, <1>5, <1>6, Kinds

\* The janitor at work keeps Covered: a count is what it was a moment ago.
LEMMA SweepingCovers == ASSUME Ours, Covered, Sweeping PROVE Covered'
<1>1. /\ Cardinality(traces) \in Nat /\ Cardinality(digs) \in Nat
      /\ TraceCap \in Nat /\ DigCap \in Nat
  BY FS_CardinalityType, LedgerAssumption DEF Ours, Finite
<1>2. ASSUME NEW step, step \notin {"traces.cap", "digs.cap"}, sweep' = At(step)
      PROVE  Covered'
  BY <1>2 DEF At, Covered
<1>3. CASE JanitorStart
  BY <1>3 DEF JanitorStart, At, Covered
<1>4. CASE JanitorDays \/ JanitorCapTraces \/ JanitorCapDigs
  BY <1>2, <1>4 DEF JanitorDays, JanitorCapTraces, JanitorCapDigs
<1>5. CASE JanitorCountTraces
  <2>1. CASE sweep' = [At("traces.cap") EXCEPT !.over = Excess(traces, TraceCap)]
    BY <1>1, <1>5, <2>1 DEF JanitorCountTraces, Excess, At, Covered
  <2> QED
    BY <1>2, <1>5, <2>1 DEF JanitorCountTraces, Counted
<1>6. CASE JanitorCountDigs
  <2>1. CASE sweep' = [At("digs.cap") EXCEPT !.over = Excess(digs, DigCap)]
    BY <1>1, <1>6, <2>1 DEF JanitorCountDigs, Excess, At, Covered
  <2> QED
    BY <1>2, <1>6, <2>1 DEF JanitorCountDigs, Counted
<1>7. CASE JanitorSkip
  <2>1. \E step \in {"traces.count", "digs.count", "idle"} : sweep' = At(step)
    BY <1>7 DEF JanitorSkip
  <2> QED
    BY <1>2, <2>1
<1> QED
  BY <1>3, <1>4, <1>5, <1>6, <1>7 DEF Sweeping

LEMMA NextCovered == Ours /\ Covered /\ [Next]_vars => Covered'
<1> SUFFICES ASSUME Ours, Covered, [Next]_vars PROVE Covered'
  OBVIOUS
<1>1. ASSUME traces \subseteq traces', digs \subseteq digs', Finite', UNCHANGED sweep
      PROVE  Covered'
  <2>1. /\ Cardinality(traces) <= Cardinality(traces')
        /\ Cardinality(digs) <= Cardinality(digs')
        /\ Cardinality(traces) \in Nat /\ Cardinality(traces') \in Nat
        /\ Cardinality(digs) \in Nat /\ Cardinality(digs') \in Nat
    BY <1>1, FS_Subset, FS_CardinalityType DEF Ours, Finite
  <2>2. sweep.over \in Nat /\ TraceCap \in Nat /\ DigCap \in Nat
    BY LedgerAssumption DEF Ours, TypeOK, Sweep
  <2> QED
    BY <1>1, <2>1, <2>2 DEF Covered
<1>f. Finite'
  BY NextTypes
<1>2. CASE Record
  <2>1. \E k \in Keys, n \in Nat : RecordTrace(k, n) /\ UNCHANGED <<digs, sweep>>
    BY <1>2, Records DEF Ours
  <2> QED
    BY <1>1, <1>f, <2>1 DEF RecordTrace
<1>3. CASE ForgetSome
  <2>1. PICK s \in Spellings : Forget(s)
    BY <1>3 DEF ForgetSome
  <2>2. sweep' = [sweep EXCEPT !.crossed = sweep.step \in {"traces.cap", "digs.cap"}]
    BY <2>1 DEF Forget
  <2>3. sweep \in Sweep
    BY DEF Ours, TypeOK
  <2>4. sweep'.step = sweep.step /\ (sweep'.crossed <=> sweep.step \in {"traces.cap", "digs.cap"})
    BY <2>2, <2>3 DEF Sweep
  <2> QED
    BY <2>4 DEF Covered
<1>4. CASE Sweeping
  BY <1>4, SweepingCovers
<1>5. CASE Start \/ Tick \/ UNCHANGED vars
           \/ \E c \in Slots : DigStamp(c) \/ DigInsert(c) \/ DigAbort(c)
  BY <1>1, <1>5, <1>f DEF Start, DigStart, Tick, vars, DigStamp, DigInsert, DigAbort
<1> QED
  BY <1>2, <1>3, <1>4, <1>5, Kinds

LEMMA InitCaps == Init => Distinct /\ Covered
  BY DEF Init, Distinct, Covered, At

\* The n oldest are n at most, and no row that stays is older than one of them.
LEMMA TracesTaken ==
  ASSUME Ours, Distinct, NEW n \in Nat
  PROVE  /\ Cardinality(OldestTraces(n)) <= n
         /\ \A gone \in OldestTraces(n), kept \in traces \ OldestTraces(n) :
                gone.at <= kept.at
<1> DEFINE Older(r, s) == r.at < s.at \/ (r.at = s.at /\ r.id < s.id)
           Before(row) == {r \in traces : Older(r, row)}
           R == {e \in traces \X traces : Older(e[1], e[2])}
<1>0. IsFiniteSet(traces) /\ \A r \in traces : r.at \in Nat /\ r.id \in Nat
  BY DEF Ours, Finite, TypeOK, Trace
<1>1. \A r, s \in traces : <<r, s>> \in R <=> Older(r, s)
  OBVIOUS
<1>2. Cardinality(OldestTraces(n)) <= n
  <2>1. \A r, s \in traces : r = s \/ Older(r, s) \/ Older(s, r)
    BY <1>0 DEF Distinct
  <2>2. \A r, s, t \in traces : Older(r, s) /\ Older(s, t) => Older(r, t)
    BY <1>0
  <2>3. \A r \in traces : ~Older(r, r)
    BY <1>0
  <2>4. \A row \in traces : {r \in traces : <<r, row>> \in R} = Before(row)
    BY <1>1
  <2>5. OldestTraces(n)
          = {row \in traces : Cardinality({r \in traces : <<r, row>> \in R}) < n}
    BY <2>4 DEF OldestTraces
  <2> HIDE DEF R, Older
  <2> QED
    BY <1>0, <1>1, <2>1, <2>2, <2>3, <2>5, FewOldest
<1>3. ASSUME NEW gone \in OldestTraces(n), NEW kept \in traces \ OldestTraces(n),
             kept.at < gone.at
      PROVE  FALSE
  <2>1. gone \in traces
    BY DEF OldestTraces
  <2>2. Before(kept) \subseteq Before(gone)
    BY <1>0, <1>3, <2>1
  <2>3. Cardinality(Before(gone)) < n /\ ~(Cardinality(Before(kept)) < n)
    BY <2>1 DEF OldestTraces
  <2>4. IsFiniteSet(Before(gone))
    BY <1>0, FS_Subset
  <2> HIDE DEF Before
  <2> QED
    BY <2>2, <2>3, <2>4, FS_Subset, FS_CardinalityType
<1> QED
  BY <1>0, <1>2, <1>3 DEF OldestTraces

LEMMA DigsTaken ==
  ASSUME Ours, Distinct, NEW n \in Nat
  PROVE  /\ Cardinality(OldestDigs(n)) <= n
         /\ \A gone \in OldestDigs(n), kept \in digs \ OldestDigs(n) :
                gone.at <= kept.at
<1> DEFINE Older(r, s) == r.at < s.at \/ (r.at = s.at /\ r.seq < s.seq)
           Before(row) == {r \in digs : Older(r, row)}
           R == {e \in digs \X digs : Older(e[1], e[2])}
<1>0. IsFiniteSet(digs) /\ \A r \in digs : r.at \in Nat /\ r.seq \in Nat
  BY DEF Ours, Finite, TypeOK, DigRow
<1>1. \A r, s \in digs : <<r, s>> \in R <=> Older(r, s)
  OBVIOUS
<1>2. Cardinality(OldestDigs(n)) <= n
  <2>1. \A r, s \in digs : r = s \/ Older(r, s) \/ Older(s, r)
    BY <1>0 DEF Distinct
  <2>2. \A r, s, t \in digs : Older(r, s) /\ Older(s, t) => Older(r, t)
    BY <1>0
  <2>3. \A r \in digs : ~Older(r, r)
    BY <1>0
  <2>4. \A row \in digs : {r \in digs : <<r, row>> \in R} = Before(row)
    BY <1>1
  <2>5. OldestDigs(n)
          = {row \in digs : Cardinality({r \in digs : <<r, row>> \in R}) < n}
    BY <2>4 DEF OldestDigs
  <2> HIDE DEF R, Older
  <2> QED
    BY <1>0, <1>1, <2>1, <2>2, <2>3, <2>5, FewOldest
<1>3. ASSUME NEW gone \in OldestDigs(n), NEW kept \in digs \ OldestDigs(n),
             kept.at < gone.at
      PROVE  FALSE
  <2>1. gone \in digs
    BY DEF OldestDigs
  <2>2. Before(kept) \subseteq Before(gone)
    BY <1>0, <1>3, <2>1
  <2>3. Cardinality(Before(gone)) < n /\ ~(Cardinality(Before(kept)) < n)
    BY <2>1 DEF OldestDigs
  <2>4. IsFiniteSet(Before(gone))
    BY <1>0, FS_Subset
  <2> HIDE DEF Before
  <2> QED
    BY <2>2, <2>3, <2>4, FS_Subset, FS_CardinalityType
<1> QED
  BY <1>0, <1>2, <1>3 DEF OldestDigs

\* A cap's delete takes the oldest, and leaves the cap if nobody forgot.
CapStep ==
    /\ JanitorCapTraces => \A gone \in traces \ traces', kept \in traces' : gone.at <= kept.at
    /\ JanitorCapDigs => \A gone \in digs \ digs', kept \in digs' : gone.at <= kept.at
    /\ ~sweep.crossed =>
          /\ JanitorCapTraces => Cardinality(traces') >= TraceCap
          /\ JanitorCapDigs => Cardinality(digs') >= DigCap

LEMMA CapStepHolds == Ours /\ Distinct /\ Covered => CapStep
<1> SUFFICES ASSUME Ours, Distinct, Covered PROVE CapStep
  OBVIOUS
<1>0. /\ sweep.over \in Nat /\ TraceCap \in Nat /\ DigCap \in Nat
      /\ IsFiniteSet(traces) /\ IsFiniteSet(digs)
  BY LedgerAssumption DEF Ours, TypeOK, Sweep, Finite
<1>1. ASSUME JanitorCapTraces
      PROVE  /\ \A gone \in traces \ traces', kept \in traces' : gone.at <= kept.at
             /\ ~sweep.crossed => Cardinality(traces') >= TraceCap
  <2>1. /\ traces' = traces \ OldestTraces(sweep.over)
        /\ OldestTraces(sweep.over) \in SUBSET traces
        /\ sweep.step = "traces.cap"
    BY <1>1 DEF JanitorCapTraces, OldestTraces
  <2>2. /\ Cardinality(OldestTraces(sweep.over)) <= sweep.over
        /\ \A gone \in OldestTraces(sweep.over),
              kept \in traces \ OldestTraces(sweep.over) : gone.at <= kept.at
    BY <1>0, TracesTaken
  <2>3. ~sweep.crossed => Cardinality(traces) >= sweep.over + TraceCap
    BY <2>1 DEF Covered
  <2>4. ~sweep.crossed => Cardinality(traces \ OldestTraces(sweep.over)) >= TraceCap
    BY <1>0, <2>1, <2>2, <2>3, EnoughLeft
  <2> QED
    BY <2>1, <2>2, <2>4
<1>2. ASSUME JanitorCapDigs
      PROVE  /\ \A gone \in digs \ digs', kept \in digs' : gone.at <= kept.at
             /\ ~sweep.crossed => Cardinality(digs') >= DigCap
  <2>1. /\ digs' = digs \ OldestDigs(sweep.over)
        /\ OldestDigs(sweep.over) \in SUBSET digs
        /\ sweep.step = "digs.cap"
    BY <1>2 DEF JanitorCapDigs, OldestDigs
  <2>2. /\ Cardinality(OldestDigs(sweep.over)) <= sweep.over
        /\ \A gone \in OldestDigs(sweep.over),
              kept \in digs \ OldestDigs(sweep.over) : gone.at <= kept.at
    BY <1>0, DigsTaken
  <2>3. ~sweep.crossed => Cardinality(digs) >= sweep.over + DigCap
    BY <2>1 DEF Covered
  <2>4. ~sweep.crossed => Cardinality(digs \ OldestDigs(sweep.over)) >= DigCap
    BY <1>0, <2>1, <2>2, <2>3, EnoughLeft
  <2> QED
    BY <2>1, <2>2, <2>4
<1> QED
  BY <1>1, <1>2 DEF CapStep

----------------------------------------------------------------------------
(* What the invariant gives. *)

\* Tables, digs in flight and the janitor run keep their types.
THEOREM TypeCorrect == Spec => []TypeOK
<1>1. IInv => TypeOK
  BY DEF IInv, Ours
<1> QED
  BY <1>1, Invariance, PTL

\* However reads, digs, forgets and the janitor interleave, a keyword
\* forgotten while no dig of it was in flight stays forgotten until sought.
THEOREM ForgottenHolds == Spec => []ForgottenStaysForgotten
<1>1. IInv => ForgottenStaysForgotten
  BY DEF IInv
<1> QED
  BY <1>1, Invariance, PTL

\* No trace ever names another keyword's dig, whatever was deleted when.
THEOREM TracesNameTheirDigs == Spec => []TraceNamesItsDig
<1>1. IInv => TraceNamesItsDig
  BY DEF IInv
<1> QED
  BY <1>1, Invariance, PTL

\* The dig budget is overrun by less than the number of digs in flight.
THEOREM BudgetHolds == Spec => []BudgetBounded
<1>1. IInv => BudgetBounded
  BY DEF IInv
<1> QED
  BY <1>1, Invariance, PTL

\* The ledger implements TraceMemory: log and memory move together, and only a
\* forget takes from the memory.
THEOREM KeepsThePromise == Spec => MemorySpec
<1>1. Init => Memory!Init
  BY DEF Init, Memory!Init, Log, Memory!Keys, Keys
<1> QED
  BY <1>1, StepKeepsThePromise, Invariance, PTL DEF Spec, MemorySpec, Memory!Spec

\* No day's bucket is ever short of the raw rows of that day.
THEOREM BucketsCover == Spec => []BucketsCoverRows
<1>1. Init => Kept
  <2> SUFFICES ASSUME Init PROVE Kept
    OBVIOUS
  <2>1. Log = {}
    BY DEF Init, Log
  <2>2. \A k \in Keys, d \in Days : {row \in Log : row.key = k /\ row.day = d} = {}
    BY <2>1
  <2>3. \A k \in Keys, d \in Days : days[<<k, d>>] = 0
    BY DEF Init
  <2> QED
    BY <2>1, <2>2, <2>3, FS_EmptySet DEF Kept, BucketsCoverRows
<1>2. IInv /\ Kept /\ [Next]_vars => Kept'
  BY StepKeepsThePromise, NextKept DEF IInv, Ours
<1>3. Kept => BucketsCoverRows
  BY DEF Kept
<1> QED
  BY <1>1, <1>2, <1>3, Invariance, PTL DEF Spec

\* Whatever was written or forgotten since the count, a cap takes no row newer
\* than one it leaves; and unless something was forgotten it leaves the cap.
THEOREM CapsKeepNewest == Spec => CapKeepsNewest
<1>1. IInv => Ours
  BY DEF IInv
<1>2. Ours /\ Distinct /\ Covered /\ [Next]_vars => (Distinct /\ Covered)'
  BY NextDistinct, NextCovered
<1>3. Ours /\ Distinct /\ Covered => CapStep
  BY CapStepHolds
<1>4. CapStep =>
        /\ JanitorCapTraces => \A gone \in traces \ traces', kept \in traces' : gone.at <= kept.at
        /\ JanitorCapDigs => \A gone \in digs \ digs', kept \in digs' : gone.at <= kept.at
        /\ ~sweep.crossed =>
              /\ JanitorCapTraces => Cardinality(traces') >= TraceCap
              /\ JanitorCapDigs => Cardinality(digs') >= DigCap
  BY DEF CapStep
<1> QED
  BY <1>1, <1>2, <1>3, <1>4, InitCaps, Invariance, PTL DEF Spec, CapKeepsNewest

=============================================================================
