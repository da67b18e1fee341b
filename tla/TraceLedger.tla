----------------------------- MODULE TraceLedger -----------------------------
(***************************************************************************)
(* The memory of what was sought: recordTrace and forgetKeyword (trace.ts),*)
(* dig and its budget (dig.ts), and the janitor's policies for their       *)
(* tables (janitor.ts).  A dig is split at its awaits: budget check, stamp,*)
(* ledger row, trace; a read records its trace in one batch; a janitor run *)
(* is one statement after another, and any of them may fail.  Reads,       *)
(* forgets, digs and the janitor interleave.                               *)
(***************************************************************************)
EXTENDS Integers, FiniteSets

CONSTANTS
    Spellings,   \* what callers type
    Clip,        \* a spelling cut to MAX_KEYWORD characters
    Norm,        \* keywordNorm: the key of a spelling, or NoKey
    NoKey,       \* a spelling that is empty after normalisation
    Others,      \* term and node ids, read without a keyword
    Slots,       \* digs in flight at once
    Principals,  \* method:principal of the callers
    Budget,      \* DIG_BUDGET.digs
    Window,      \* DIG_BUDGET.windowSeconds
    DayLength,   \* the part of `at` a bucket keeps
    Retention,   \* traces_retention_days
    TraceCap, DigCap,
    MaxNow, MaxTraces, MaxDigs  \* bounds on the clock and on rows written

Keywords == {Norm[s] : s \in Spellings} \ {NoKey}
Keys == Keywords \cup Others
DayOf(at) == at \div DayLength
Days == 0..DayOf(MaxNow)

ASSUME LedgerAssumption ==
    /\ Clip \in [Spellings -> Spellings]
    /\ NoKey \notin Others
    /\ Keywords \cap Others = {}
    /\ IsFiniteSet(Slots)
    /\ Budget \in Nat \ {0} /\ Window \in Nat /\ Retention \in Nat
    /\ TraceCap \in Nat /\ DigCap \in Nat
    /\ MaxNow \in Nat /\ MaxTraces \in Nat /\ MaxDigs \in Nat
    /\ \A at \in 0..MaxNow : DayOf(at) \in Days

VARIABLES
    now,
    traces,     \* table traces
    days,       \* table trace_days: reads by key and day, 0 for no row
    digs,       \* table digs
    written,    \* trace rows written so far
    lastSeq,    \* sqlite_sequence of digs: the last dig_seq given out
    digging,    \* the digs in flight
    sweep,      \* the janitor run
    forgotten   \* history: keys forgotten with no dig of theirs in flight,
                \* and not sought again

vars == <<now, traces, days, digs, written, lastSeq, digging, sweep, forgotten>>

Trace == [id : Nat, key : Keys, at : Nat, seq : Nat]
DigRow == [seq : Nat, key : Keywords, by : Principals, at : Nat]
Idle == [phase |-> "idle"]
Dig ==
    [phase : {"admitted", "reading", "inserted"}, key : Keywords,
     by : Principals, at : Nat, seq : Nat]
Sweep ==
    [step : {"idle", "traces.days", "traces.count", "traces.cap",
             "digs.count", "digs.cap"},
     cutoff : Int, over : Nat, crossed : BOOLEAN]

TypeOK ==
    /\ now \in 0..MaxNow
    /\ traces \subseteq Trace
    /\ days \in [Keys \X Days -> Nat]
    /\ digs \subseteq DigRow
    /\ written \in Nat
    /\ lastSeq \in Nat
    /\ digging \in [Slots -> Dig \cup {Idle}]
    /\ sweep \in Sweep
    /\ forgotten \subseteq Keywords

\* The run is at a step, carrying nothing over from the one before.
At(step) == [step |-> step, cutoff |-> 0, over |-> 0, crossed |-> FALSE]

Init ==
    /\ now = 0
    /\ traces = {}
    /\ days = [bucket \in Keys \X Days |-> 0]
    /\ digs = {}
    /\ written = 0
    /\ lastSeq = 0
    /\ digging = [c \in Slots |-> Idle]
    /\ sweep = At("idle")
    /\ forgotten = {}

----------------------------------------------------------------------------
(* recordTrace, and the reads that end in it. *)

\* The raw row alone, as if the two statements were not one batch.
RecordRowOnly(k, seq) ==
    /\ written < MaxTraces
    /\ traces' = traces \cup {[id |-> written + 1, key |-> k, at |-> now, seq |-> seq]}
    /\ written' = written + 1
    /\ UNCHANGED days

\* One batch: the raw row and its day bucket.
RecordTrace(k, seq) ==
    /\ written < MaxTraces
    /\ traces' = traces \cup {[id |-> written + 1, key |-> k, at |-> now, seq |-> seq]}
    /\ days' = [days EXCEPT ![<<k, DayOf(now)>>] = @ + 1]
    /\ written' = written + 1

\* The key a spelling is remembered under: clip first, then normalise.
KeyOf(s) == Norm[Clip[s]]

\* A search.  An empty key writes no row.
Search(s) ==
    /\ KeyOf(s) # NoKey
    /\ RecordTrace(KeyOf(s), 0)
    /\ forgotten' = forgotten \ {KeyOf(s)}
    /\ UNCHANGED <<now, digs, lastSeq, digging, sweep>>

\* A node read, a category browse, a list by term.
Read(k) ==
    /\ RecordTrace(k, 0)
    /\ UNCHANGED <<now, digs, lastSeq, digging, sweep, forgotten>>

----------------------------------------------------------------------------
(* dig *)

\* The rows digRetryAfter counts.
Spent(p) == {row \in digs : row.by = p /\ row.at >= now - Window}

\* The digs past the budget check and not yet on record.
Under(p) ==
    {c \in Slots : digging[c].phase \in {"admitted", "reading"} /\ digging[c].by = p}

\* MUTANT of Affords: the comparison is off by one.
AffordsOneMore(p) == Cardinality(Spent(p)) <= Budget

\* digRetryAfter answers 0.
Affords(p) == Cardinality(Spent(p)) < Budget

DigStart(c, p, s) ==
    /\ digging[c] = Idle
    /\ KeyOf(s) # NoKey
    /\ Affords(p)
    /\ digging' = [digging EXCEPT ![c] =
           [phase |-> "admitted", key |-> KeyOf(s), by |-> p, at |-> 0, seq |-> 0]]
    /\ forgotten' = forgotten \ {KeyOf(s)}
    /\ UNCHANGED <<now, traces, days, digs, written, lastSeq, sweep>>

\* as_of, read once the budget has answered and before the sources are.
DigStamp(c) ==
    /\ digging[c].phase = "admitted"
    /\ digging' = [digging EXCEPT ![c].phase = "reading", ![c].at = now]
    /\ UNCHANGED <<now, traces, days, digs, written, lastSeq, sweep, forgotten>>

\* MUTANT of NextSeq: INTEGER PRIMARY KEY without AUTOINCREMENT.
ReusedSeq ==
    CHOOSE n \in 1..(MaxDigs + 1) :
        /\ \A row \in digs : row.seq < n
        /\ n = 1 \/ \E row \in digs : row.seq = n - 1

\* AUTOINCREMENT
NextSeq == lastSeq + 1

DigInsert(c) ==
    /\ digging[c].phase = "reading"
    /\ lastSeq < MaxDigs
    /\ digs' = digs \cup {[seq |-> NextSeq, key |-> digging[c].key,
                           by |-> digging[c].by, at |-> digging[c].at]}
    /\ digging' = [digging EXCEPT ![c].phase = "inserted", ![c].seq = NextSeq]
    /\ lastSeq' = NextSeq
    /\ UNCHANGED <<now, traces, days, written, sweep, forgotten>>

DigTrace(c) ==
    /\ digging[c].phase = "inserted"
    /\ RecordTrace(digging[c].key, digging[c].seq)
    /\ digging' = [digging EXCEPT ![c] = Idle]
    /\ UNCHANGED <<now, digs, lastSeq, sweep, forgotten>>

\* A source or the insert throws, recordTrace swallows its error, or the
\* server stops: the dig ends where it is.
DigAbort(c) ==
    /\ digging[c] # Idle
    /\ digging' = [digging EXCEPT ![c] = Idle]
    /\ UNCHANGED <<now, traces, days, digs, written, lastSeq, sweep, forgotten>>

----------------------------------------------------------------------------
(* forgetKeyword *)

\* MUTANT of ForgetKey: normalised without the clip.
UnclippedKey(s) == Norm[s]

ForgetKey(s) == KeyOf(s)

\* One batch over the three tables.
Forget(s) ==
    LET k == ForgetKey(s) IN
    /\ k # NoKey
    /\ traces' = {row \in traces : row.key # k}
    /\ days' = [bucket \in Keys \X Days |->
                  IF bucket[1] = k THEN 0 ELSE days[bucket]]
    /\ digs' = {row \in digs : row.key # k}
    /\ forgotten' = IF \E c \in Slots : digging[c] # Idle /\ digging[c].key = KeyOf(s)
                      THEN forgotten ELSE forgotten \cup {KeyOf(s)}
    /\ sweep' = [sweep EXCEPT !.crossed = sweep.step \in {"traces.cap", "digs.cap"}]
    /\ UNCHANGED <<now, written, lastSeq, digging>>

----------------------------------------------------------------------------
(* The janitor's policies for these tables, in their order. *)

JanitorStart ==
    /\ sweep.step = "idle"
    /\ sweep' = [At("traces.days") EXCEPT !.cutoff = now - Retention]
    /\ UNCHANGED <<now, traces, days, digs, written, lastSeq, digging, forgotten>>

\* MUTANT of JanitorDays: the buckets go with the rows.
JanitorDaysAndBuckets ==
    /\ sweep.step = "traces.days"
    /\ traces' = {row \in traces : row.at >= sweep.cutoff}
    /\ days' = [bucket \in Keys \X Days |->
                  IF bucket[2] <= DayOf(sweep.cutoff) THEN 0 ELSE days[bucket]]
    /\ sweep' = At("traces.count")
    /\ UNCHANGED <<now, digs, written, lastSeq, digging, forgotten>>

\* No statement touches trace_days.
JanitorDays ==
    /\ sweep.step = "traces.days"
    /\ traces' = {row \in traces : row.at >= sweep.cutoff}
    /\ sweep' = At("traces.count")
    /\ UNCHANGED <<now, days, digs, written, lastSeq, digging, forgotten>>

\* The n oldest rows of a table: ORDER BY at ASC, rowid ASC LIMIT n.
OldestTraces(n) ==
    {row \in traces :
        Cardinality({r \in traces :
            r.at < row.at \/ (r.at = row.at /\ r.id < row.id)}) < n}
OldestDigs(n) ==
    {row \in digs :
        Cardinality({r \in digs :
            r.at < row.at \/ (r.at = row.at /\ r.seq < row.seq)}) < n}

\* MUTANT of Excess: the cap itself is taken as over it.
ExcessByOne(rows, cap) == Cardinality(rows) - cap + 1

Excess(rows, cap) == Cardinality(rows) - cap

\* MUTANT of Counted: the delete runs whatever the count.
CountedAlways(rows, cap, capStep, nextStep) ==
    sweep' = [At(capStep) EXCEPT !.over = Excess(rows, cap)]

\* capped, up to its delete: the excess is remembered across an await.
Counted(rows, cap, capStep, nextStep) ==
    IF Excess(rows, cap) > 0
      THEN sweep' = [At(capStep) EXCEPT !.over = Excess(rows, cap)]
      ELSE sweep' = At(nextStep)

JanitorCountTraces ==
    /\ sweep.step = "traces.count"
    /\ Counted(traces, TraceCap, "traces.cap", "digs.count")
    /\ UNCHANGED <<now, traces, days, digs, written, lastSeq, digging, forgotten>>

JanitorCapTraces ==
    /\ sweep.step = "traces.cap"
    /\ traces' = traces \ OldestTraces(sweep.over)
    /\ sweep' = At("digs.count")
    /\ UNCHANGED <<now, days, digs, written, lastSeq, digging, forgotten>>

JanitorCountDigs ==
    /\ sweep.step = "digs.count"
    /\ Counted(digs, DigCap, "digs.cap", "idle")
    /\ UNCHANGED <<now, traces, days, digs, written, lastSeq, digging, forgotten>>

JanitorCapDigs ==
    /\ sweep.step = "digs.cap"
    /\ digs' = digs \ OldestDigs(sweep.over)
    /\ sweep' = At("idle")
    /\ UNCHANGED <<now, traces, days, written, lastSeq, digging, forgotten>>

\* A policy throws: the run goes on with the next one.
JanitorSkip ==
    /\ sweep.step # "idle"
    /\ sweep' = At(CASE sweep.step = "traces.days" -> "traces.count"
                      [] sweep.step \in {"traces.count", "traces.cap"} -> "digs.count"
                      [] OTHER -> "idle")
    /\ UNCHANGED <<now, traces, days, digs, written, lastSeq, digging, forgotten>>

Tick ==
    /\ now < MaxNow
    /\ now' = now + 1
    /\ UNCHANGED <<traces, days, digs, written, lastSeq, digging, sweep, forgotten>>

----------------------------------------------------------------------------

Next ==
    \/ \E s \in Spellings : Search(s) \/ Forget(s)
    \/ \E k \in Others : Read(k)
    \/ \E c \in Slots, p \in Principals, s \in Spellings : DigStart(c, p, s)
    \/ \E c \in Slots : DigStamp(c) \/ DigInsert(c) \/ DigTrace(c) \/ DigAbort(c)
    \/ JanitorStart
    \/ JanitorDays
    \/ JanitorCountTraces
    \/ JanitorCapTraces
    \/ JanitorCountDigs
    \/ JanitorCapDigs
    \/ JanitorSkip
    \/ Tick

Spec == Init /\ [][Next]_vars

----------------------------------------------------------------------------
(* Properties. *)

\* What TraceMemory sees of the raw rows.
Log == {[id |-> row.id, key |-> row.key, day |-> DayOf(row.at)] : row \in traces}

Memory == INSTANCE TraceMemory WITH log <- Log, memory <- days

\* The ledger keeps the promise of TraceMemory: log and memory change together
\* on a read and on a forget, and nothing else, the janitor included, touches
\* the memory ("NEVER evicted", 0008_traces.sql:30).
MemorySpec == Memory!Spec

\* No bucket counts fewer reads than there are raw rows of its day, whatever
\* was evicted or forgotten between them (sql.ts:356-359).
BucketsCoverRows ==
    \A k \in Keys, d \in Days :
        Cardinality({row \in Log : row.key = k /\ row.day = d}) <= days[<<k, d>>]

\* A keyword forgotten while no dig of it was in flight has no row in any of
\* the three tables until it is sought again.
ForgottenStaysForgotten ==
    \A k \in forgotten :
        /\ \A row \in traces : row.key # k
        /\ \A row \in digs : row.key # k
        /\ \A d \in Days : days[<<k, d>>] = 0

\* The dig a trace names is the dig that wrote it or is gone: no dig_seq is
\* given out twice, though digs and traces are deleted on different clocks.
TraceNamesItsDig ==
    /\ \A row \in traces, d \in digs :
           row.seq = d.seq => row.key = d.key
    /\ \A c \in Slots, d \in digs :
           digging[c].phase = "inserted" /\ digging[c].seq = d.seq
               => digging[c].key = d.key /\ digging[c].by = d.by

\* The digs of one caller that are on record inside the window or still on
\* their way there exceed the budget by no more than the digs that can be in
\* flight beside the last one admitted: a check that other digs pass at the
\* same time overruns the 60 by that much and no further.
BudgetBounded ==
    \A p \in Principals :
        Cardinality(Spent(p)) + Cardinality(Under(p)) < Budget + Cardinality(Slots)

\* The cap takes no row that is newer than one it leaves, whatever was written
\* since its count, and leaves as many as the cap, unless rows were forgotten
\* between its count and its delete.
CapKeepsNewest ==
    [][/\ JanitorCapTraces => \A gone \in traces \ traces', kept \in traces' : gone.at <= kept.at
       /\ JanitorCapDigs => \A gone \in digs \ digs', kept \in digs' : gone.at <= kept.at
       /\ ~sweep.crossed =>
             /\ JanitorCapTraces => Cardinality(traces') >= TraceCap
             /\ JanitorCapDigs => Cardinality(digs') >= DigCap]_vars

=============================================================================
