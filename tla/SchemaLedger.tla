---------------------------- MODULE SchemaLedger ----------------------------
(***************************************************************************)
(* Opening the database (openSqliteStore in store/sqlite.ts, called by     *)
(* server.ts): the migrations run in order, each at most once, tracked in  *)
(* the table schema_migrations; a database older than that table is        *)
(* adopted in one tolerant pass.  The server may stop anywhere, is started *)
(* again, and a second process (a CLI) may open the same file.             *)
(*                                                                         *)
(* A migration is its number.  What matters of its SQL is whether it can   *)
(* run twice (Once: it cannot, like the RENAME of 0004 and the ADD COLUMN  *)
(* of 0009) and which earlier ones it builds on (Needs).  One transaction  *)
(* runs a migration and records it, so it is one action.                   *)
(***************************************************************************)
EXTENDS Integers, FiniteSets

CONSTANTS
    Count,      \* the number of migration files
    Once,       \* those that fail on a schema that has them
    Needs,      \* the earlier ones whose tables each of them alters
    Procs,      \* processes that open the file
    MaxCrashes, \* bound on stops
    MaxFaults   \* bound on failures of the file: full, or busy for 5 s

Migrations == 1..Count

ASSUME MigrationAssumption ==
    /\ Count \in Nat \ {0}
    /\ Once \subseteq Migrations
    /\ Needs \in [Migrations -> SUBSET Migrations]
    /\ \A m \in Migrations : \A n \in Needs[m] : n < m
    /\ MaxCrashes \in Nat /\ MaxFaults \in Nat

VARIABLES
    done,     \* the migrations the schema has
    ledger,   \* table schema_migrations
    phase,    \* by process: where openSqliteStore is
    left,     \* by process: migrations the loop has not come to
    baseline, \* by process: this pass adopts
    crashes, faults,
    masked,   \* history: a failure of the file hit an adopting pass
    torn      \* history: an adopting pass broke off

vars == <<done, ledger, phase, left, baseline, crashes, faults, masked, torn>>

Phases == {"off", "opened", "migrating", "adopting", "up", "dead"}

TypeOK ==
    /\ done \subseteq Migrations
    /\ ledger \subseteq Migrations
    /\ phase \in [Procs -> Phases]
    /\ left \in [Procs -> SUBSET Migrations]
    /\ baseline \in [Procs -> BOOLEAN]
    /\ crashes \in 0..MaxCrashes
    /\ faults \in 0..MaxFaults
    /\ masked \in BOOLEAN
    /\ torn \in BOOLEAN

\* A new file, one whose ledger is right, or one from before the ledger.
Init ==
    /\ \E k \in 0..Count :
           /\ done = 1..k
           /\ ledger \in {1..k, {}}
    /\ phase = [p \in Procs |-> "off"]
    /\ left = [p \in Procs |-> {}]
    /\ baseline = [p \in Procs |-> FALSE]
    /\ crashes = 0
    /\ faults = 0
    /\ masked = FALSE
    /\ torn = FALSE

----------------------------------------------------------------------------

Goes(p, to) == phase' = [phase EXCEPT ![p] = to]

\* SELECT name FROM schema_migrations.
Open(p) ==
    /\ phase[p] \in {"off", "dead"}
    /\ Goes(p, "opened")
    /\ left' = [left EXCEPT ![p] = Migrations \ ledger]
    /\ UNCHANGED <<done, ledger, baseline, crashes, faults, masked, torn>>

\* Nothing recorded, and the tables of the first migration are there.
Adopts(p) == left[p] = Migrations /\ 1 \in done

Inspect(p) ==
    /\ phase[p] = "opened"
    /\ Goes(p, "migrating")
    /\ baseline' = [baseline EXCEPT ![p] = Adopts(p)]
    /\ UNCHANGED <<done, ledger, left, crashes, faults, masked, torn>>

\* The migration the loop is at.
AtMigration(p, m) == m \in left[p] /\ \A n \in left[p] : m <= n

\* Its SQL runs, and its row is not in the ledger yet.
CanRun(m) ==
    /\ Needs[m] \subseteq done
    /\ ~(m \in Once /\ m \in done)
    /\ m \notin ledger

\* MUTANT of Record: the index has moved on when the name is read.
RecordNext(m) == ledger' = ledger \cup {m + 1}

Record(m) == ledger' = ledger \cup {m}

Apply(p, m) ==
    /\ phase[p] = "migrating"
    /\ AtMigration(p, m)
    /\ CanRun(m)
    /\ done' = done \cup {m}
    /\ Record(m)
    /\ left' = [left EXCEPT ![p] = @ \ {m}]
    /\ UNCHANGED <<phase, baseline, crashes, faults, masked, torn>>

\* MUTANT of Caught: every failure is taken as already applied.
CaughtAlways(p) == Goes(p, "adopting")

\* Only the adopting pass takes a failure as already applied.
Caught(p) == Goes(p, IF baseline[p] THEN "adopting" ELSE "dead")

Fail(p, m) ==
    /\ phase[p] = "migrating"
    /\ AtMigration(p, m)
    /\ ~CanRun(m)
    /\ Caught(p)
    /\ UNCHANGED <<done, ledger, left, baseline, crashes, faults, masked, torn>>

\* The file is full, or locked for longer than busy_timeout.
FailByFault(p, m) ==
    /\ phase[p] = "migrating"
    /\ AtMigration(p, m)
    /\ faults < MaxFaults
    /\ faults' = faults + 1
    /\ Caught(p)
    /\ masked' = (masked \/ baseline[p])
    /\ UNCHANGED <<done, ledger, left, baseline, crashes, torn>>

\* record(), outside the transaction that failed.
Adopt(p, m) ==
    /\ phase[p] = "adopting"
    /\ AtMigration(p, m)
    /\ m \notin ledger
    /\ Record(m)
    /\ left' = [left EXCEPT ![p] = @ \ {m}]
    /\ Goes(p, "migrating")
    /\ UNCHANGED <<done, baseline, crashes, faults, masked, torn>>

\* The row is there already: record() throws out of the catch.
AdoptTwice(p, m) ==
    /\ phase[p] = "adopting"
    /\ AtMigration(p, m)
    /\ m \in ledger
    /\ Goes(p, "dead")
    /\ torn' = TRUE
    /\ UNCHANGED <<done, ledger, left, baseline, crashes, faults, masked>>

\* MUTANT of Through: the loop ends at the last migration recorded elsewhere.
ThroughEarly(p) == left[p] \subseteq ledger \/ Cardinality(left[p]) = 1

Through(p) == left[p] = {}

Serve(p) ==
    /\ phase[p] = "migrating"
    /\ Through(p)
    /\ Goes(p, "up")
    /\ UNCHANGED <<done, ledger, left, baseline, crashes, faults, masked, torn>>

Crash(p) ==
    /\ phase[p] \notin {"off", "dead"}
    /\ crashes < MaxCrashes
    /\ crashes' = crashes + 1
    /\ Goes(p, "off")
    /\ torn' = (torn \/ (baseline[p] /\ phase[p] \in {"migrating", "adopting"}))
    /\ UNCHANGED <<done, ledger, left, baseline, faults, masked>>

----------------------------------------------------------------------------

\* What the process does by itself.
Step(p) ==
    \/ Open(p)
    \/ Inspect(p)
    \/ \E m \in Migrations : \/ Apply(p, m)
                             \/ Fail(p, m)
                             \/ Adopt(p, m)
                             \/ AdoptTwice(p, m)
    \/ Serve(p)

Next ==
    \E p \in Procs : \/ Step(p)
                     \/ \E m \in Migrations : FailByFault(p, m)
                     \/ Crash(p)

Spec == Init /\ [][Next]_vars

\* A process runs on, and one that ended is started again.
FairSpec == Spec /\ \A p \in Procs : WF_vars(Step(p))

----------------------------------------------------------------------------
(* Properties. *)

\* Whatever stops and whoever else opens the file, nothing is recorded that
\* the schema does not have, unless the file failed during an adopting pass,
\* which takes the failure for "already applied".
LedgerIsHonest == ~masked => ledger \subseteq done

\* With the same exception, the application is never served on a schema that
\* lacks a migration.
UpIsWhole ==
    \A p \in Procs : phase[p] = "up" /\ ~masked => done = Migrations

\* docs/self-hosted/README.md:233-235 and sqlite.ts:168: starting it again is
\* a safe recovery step.
StartAgainWorks == <>[](\A p \in Procs : phase[p] = "up")

=============================================================================
