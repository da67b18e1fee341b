------------------------- MODULE SchemaLedgerProofs -------------------------
(***************************************************************************)
(* Proofs about SchemaLedger, for any list of migrations, any number of    *)
(* processes, and any number of stops and failures of the file.            *)
(*                                                                         *)
(* The ledger stays honest because a pass has everything behind it         *)
(* recorded (Behind), so that what the next migration needs is there and   *)
(* only one already applied can fail; an adopting pass that caught such a  *)
(* failure therefore records what the schema has (CaughtApplied).          *)
(* StoreBoot, for any number of slips, takes only steps of SchemaLedger,   *)
(* so all of it holds there.  No thread blocks there that is not told to   *)
(* use WAL and finds no file in WAL mode, because an exit 0 in time was    *)
(* seen on that volume (Informed).                                         *)
(***************************************************************************)
EXTENDS StoreBoot, TLAPS

\* What a pass has behind it is recorded, and one that serves is through.
Behind ==
    \A p \in Procs :
        /\ phase[p] \in {"opened", "migrating", "adopting", "up"}
               => Migrations \ left[p] \subseteq ledger
        /\ phase[p] = "up" => left[p] = {}

\* A failure caught by an adopting pass is that of a migration applied.
CaughtApplied ==
    \A p \in Procs : \A m \in Migrations :
        phase[p] = "adopting" /\ AtMigration(p, m) /\ ~masked => m \in done

IInv == TypeOK /\ LedgerIsHonest /\ Behind /\ CaughtApplied

LEMMA InitHolds == Init => IInv
  <1> SUFFICES ASSUME Init PROVE IInv
    OBVIOUS
  <1>1. done \subseteq Migrations /\ ledger \subseteq done
    BY MigrationAssumption DEF Init, Migrations
  <1>2. \A p \in Procs : phase[p] = "off"
    BY DEF Init
  <1>3. TypeOK
    <2>1. /\ phase \in [Procs -> Phases]
          /\ left \in [Procs -> SUBSET Migrations]
          /\ crashes \in 0..MaxCrashes /\ faults \in 0..MaxFaults
      BY MigrationAssumption DEF Init, Phases
    <2>2. baseline \in [Procs -> BOOLEAN] /\ masked \in BOOLEAN /\ torn \in BOOLEAN
      BY Zenon DEF Init
    <2> QED
      BY <1>1, <2>1, <2>2 DEF TypeOK
  <1> QED
    BY <1>1, <1>2, <1>3 DEF IInv, LedgerIsHonest, Behind, CaughtApplied

\* Unless a failure was masked, a migration that fails at its turn is one the
\* schema has: whatever it needs comes before it.
LEMMA FailsWhenApplied ==
    ASSUME IInv, NEW p \in Procs, NEW m \in Migrations, phase[p] = "migrating",
           AtMigration(p, m), ~CanRun(m), ~masked
    PROVE  m \in done
  <1>1. ASSUME NEW n \in Needs[m] PROVE n \in done
    <2>1. n \in Migrations /\ n < m
      BY MigrationAssumption
    <2>2. n \notin left[p]
      BY <2>1 DEF AtMigration, Migrations, MigrationAssumption
    <2> QED
      BY <2>1, <2>2 DEF IInv, Behind, LedgerIsHonest
  <1> QED
    BY <1>1 DEF CanRun, IInv, LedgerIsHonest

LEMMA OpenHolds ==
    ASSUME IInv, NEW p \in Procs, Open(p)
    PROVE  IInv'
  BY DEF Open, Goes, IInv, TypeOK, Phases, LedgerIsHonest, Behind, CaughtApplied, AtMigration

LEMMA InspectHolds ==
    ASSUME IInv, NEW p \in Procs, Inspect(p)
    PROVE  IInv'
  <1>1. Adopts(p) \in BOOLEAN
    BY DEF Adopts
  <1>2. TypeOK'
    BY <1>1 DEF Inspect, Goes, IInv, TypeOK, Phases
  <1> QED
    BY <1>2 DEF Inspect, Goes, IInv, TypeOK, LedgerIsHonest, Behind, CaughtApplied, AtMigration

LEMMA ApplyHolds ==
    ASSUME IInv, NEW p \in Procs, NEW m \in Migrations, Apply(p, m)
    PROVE  IInv'
  BY DEF Apply, Record, IInv, TypeOK, LedgerIsHonest, Behind, CaughtApplied, AtMigration

LEMMA FailHolds ==
    ASSUME IInv, NEW p \in Procs, NEW m \in Migrations, Fail(p, m)
    PROVE  IInv'
  <1>1. ~masked => m \in done
    BY FailsWhenApplied DEF Fail
  <1>2. TypeOK' /\ LedgerIsHonest' /\ Behind'
    BY DEF Fail, Caught, Goes, IInv, TypeOK, Phases, LedgerIsHonest, Behind
  <1>3. CaughtApplied'
    <2> SUFFICES ASSUME NEW q \in Procs, NEW n \in Migrations, phase'[q] = "adopting",
                        AtMigration(q, n)', ~masked'
                 PROVE  n \in done'
      BY DEF CaughtApplied
    <2>1. CASE q = p
      <3>1. n = m
        BY <2>1 DEF Fail, AtMigration, Migrations
      <3> QED
        BY <1>1, <3>1 DEF Fail
    <2>2. CASE q # p
      BY <2>2 DEF Fail, Caught, Goes, IInv, TypeOK, CaughtApplied, AtMigration
    <2> QED
      BY <2>1, <2>2
  <1> QED
    BY <1>2, <1>3 DEF IInv

LEMMA FailByFaultHolds ==
    ASSUME IInv, NEW p \in Procs, NEW m \in Migrations, FailByFault(p, m)
    PROVE  IInv'
  <1>1. masked' \in BOOLEAN /\ (masked => masked') /\ (~masked' => ~baseline[p])
    BY DEF FailByFault, IInv, TypeOK
  <1>2. faults' \in 0..MaxFaults
    BY MigrationAssumption DEF FailByFault, IInv, TypeOK
  <1>3. phase' \in [Procs -> Phases]
    BY DEF FailByFault, Caught, Goes, IInv, TypeOK, Phases
  <1>4. TypeOK'
    BY <1>1, <1>2, <1>3 DEF FailByFault, IInv, TypeOK
  <1>5. LedgerIsHonest' /\ Behind'
    BY <1>1 DEF FailByFault, Caught, Goes, IInv, TypeOK, LedgerIsHonest, Behind
  <1>6. CaughtApplied'
    <2> SUFFICES ASSUME NEW q \in Procs, NEW n \in Migrations, phase'[q] = "adopting",
                        AtMigration(q, n)', ~masked'
                 PROVE  n \in done'
      BY DEF CaughtApplied
    <2>1. phase[q] = "adopting"
      BY <1>1 DEF FailByFault, Caught, Goes, IInv, TypeOK
    <2>2. AtMigration(q, n) /\ ~masked /\ done' = done
      BY <1>1 DEF FailByFault, AtMigration
    <2> QED
      BY <2>1, <2>2 DEF IInv, CaughtApplied
  <1> QED
    BY <1>4, <1>5, <1>6 DEF IInv

LEMMA AdoptHolds ==
    ASSUME IInv, NEW p \in Procs, NEW m \in Migrations, Adopt(p, m)
    PROVE  IInv'
  <1>1. ~masked => m \in done
    BY DEF Adopt, IInv, CaughtApplied
  <1> QED
    BY <1>1
    DEF Adopt, Record, Goes, IInv, TypeOK, Phases, LedgerIsHonest, Behind, CaughtApplied,
        AtMigration

LEMMA AdoptTwiceHolds ==
    ASSUME IInv, NEW p \in Procs, NEW m \in Migrations, AdoptTwice(p, m)
    PROVE  IInv'
  BY DEF AdoptTwice, Goes, IInv, TypeOK, Phases, LedgerIsHonest, Behind, CaughtApplied,
         AtMigration

LEMMA ServeHolds ==
    ASSUME IInv, NEW p \in Procs, Serve(p)
    PROVE  IInv'
  BY DEF Serve, Through, Goes, IInv, TypeOK, Phases, LedgerIsHonest, Behind, CaughtApplied,
         AtMigration

LEMMA CrashHolds ==
    ASSUME IInv, NEW p \in Procs, Crash(p)
    PROVE  IInv'
  <1>1. torn' \in BOOLEAN
    BY DEF Crash, IInv, TypeOK
  <1>2. crashes' \in 0..MaxCrashes
    BY MigrationAssumption DEF Crash, IInv, TypeOK
  <1>3. TypeOK'
    BY <1>1, <1>2 DEF Crash, Goes, IInv, TypeOK, Phases
  <1> QED
    BY <1>3 DEF Crash, Goes, IInv, TypeOK, LedgerIsHonest, Behind, CaughtApplied, AtMigration

LEMMA StepHolds == IInv /\ [Next]_vars => IInv'
  <1> SUFFICES ASSUME IInv, [Next]_vars PROVE IInv'
    OBVIOUS
  <1>1. CASE UNCHANGED vars
    BY <1>1
    DEF vars, IInv, TypeOK, LedgerIsHonest, Behind, CaughtApplied, AtMigration
  <1>2. ASSUME NEW p \in Procs, Step(p) PROVE IInv'
    BY <1>2, OpenHolds, InspectHolds, ApplyHolds, FailHolds, AdoptHolds, AdoptTwiceHolds,
       ServeHolds
    DEF Step
  <1> QED
    BY <1>1, <1>2, FailByFaultHolds, CrashHolds DEF Next

----------------------------------------------------------------------------

\* The inductive invariant holds in every behaviour.
THEOREM Invariance == Spec => []IInv
  BY InitHolds, StepHolds, PTL DEF Spec

\* The rows and the loop's progress keep their shape.
THEOREM TypeCorrect == Spec => []TypeOK
  <1>1. IInv => TypeOK
    BY DEF IInv
  <1> QED
    BY <1>1, Invariance, PTL

\* openSqliteStore records no migration the schema lacks, unless the file
\* failed during an adopting pass.
THEOREM LedgerHolds == Spec => []LedgerIsHonest
  <1>1. IInv => LedgerIsHonest
    BY DEF IInv
  <1> QED
    BY <1>1, Invariance, PTL

\* With the same exception, openSqliteStore returns only once the schema has
\* every migration.
THEOREM UpHolds == Spec => []UpIsWhole
  <1>1. IInv => UpIsWhole
    BY DEF IInv, TypeOK, LedgerIsHonest, Behind, UpIsWhole
  <1> QED
    BY <1>1, Invariance, PTL

----------------------------------------------------------------------------
(* Why a start is given up.  The schema is ahead of the ledger only while   *)
(* nothing is recorded yet, or in what an adopting pass has still to record *)
(* (Ahead); so a pass that does not adopt, and fails though the file does   *)
(* not, was overtaken by another process.                                   *)

Adopting(q) == baseline[q] /\ phase[q] \in {"migrating", "adopting"}

\* Before anything is recorded the schema is as it was found, and a pass that
\* does not adopt found it empty.
Unrecorded ==
    ledger = {} =>
        /\ \E k \in 0..Count : done = 1..k
        /\ \A p \in Procs : phase[p] = "migrating" /\ ~baseline[p] => done = {}

Ahead ==
    ~torn /\ ~masked =>
        \/ ledger = {} \/ done \subseteq ledger
        \/ \E q \in Procs : Adopting(q) /\ done \ ledger \subseteq left[q]

OnlyAdopters == \A p \in Procs : phase[p] = "adopting" => baseline[p]

Order == Unrecorded /\ Ahead /\ OnlyAdopters

\* While nothing is recorded, a pass has everything before it.
LEMMA AllBefore ==
    ASSUME IInv, ledger = {}, NEW p \in Procs, phase[p] \in {"opened", "migrating", "adopting"}
    PROVE  left[p] = Migrations
  BY DEF IInv, TypeOK, Behind

LEMMA InitOrder == Init => Order
  BY DEF Init, Order, Unrecorded, Ahead, OnlyAdopters

\* A migration that is run and recorded, or adopted, is no longer ahead.
LEMMA RecordOrder ==
    ASSUME IInv, Order, NEW p \in Procs, NEW m \in Migrations,
           Apply(p, m) \/ Adopt(p, m)
    PROVE  Order'
  <1>1. /\ done' = done \/ done' = done \cup {m}
        /\ ledger' = ledger \cup {m}
        /\ left' = [left EXCEPT ![p] = @ \ {m}]
        /\ phase' = [phase EXCEPT ![p] = "migrating"]
        /\ UNCHANGED <<baseline, masked, torn>>
        /\ phase[p] \in {"migrating", "adopting"}
    BY DEF Apply, Adopt, Record, Goes, IInv, TypeOK
  <1>2. Unrecorded' /\ OnlyAdopters'
    BY <1>1 DEF Unrecorded, OnlyAdopters, Order, IInv, TypeOK
  <1>3. Ahead'
    <2> SUFFICES ASSUME ~torn, ~masked, ~(done' \subseteq ledger')
                 PROVE  \E q \in Procs : Adopting(q)' /\ done' \ ledger' \subseteq left'[q]
      BY <1>1 DEF Ahead
    <2>1. ~(done \subseteq ledger)
      BY <1>1
    <2>2. PICK q \in Procs : Adopting(q) /\ done \ ledger \subseteq left[q]
      <3>1. CASE ledger = {}
        <4>1. done \subseteq left[p]
          BY <1>1, <3>1, AllBefore DEF IInv, TypeOK
        <4>2. baseline[p]
          BY <1>1, <2>1, <3>1 DEF Order, Unrecorded, OnlyAdopters
        <4> QED
          BY <1>1, <4>1, <4>2 DEF Adopting
      <3>2. CASE ledger # {}
        BY <2>1, <3>2 DEF Order, Ahead
      <3> QED
        BY <3>1, <3>2
    <2>3. Adopting(q)'
      BY <1>1, <2>2 DEF Adopting, IInv, TypeOK
    <2>4. done' \ ledger' \subseteq left'[q]
      BY <1>1, <2>2 DEF IInv, TypeOK
    <2> QED
      BY <2>3, <2>4
  <1> QED
    BY <1>2, <1>3 DEF Order

LEMMA StepOrder == IInv /\ Order /\ [Next]_vars => Order'
  <1> SUFFICES ASSUME IInv, Order, [Next]_vars PROVE Order'
    OBVIOUS
  <1>1. CASE UNCHANGED vars
    BY <1>1 DEF vars, Order, Unrecorded, Ahead, OnlyAdopters, Adopting
  <1>2. ASSUME NEW p \in Procs, Open(p) PROVE Order'
    BY <1>2 DEF Open, Goes, Order, Unrecorded, Ahead, OnlyAdopters, Adopting, IInv, TypeOK
  <1>3. ASSUME NEW p \in Procs, Inspect(p) PROVE Order'
    <2>1. /\ phase' = [phase EXCEPT ![p] = "migrating"]
          /\ baseline' = [baseline EXCEPT ![p] = Adopts(p)]
          /\ phase[p] = "opened"
          /\ UNCHANGED <<done, ledger, left, masked, torn>>
      BY <1>3 DEF Inspect, Goes
    <2>2. ASSUME ledger = {}, ~Adopts(p) PROVE done = {}
      <3>1. PICK k \in 0..Count : done = 1..k
        BY <2>2 DEF Order, Unrecorded
      <3>2. 1 \notin done
        BY <2>1, <2>2, AllBefore DEF Adopts
      <3> QED
        BY <3>1, <3>2, MigrationAssumption
    <2>3. Unrecorded'
      BY <2>1, <2>2 DEF Order, Unrecorded, IInv, TypeOK
    <2>4. Ahead' /\ OnlyAdopters'
      BY <2>1 DEF Order, Ahead, OnlyAdopters, Adopting, IInv, TypeOK
    <2> QED
      BY <2>3, <2>4 DEF Order
  <1>4. ASSUME NEW p \in Procs, NEW m \in Migrations, Fail(p, m) PROVE Order'
    BY <1>4 DEF Fail, Caught, Goes, Order, Unrecorded, Ahead, OnlyAdopters, Adopting,
       IInv, TypeOK
  <1>5. ASSUME NEW p \in Procs, NEW m \in Migrations, FailByFault(p, m) PROVE Order'
    BY <1>5 DEF FailByFault, Caught, Goes, Order, Unrecorded, Ahead, OnlyAdopters,
       Adopting, IInv, TypeOK
  <1>6. ASSUME NEW p \in Procs, NEW m \in Migrations, AdoptTwice(p, m) PROVE Order'
    BY <1>6 DEF AdoptTwice, Goes, Order, Unrecorded, Ahead, OnlyAdopters, IInv, TypeOK
  <1>7. ASSUME NEW p \in Procs, Serve(p) PROVE Order'
    BY <1>7 DEF Serve, Through, Goes, Order, Unrecorded, Ahead, OnlyAdopters, Adopting,
       IInv, TypeOK
  <1>8. ASSUME NEW p \in Procs, Crash(p) PROVE Order'
    BY <1>8 DEF Crash, Goes, Order, Unrecorded, Ahead, OnlyAdopters, Adopting, IInv, TypeOK
  <1> QED
    BY <1>1, <1>2, <1>3, <1>4, <1>5, <1>6, <1>7, <1>8, RecordOrder DEF Next, Step

\* Why a start that is given up is given up.
Excused(p) ==
    \/ faults' > faults
    \/ torn' \/ masked
    \/ \E m \in Migrations : AtMigration(p, m) /\ m \in ledger
    \/ \E q \in Procs \ {p} : Adopting(q)

\* A start ends in an error only when the file failed just then, when an
\* adopting pass broke off or was misled before, or when another process got
\* there first: it has recorded the very migration, or is adopting beside it.
\* A process alone on a sound file is never refused, however often it stopped.
THEOREM DiesForAReason ==
    Spec => [][\A p \in Procs : phase[p] # "dead" /\ phase'[p] = "dead" => Excused(p)]_vars
  <1>1. ASSUME IInv, Order, Next, NEW p \in Procs, phase[p] # "dead", phase'[p] = "dead"
        PROVE  Excused(p)
    <2>1. ASSUME NEW q \in Procs, NEW m \in Migrations, FailByFault(q, m) PROVE Excused(p)
      BY <1>1, <2>1, MigrationAssumption DEF FailByFault, Excused, IInv, TypeOK
    <2>2. ASSUME NEW q \in Procs, NEW m \in Migrations, AdoptTwice(q, m) PROVE Excused(p)
      BY <2>2 DEF AdoptTwice, Excused
    <2>3. ASSUME NEW q \in Procs, NEW m \in Migrations, Fail(q, m) PROVE Excused(p)
      <3>1. q = p /\ ~baseline[p] /\ phase[p] = "migrating" /\ AtMigration(p, m) /\ ~CanRun(m)
        BY <1>1, <2>3 DEF Fail, Caught, Goes, IInv, TypeOK
      <3> SUFFICES ASSUME ~torn, ~masked, m \notin ledger
                   PROVE  \E r \in Procs \ {p} : Adopting(r)
        BY <2>3, <3>1 DEF Excused, Fail
      <3>2. m \in done
        BY <1>1, <3>1, FailsWhenApplied
      <3>3. ledger # {}
        BY <1>1, <3>1, <3>2 DEF Order, Unrecorded
      <3> QED
        BY <1>1, <3>1, <3>2, <3>3 DEF Order, Ahead, Adopting
    <2>4. ASSUME NEW q \in Procs,
                 \/ Open(q) \/ Inspect(q) \/ Serve(q) \/ Crash(q)
                 \/ \E m \in Migrations : Apply(q, m) \/ Adopt(q, m)
          PROVE  FALSE
      BY <1>1, <2>4 DEF Open, Inspect, Serve, Crash, Apply, Adopt, Goes, IInv, TypeOK
    <2> QED
      BY <1>1, <2>1, <2>2, <2>3, <2>4 DEF Next, Step
  <1>2. IInv /\ Order /\ [Next]_vars =>
            [\A p \in Procs : phase[p] # "dead" /\ phase'[p] = "dead" => Excused(p)]_vars
    BY <1>1
  <1> QED
    BY <1>2, InitOrder, StepOrder, Invariance, PTL DEF Spec

----------------------------------------------------------------------------
(* StoreBoot. *)

bvars == <<vars, bootVars>>

\* Every step of the boot is one of the ledger's, or none.
LEMMA BootStepMaps == [BootNext]_bvars => [Next]_vars
  <1> SUFFICES ASSUME [BootNext]_bvars PROVE [Next]_vars
    OBVIOUS
  <1>1. CASE UNCHANGED bvars
    BY <1>1 DEF bvars
  <1>2. ASSUME NEW p \in Procs, Advance(p) PROVE [Next]_vars
    <2>1. CASE Given(p) \/ Spawn(p) \/ ChildTries(p) \/ Deadline(p) \/ Decide(p) \/ SetMode(p)
      BY <2>1 DEF Given, Spawn, ChildTries, Deadline, Decide, SetMode
    <2>2. CASE Migrate(p, Step(p))
      BY <2>2 DEF Migrate, Next
    <2> QED
      BY <1>2, <2>1, <2>2 DEF Advance
  <1>3. ASSUME NEW p \in Procs, SpawnFails(p) \/ BootCrash(p) PROVE [Next]_vars
    BY <1>3 DEF SpawnFails, BootCrash
  <1>4. ASSUME NEW p \in Procs, Migrate(p, \E m \in Migrations : FailByFault(p, m))
        PROVE  [Next]_vars
    BY <1>4 DEF Migrate, Next
  <1>5. ASSUME NEW p \in Procs, Migrate(p, Crash(p)) PROVE [Next]_vars
    BY <1>5 DEF Migrate, Next
  <1> QED
    BY <1>1, <1>2, <1>3, <1>4, <1>5 DEF BootNext

\* The boot, journal mode and all, is an implementation of the ledger: probing,
\* being locked out and being stopped before the file is open change nothing
\* that the migrations depend on.
THEOREM BootImplements == BootSpec => Spec
  <1>1. BootInit => Init
    BY DEF BootInit
  <1>2. BootSpec <=> (BootInit /\ [][BootNext]_bvars)
    BY DEF BootSpec, bvars
  <1> QED
    BY <1>1, <1>2, BootStepMaps, PTL DEF Spec

\* In the composition too, nothing is recorded that the schema lacks.
THEOREM BootLedgerHolds == BootSpec => []LedgerIsHonest
  BY BootImplements, LedgerHolds, PTL

\* In the composition too, nobody serves on less than the whole schema.
THEOREM BootUpHolds == BootSpec => []UpIsWhole
  BY BootImplements, UpHolds, PTL

\* What the boot keeps beside the ledger has its shape.
BootShape ==
    /\ volume \in Volumes
    /\ setting \in Settings
    /\ at \in [Procs -> Places]
    /\ child \in [Procs -> Fates]
    /\ late \in [Procs -> BOOLEAN]
    /\ mode \in [Procs -> Settings]
    /\ fileMode \in Journals
    /\ slips \in 0..MaxSlips

\* A process that is about to ask for WAL was told to or has seen it work on the
\* volume; one that is stuck was told to, or met a file that stays in WAL mode,
\* as nobody can convert it there.
Informed ==
    \A p \in Procs :
        /\ child[p] = "exit 0" => volume = "works"
        /\ at[p] = "decided" /\ mode[p] = "wal" => volume = "works" \/ SettingOf(p) = "wal"
        /\ at[p] = "stuck" =>
               volume = "blocks" /\ (SettingOf(p) = "wal" \/ fileMode = "wal")

BootInv == BootShape /\ Informed

LEMMA BootInitHolds == BootInit => BootInv
  <1> SUFFICES ASSUME BootInit PROVE BootInv
    OBVIOUS
  <1>1. late \in [Procs -> BOOLEAN]
    BY Zenon DEF BootInit
  <1>2. /\ volume \in Volumes /\ setting \in Settings
        /\ at \in [Procs -> Places] /\ child \in [Procs -> Fates]
        /\ mode \in [Procs -> Settings]
        /\ fileMode \in Journals /\ slips \in 0..MaxSlips
    BY BootAssumption DEF BootInit, Places, Fates, Settings
  <1>3. Informed
    BY DEF BootInit, Informed
  <1> QED
    BY <1>1, <1>2, <1>3 DEF BootInv, BootShape

LEMMA SlipBound == slips \in 0..MaxSlips /\ Slip => slips' \in 0..MaxSlips
  BY BootAssumption DEF Slip

LEMMA BootStepHolds == BootInv /\ [BootNext]_bvars => BootInv'
  <1> SUFFICES ASSUME BootInv, [BootNext]_bvars PROVE BootInv'
    OBVIOUS
  <1> USE BootAssumption DEF BootInv, BootShape
  <1>1. CASE UNCHANGED bvars
    BY <1>1 DEF bvars, bootVars, Informed, SettingOf
  <1>2. ASSUME NEW p \in Procs, Given(p) PROVE BootInv'
    BY <1>2 DEF Given, Informed, SettingOf, Settings, Places, Fates
  <1>3. ASSUME NEW p \in Procs, Spawn(p) PROVE BootInv'
    BY <1>3 DEF Spawn, Informed, SettingOf, Settings, Places, Fates
  <1>4. ASSUME NEW p \in Procs, SpawnFails(p) PROVE BootInv'
    BY <1>4, SlipBound DEF SpawnFails, Informed, SettingOf, Settings, Places, Fates
  <1>5. ASSUME NEW p \in Procs, ChildTries(p) PROVE BootInv'
    BY <1>5, SlipBound DEF ChildTries, Informed, SettingOf, Settings, Places, Fates
  <1>6. ASSUME NEW p \in Procs, Deadline(p) PROVE BootInv'
    <2>1. late' \in [Procs -> BOOLEAN]
      BY <1>6, Zenon DEF Deadline
    <2> QED
      BY <1>6, <2>1, SlipBound DEF Deadline, Informed, SettingOf, Settings, Places, Fates
  <1>7. ASSUME NEW p \in Procs, Decide(p) PROVE BootInv'
    <2>1. late' \in [Procs -> BOOLEAN]
      BY <1>7, Zenon DEF Decide
    <2>2. Answer(p) \in {"wal", "delete"} /\ (Answer(p) = "wal" => volume = "works")
      BY DEF Answer, Informed
    <2> QED
      BY <1>7, <2>1, <2>2 DEF Decide, Informed, SettingOf, Settings, Places, Fates
  <1>8. ASSUME NEW p \in Procs, SetMode(p) PROVE BootInv'
    <2>1. Outcome(p) \in Places
      BY DEF Outcome, Places
    <2>2. fileMode' \in Journals
      <3>1. Left(p) \subseteq Journals
        BY DEF Left, Journals
      <3> QED
        BY <1>8, <3>1 DEF SetMode
    <2>3. BootShape'
      BY <1>8, <2>1, <2>2 DEF SetMode
    <2>4. Outcome(p) = "stuck" =>
              volume = "blocks" /\ (SettingOf(p) = "wal" \/ fileMode' = "wal")
      <3> SUFFICES ASSUME Outcome(p) = "stuck"
                   PROVE  volume = "blocks" /\ (SettingOf(p) = "wal" \/ fileMode' = "wal")
        OBVIOUS
      <3>1. ~Opens(p) /\ NeedsIndex(p) /\ volume = "blocks"
        BY DEF Outcome, Opens
      <3>2. fileMode = "wal" => fileMode' = "wal"
        BY <1>8, <3>1 DEF SetMode, Left
      <3>3. mode[p] = "wal" => SettingOf(p) = "wal"
        BY <1>8, <3>1 DEF SetMode, Informed
      <3> QED
        BY <3>1, <3>2, <3>3 DEF NeedsIndex
    <2>5. volume = "blocks" /\ fileMode = "wal" => fileMode' = "wal"
      BY <1>8 DEF SetMode, Opens, NeedsIndex, Left
    <2>6. Informed'
      BY <1>8, <2>4, <2>5 DEF SetMode, Informed, SettingOf
    <2> QED
      BY <2>3, <2>6
  <1>9. ASSUME NEW p \in Procs, BootCrash(p) PROVE BootInv'
    <2>1. late' \in [Procs -> BOOLEAN]
      BY <1>9, Zenon DEF BootCrash
    <2> QED
      BY <1>9, <2>1, SlipBound DEF BootCrash, Informed, SettingOf, Settings, Places, Fates
  <1>10. ASSUME NEW p \in Procs, NEW ACTION A, Migrate(p, A) PROVE BootInv'
    BY <1>10 DEF Migrate, Informed, SettingOf, Places
  <1> QED
    BY <1>1, <1>2, <1>3, <1>4, <1>5, <1>6, <1>7, <1>8, <1>9, <1>10 DEF BootNext, Advance

\* The boot's state and the ledger's keep their shape.
THEOREM BootTypeCorrect == BootSpec => []BootTypeOK
  <1>1. BootInv /\ TypeOK => BootTypeOK
    BY DEF BootInv, BootShape, BootTypeOK
  <1>2. BootSpec <=> (BootInit /\ [][BootNext]_bvars)
    BY DEF BootSpec, bvars
  <1> QED
    BY <1>1, <1>2, BootInitHolds, BootStepHolds, BootImplements, TypeCorrect, PTL

\* No process blocks its own thread on the journal pragma unless JOURNAL_MODE
\* told it to use WAL or the file is in WAL mode already, whatever volume the
\* file was moved to and whatever the timer, the child and the stops do.
THEOREM NeverStuck == BootSpec => []StuckOnlyIfTold
  <1>1. BootInv => StuckOnlyIfTold
    BY DEF BootInv, Informed, StuckOnlyIfTold
  <1>2. BootSpec <=> (BootInit /\ [][BootNext]_bvars)
    BY DEF BootSpec, bvars
  <1> QED
    BY <1>1, <1>2, BootInitHolds, BootStepHolds, PTL

=============================================================================
