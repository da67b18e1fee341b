------------------------------ MODULE StoreBoot ------------------------------
(***************************************************************************)
(* What openSqliteStore does before the migrations: it settles on a        *)
(* journal mode.  A volume that cannot hold WAL blocks the pragma instead  *)
(* of failing it, and a thread blocked in SQLite cannot time itself out;   *)
(* so walProbe (store/wal-probe.ts) has a child process                    *)
(* (wal-probe-child.ts) try it on a scratch file of the same volume, kills *)
(* it at a deadline, and any answer but a clean exit in time means the     *)
(* rollback journal.  With the mode set the file is opened and the         *)
(* migrations run: SchemaLedger, whose steps these are.                    *)
(*                                                                         *)
(* What SQLite does is external.  The mode is in the file's header, so a   *)
(* file may come in WAL mode from another host; and whoever reads such a   *)
(* file, the pragma that converts it included, first needs the index of    *)
(* WAL, which is what a volume may not hold.                               *)
(*                                                                         *)
(* One process is the server, which JOURNAL_MODE may overrule; the others  *)
(* (scripts/perf.ts) pass no options.  The scratch file, which no other    *)
(* process names, and the time the probe takes are left out.               *)
(***************************************************************************)
EXTENDS SchemaLedger

CONSTANTS
    Server,   \* the process that is started with JOURNAL_MODE
    MaxSlips  \* bound on stops before the migrations, failures to spawn, and
              \* children that fail or miss the deadline on a sound volume

ASSUME BootAssumption == Server \in Procs /\ MaxSlips \in Nat

VARIABLES
    volume,   \* what it does with an index of WAL
    setting,  \* JOURNAL_MODE, "auto" when unset
    at,       \* by process: where it is before the migrations
    child,    \* by process: its probe's child
    late,     \* by process: the probe's timer has fired (timedOut)
    mode,     \* by process: the mode decided
    fileMode, \* the journal mode of the database file
    slips

bootVars == <<volume, setting, at, child, late, mode, fileMode, slips>>

Places == {"off", "probing", "decided", "stuck", "open"}
Fates == {"none", "running", "blocked", "exit 0", "exit 1", "killed"}
Settings == {"auto", "wal", "delete"}
Journals == {"wal", "delete"}

\* One without shared memory "declines": the pragma answers another mode.  One
\* whose mapping fails or hangs "throws" or "blocks".
Volumes == {"works", "declines", "throws", "blocks"}

BootTypeOK ==
    /\ TypeOK
    /\ volume \in Volumes
    /\ setting \in Settings
    /\ at \in [Procs -> Places]
    /\ child \in [Procs -> Fates]
    /\ late \in [Procs -> BOOLEAN]
    /\ mode \in [Procs -> Settings]
    /\ fileMode \in Journals
    /\ slips \in 0..MaxSlips

\* Any file on any volume: an earlier host may have left it in WAL mode.
BootInit ==
    /\ Init
    /\ volume \in Volumes
    /\ setting \in Settings
    /\ at = [p \in Procs |-> "off"]
    /\ child = [p \in Procs |-> "none"]
    /\ late = [p \in Procs |-> FALSE]
    /\ mode = [p \in Procs |-> "auto"]
    /\ fileMode \in Journals
    /\ slips = 0

----------------------------------------------------------------------------

Slip == slips < MaxSlips /\ slips' = slips + 1

SettingOf(p) == IF p = Server THEN setting ELSE "auto"

\* The probe is skipped when the mode is given.
Given(p) ==
    /\ at[p] = "off" /\ SettingOf(p) # "auto"
    /\ mode' = [mode EXCEPT ![p] = SettingOf(p)]
    /\ at' = [at EXCEPT ![p] = "decided"]
    /\ UNCHANGED <<vars, volume, setting, child, late, fileMode, slips>>

\* walProbe spawns its child and arms the timer ...
Spawn(p) ==
    /\ at[p] = "off" /\ SettingOf(p) = "auto"
    /\ at' = [at EXCEPT ![p] = "probing"]
    /\ child' = [child EXCEPT ![p] = "running"]
    /\ UNCHANGED <<vars, volume, setting, late, mode, fileMode, slips>>

\* ... or cannot.
SpawnFails(p) ==
    /\ at[p] = "off" /\ SettingOf(p) = "auto"
    /\ Slip
    /\ mode' = [mode EXCEPT ![p] = "delete"]
    /\ at' = [at EXCEPT ![p] = "decided"]
    /\ UNCHANGED <<vars, volume, setting, child, late, fileMode>>

\* The child's PRAGMA journal_mode = WAL on its new file, and what it writes
\* and reads back.  Exit codes 1 and 2 are alike to the parent.
ChildTries(p) ==
    /\ child[p] = "running"
    /\ \/ /\ child' = [child EXCEPT ![p] = CASE volume = "works"  -> "exit 0"
                                             [] volume = "blocks" -> "blocked"
                                             [] OTHER             -> "exit 1"]
          /\ UNCHANGED slips
       \/ volume = "works" /\ child' = [child EXCEPT ![p] = "exit 1"] /\ Slip
    /\ UNCHANGED <<vars, volume, setting, at, late, mode, fileMode>>

\* MUTANT of Deadline: a child that is blocked is waited for.
DeadlineSoft(p) ==
    /\ child[p] = "running" /\ ~late[p]
    /\ Slip
    /\ late' = [late EXCEPT ![p] = TRUE]
    /\ child' = [child EXCEPT ![p] = "killed"]
    /\ UNCHANGED <<vars, volume, setting, at, mode, fileMode>>

\* The timer: SIGKILL, which one that has just exited does not feel.
Deadline(p) ==
    /\ child[p] # "none" /\ ~late[p]
    /\ IF child[p] = "blocked" THEN UNCHANGED slips ELSE Slip
    /\ late' = [late EXCEPT ![p] = TRUE]
    /\ child' = [child EXCEPT ![p] = IF @ \in {"running", "blocked"} THEN "killed" ELSE @]
    /\ UNCHANGED <<vars, volume, setting, at, mode, fileMode>>

\* MUTANT of Answer: only an exit code says that WAL does not work.
AnswerByCode(p) == IF child[p] = "exit 1" THEN "delete" ELSE "wal"

\* The timer is asked before the exit code.
Answer(p) == IF ~late[p] /\ child[p] = "exit 0" THEN "wal" ELSE "delete"

\* await proc.exited, and openSqliteStore takes the answer.
Decide(p) ==
    /\ child[p] \in {"exit 0", "exit 1", "killed"}
    /\ mode' = [mode EXCEPT ![p] = Answer(p)]
    /\ at' = [at EXCEPT ![p] = "decided"]
    /\ child' = [child EXCEPT ![p] = "none"]
    /\ late' = [late EXCEPT ![p] = FALSE]
    /\ UNCHANGED <<vars, volume, setting, fileMode, slips>>

\* Leaving WAL takes the file for itself: SQLITE_BUSY after five seconds.
LockedOut(p) ==
    /\ mode[p] = "delete" /\ fileMode = "wal"
    /\ \E q \in Procs \ {p} : at[q] = "open"

\* The pragma needs the index of WAL: to use it, or to leave it.
NeedsIndex(p) == "wal" \in {mode[p], fileMode}

\* Where the pragma leaves the process ...
Opens(p) ==
    \/ ~NeedsIndex(p)
    \/ volume = "works" /\ ~LockedOut(p)
    \/ volume = "declines" /\ fileMode = "delete"

Outcome(p) ==
    IF Opens(p) THEN "open" ELSE IF volume = "blocks" THEN "stuck" ELSE "off"

\* ... and the file: one that was to become WAL may be marked as such before
\* the index fails.
Left(p) ==
    IF Opens(p) THEN {IF mode[p] = "wal" /\ volume = "works" THEN "wal" ELSE "delete"}
    ELSE IF mode[p] = "wal" THEN {fileMode, "wal"} ELSE {fileMode}

\* new Database(path) and the PRAGMAs, on the thread of the process itself; an
\* error is thrown out of openSqliteStore.
SetMode(p) ==
    /\ at[p] = "decided"
    /\ at' = [at EXCEPT ![p] = Outcome(p)]
    /\ fileMode' \in Left(p)
    /\ UNCHANGED <<vars, volume, setting, child, late, mode, slips>>

\* The migrations, on a file that is open; a process that ends closes it.
Migrate(p, step) ==
    /\ at[p] = "open"
    /\ step
    /\ at' = [at EXCEPT ![p] = IF phase'[p] \in {"off", "dead"} THEN "off" ELSE @]
    /\ UNCHANGED <<volume, setting, child, late, mode, fileMode, slips>>

\* The process is stopped before the migrations; a child it has goes on alone.
BootCrash(p) ==
    /\ at[p] \notin {"off", "open"}
    /\ Slip
    /\ at' = [at EXCEPT ![p] = "off"]
    /\ child' = [child EXCEPT ![p] = "none"]
    /\ late' = [late EXCEPT ![p] = FALSE]
    /\ UNCHANGED <<vars, volume, setting, mode, fileMode>>

----------------------------------------------------------------------------

\* What a process and its child do by themselves.
Advance(p) ==
    \/ Given(p) \/ Spawn(p) \/ ChildTries(p) \/ Deadline(p) \/ Decide(p) \/ SetMode(p)
    \/ Migrate(p, Step(p))

BootNext ==
    \E p \in Procs :
        \/ Advance(p)
        \/ SpawnFails(p)
        \/ Migrate(p, \E m \in Migrations : FailByFault(p, m))
        \/ Migrate(p, Crash(p))
        \/ BootCrash(p)

BootSpec == BootInit /\ [][BootNext]_<<vars, bootVars>>

\* A process runs on, one that ended is started again, and its timer fires.
FairBootSpec == BootSpec /\ \A p \in Procs : WF_<<vars, bootVars>>(Advance(p))

----------------------------------------------------------------------------
(* Properties. *)

\* However the exit of the child, the timer, failures and restarts interleave,
\* no process blocks its own thread on the journal pragma: what probing is for
\* (wal-probe.ts:4-16).  The exceptions are the two the probe cannot see, as it
\* tries a file of its own: JOURNAL_MODE told the process to use WAL, or the
\* database itself is in WAL mode - moved from another host, or marked by a
\* server that was told so.
StuckOnlyIfTold ==
    \A p \in Procs : at[p] = "stuck" => SettingOf(p) = "wal" \/ fileMode = "wal"

\* A file that came in WAL mode to a volume that does not hold it, which the
\* pragma of sqlite.ts:152 cannot convert there.
MovedFile == fileMode = "wal" /\ volume # "works"

\* Started again often enough, every process serves in the end, and stays up:
\* a probe never keeps it waiting.  The exceptions: an adopting pass broke off
\* or was misled; WAL was demanded of a volume that blocks or throws; the file
\* came in WAL mode to one that does not hold it; the server must leave WAL
\* while a process that was not told so keeps the file in it.
ComesUp ==
    \/ <>[](\A p \in Procs : phase[p] = "up")
    \/ <>(torn \/ masked)
    \/ setting = "wal" /\ volume \in {"throws", "blocks"}
    \/ MovedFile
    \/ setting = "delete" /\ <>[](fileMode = "wal")

=============================================================================
