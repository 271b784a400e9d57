------------------------------ MODULE Migrations ------------------------------
(***************************************************************************)
(* The migration engine (src/infrastructure/migrations/engine.py) on a     *)
(* SQLite connection.  A SAVEPOINT opens a transaction when none is open;  *)
(* ROLLBACK TO restores the state its newest mark of that name saved and   *)
(* keeps both the mark and the transaction, so after a dry run or a        *)
(* failure the transaction stays open.  RELEASE drops the mark; that of    *)
(* the oldest mark is the commit.  Inside a transaction left open, only    *)
(* the commit() after it is.  Statements run one at a time and any of them *)
(* can fail, a commit because the database is busy; the process can stop   *)
(* between two of them.                                                    *)
(***************************************************************************)
EXTENDS Naturals, Sequences, FiniteSets, SequencesExt

CONSTANTS
  Versions,     \* discovered migrations
  Objects,      \* [Versions -> sequence of the tables the script creates]
  Undoable,     \* migrations with an undo script
  MaxMarks      \* bound on the savepoints left open

\* The tables a migration's script creates.
TablesOf(v) == {Objects[v][i] : i \in DOMAIN Objects[v]}

\* The scripts in migrations/ create no table twice.
ASSUME MigrationAssumption ==
  /\ \A v \in Versions : Objects[v] \in Seq(STRING)
  /\ \A v, u \in Versions : v # u => TablesOf(v) \cap TablesOf(u) = {}

VARIABLES
  disk,         \* committed tables and schema_migrations
  work,         \* the connection's view of them
  marks,        \* open savepoints, oldest first; <<>> when no transaction is open
  job,          \* the engine call that is running
  stranded      \* history: a commit failed in the open transaction, whose work stays

migrationVars == <<disk, work, marks, job, stranded>>

-----------------------------------------------------------------------------

NoJob == [at |-> "idle"]

\* _init_schema_migrations_table on a new database.
MigrationsInit ==
  /\ disk = [tables |-> {}, status |-> [v \in Versions |-> "PENDING"]]
  /\ work = disk
  /\ marks = <<>>
  /\ job = NoJob
  /\ stranded = FALSE

Script(kind, v) == IF kind = "rollback" THEN Reverse(Objects[v]) ELSE Objects[v]

\* SAVEPOINT, at the start of dry_run_migration, apply_migration and
\* rollback_migration, each with a name of its own; the last one needs an undo
\* script.
Begin(kind, v) ==
  /\ job = NoJob
  /\ Len(marks) < MaxMarks
  /\ kind = "rollback" => v \in Undoable
  /\ marks' = Append(marks, [name |-> kind, saved |-> work])
  /\ job' = [at |-> "script", kind |-> kind, version |-> v, left |-> Script(kind, v)]
  /\ UNCHANGED <<disk, work, stranded>>

\* One statement: CREATE TABLE IF NOT EXISTS or DROP TABLE IF EXISTS.
Execute ==
  /\ job.at = "script"
  /\ job.left # <<>>
  /\ work' = [work EXCEPT !.tables =
       IF job.kind = "rollback" THEN @ \ {Head(job.left)}
                                ELSE @ \cup {Head(job.left)}]
  /\ job' = [job EXCEPT !.left = Tail(@)]
  /\ UNCHANGED <<disk, marks, stranded>>

\* Mutant: the exception handler does not roll back.
ForgetRollback ==
  /\ UNCHANGED <<disk, work, marks, stranded>>
  /\ job' = NoJob

MarksNamed(name) == {i \in DOMAIN marks : marks[i].name = name}

\* ROLLBACK TO SAVEPOINT: the newest mark of the call's name is restored and
\* stays, later marks go.  Without such a mark the statement raises and
\* restores nothing.
RollbackTo ==
  /\ job' = NoJob
  /\ UNCHANGED disk
  /\ IF MarksNamed(job.kind) # {}
     THEN \E i \in MarksNamed(job.kind) :
            /\ \A j \in MarksNamed(job.kind) : j <= i
            /\ work' = marks[i].saved
            /\ marks' = SubSeq(marks, 1, i)
            /\ UNCHANGED stranded
     ELSE /\ stranded' = TRUE
          /\ UNCHANGED <<work, marks>>

\* A statement fails: of the script, for instance one the dialect filter left
\* unportable, the row's, or a RELEASE that would commit, which keeps the mark.
StatementFails ==
  /\ job.at = "script" \/ (job.at = "release" /\ Len(marks) = 1)
  /\ RollbackTo

FinishDryRun ==
  /\ job.at = "script"
  /\ job.kind = "dry_run"
  /\ job.left = <<>>
  /\ RollbackTo

\* The row of the migration; an UPDATE of a row that does not exist (a
\* rollback of what was never applied) changes nothing.
Logged(kind, old) ==
  IF kind = "apply" THEN "APPLIED"
  ELSE IF old = "PENDING" THEN "PENDING" ELSE "ROLLED_BACK"

WriteRow ==
  /\ job.at = "script"
  /\ job.kind # "dry_run"
  /\ job.left = <<>>
  /\ work' = [work EXCEPT !.status[job.version] = Logged(job.kind, @)]
  /\ job' = [job EXCEPT !.at = "release"]
  /\ UNCHANGED <<disk, marks, stranded>>

\* The transaction ends and its work is on disk.
Committed ==
  /\ disk' = work
  /\ marks' = <<>>
  /\ job' = NoJob
  /\ stranded' = FALSE
  /\ UNCHANGED work

\* RELEASE of the oldest mark commits, and the commit() after it does nothing.
ReleaseCommits == job.at = "release" /\ Len(marks) = 1 /\ Committed

\* RELEASE inside a transaction left open drops the mark of the call.
ReleaseMark ==
  /\ job.at = "release"
  /\ Len(marks) > 1
  /\ marks' = Front(marks)
  /\ job' = [job EXCEPT !.at = "commit"]
  /\ UNCHANGED <<disk, work, stranded>>

Commit == job.at = "commit" /\ Committed

\* commit() raises: the handler's ROLLBACK TO finds a mark of its name only if
\* an earlier failed call left one.
CommitFails == job.at = "commit" /\ RollbackTo

\* The process stops; the next engine opens the committed database.
ProcessStops ==
  /\ work' = disk
  /\ marks' = <<>>
  /\ job' = NoJob
  /\ stranded' = FALSE
  /\ UNCHANGED disk

MigrationsNext ==
  \/ \E v \in Versions, kind \in {"dry_run", "apply", "rollback"} : Begin(kind, v)
  \/ Execute
  \/ StatementFails
  \/ FinishDryRun
  \/ WriteRow
  \/ ReleaseCommits
  \/ ReleaseMark
  \/ Commit
  \/ CommitFails
  \/ ProcessStops

MigrationsSpec == MigrationsInit /\ [][MigrationsNext]_migrationVars

-----------------------------------------------------------------------------
(* Properties *)

\* Every migration has all its tables when its row is APPLIED, else none.
Whole(db) ==
  \A v \in Versions :
    TablesOf(v) \cap db.tables = IF db.status[v] = "APPLIED" THEN TablesOf(v) ELSE {}

\* What is committed, and between calls what the connection sees, are whole
\* migrations, the ones schema_migrations calls APPLIED.  Between calls it is
\* the committed state, so that a dry run and a failed call leave nothing
\* behind in the transaction they leave open, except after a commit() that
\* failed when its savepoint was already released.
SchemaMatchesLog ==
  /\ Whole(disk)
  /\ job = NoJob => Whole(work)
  /\ job = NoJob /\ ~stranded => work = disk

=============================================================================
