----------------------------- MODULE Migrations -----------------------------
(***************************************************************************)
(* The migration runner (migrate in go2/storage/db.py), run by several     *)
(* processes on one database: worktrees that share it, containers, a       *)
(* second call while the first is at work.                                 *)
(*                                                                         *)
(* A run is one transaction under READ COMMITTED.  It makes sure that      *)
(* schema_migrations exists, reads it, and executes and records every file *)
(* of its checkout that is missing there, in filename order.  What two     *)
(* transactions do to one table, or to one key, the second one waits for,  *)
(* and fails on if the first one commits.                                  *)
(***************************************************************************)
EXTENDS Integers, Sequences, FiniteSets

CONSTANTS
  Migrators,   \* processes that call migrate()
  Checkouts,   \* the sets of *.sql files that their checkouts have
  MaxRuns,     \* bound: calls of migrate()
  MaxKills     \* bound: calls that die, or whose SQL fails

\* A version is the place of its file in the order of the names.
ASSUME CheckoutsAssumption == \A files \in Checkouts : files \subseteq Nat /\ IsFiniteSet(files)
ASSUME RunsAssumption == MaxRuns \in Nat /\ MaxKills \in Nat

VARIABLES
  table,     \* schema_migrations is there, for everybody to see
  recorded,  \* the versions committed in it
  schema,    \* what is committed of the schema: the files that were executed,
             \* in order, each with the checkout it was taken from
  run,       \* what each process is doing
  runs,      \* calls so far
  kills      \* of them, those that died

mvars == <<table, recorded, schema, run, runs, kills>>

Versions == UNION Checkouts

\* Where a call is.
\*   table     about to CREATE TABLE IF NOT EXISTS
\*   blocked   ... which found no table and waits for another that makes one
\*   read      about to read the versions
\*   apply     at its files: done is what it read, mine what it has executed
\*   ended     it returned (ok), or raised
Off      == [pc |-> "off"]
Opened   == [pc : {"table", "blocked", "read"}, files : Checkouts, made : BOOLEAN]
Applying == [pc : {"apply"}, files : Checkouts, made : BOOLEAN,
             done : SUBSET Versions, mine : Seq(Versions)]
Ended    == [pc : {"ended"}, files : Checkouts, ok : BOOLEAN]

Is(m, pc) == run[m].pc = pc

InTransaction(m) == run[m].pc \in {"table", "blocked", "read", "apply"}

\* Another call has made the table and has not committed.
Making(m) == \E n \in Migrators \ {m} : InTransaction(n) /\ run[n].made

Executed(seq) == {seq[i] : i \in DOMAIN seq}

\* Another call has executed v and has not committed.
Executing(m, v) == \E n \in Migrators \ {m} : Is(n, "apply") /\ v \in Executed(run[n].mine)

MInit ==
  /\ table = FALSE /\ recorded = {} /\ schema = <<>>
  /\ run = [m \in Migrators |-> Off]
  /\ runs = 0 /\ kills = 0

-----------------------------------------------------------------------------

Begin(m, files) ==
  /\ ~InTransaction(m) /\ runs < MaxRuns
  /\ runs' = runs + 1
  /\ run' = [run EXCEPT ![m] = [pc |-> "table", files |-> files, made |-> FALSE]]
  /\ UNCHANGED <<table, recorded, schema, kills>>

\* Everything this call did is rolled back.
Fails(m) ==
  /\ run' = [run EXCEPT ![m] = [pc |-> "ended", files |-> @.files, ok |-> FALSE]]
  /\ UNCHANGED <<table, recorded, schema, runs>>

\* CREATE TABLE IF NOT EXISTS: it is there, or it is made.
EnsureTable(m) ==
  /\ Is(m, "table") \/ (Is(m, "blocked") /\ ~table)
  /\ ~Making(m)
  /\ run' = [run EXCEPT ![m] = [@ EXCEPT !.pc = "read", !.made = ~table]]
  /\ UNCHANGED <<table, recorded, schema, runs, kills>>

\* ... or somebody else is about to make it: the second one to insert the
\* name of the table waits for the first.
WaitForTable(m) ==
  /\ Is(m, "table") /\ ~table /\ Making(m)
  /\ run' = [run EXCEPT ![m].pc = "blocked"]
  /\ UNCHANGED <<table, recorded, schema, runs, kills>>

\* ... and fails if that one commits, IF NOT EXISTS or not.
TableCollides(m) ==
  /\ Is(m, "blocked") /\ table
  /\ Fails(m) /\ UNCHANGED kills

\* _applied_versions
ReadVersions(m) ==
  /\ Is(m, "read")
  /\ run' = [run EXCEPT ![m] = [pc |-> "apply", files |-> @.files, made |-> @.made,
                                done |-> recorded, mine |-> <<>>]]
  /\ UNCHANGED <<table, recorded, schema, runs, kills>>

\* The files that are not in `done`, and not yet executed.
Pending(m) == run[m].files \ (run[m].done \cup Executed(run[m].mine))

\* A slip: the files come as glob finds them.
AnyOf(m, v) == v \in Pending(m)

\* sorted(glob): v is the next file.
NextFile(m, v) == v \in Pending(m) /\ \A u \in Pending(m) : v <= u

\* A slip: INSERT ... ON CONFLICT DO NOTHING, after SQL that may run twice.
ApplyAgain(m, v) ==
  /\ Is(m, "apply") /\ NextFile(m, v)
  /\ ~Executing(m, v)
  /\ run' = [run EXCEPT ![m].mine = Append(@, v)]
  /\ UNCHANGED <<table, recorded, schema, runs, kills>>

\* The file's SQL and the INSERT of its version.
Apply(m, v) ==
  /\ Is(m, "apply") /\ NextFile(m, v)
  /\ ~Executing(m, v) /\ v \notin recorded
  /\ run' = [run EXCEPT ![m].mine = Append(@, v)]
  /\ UNCHANGED <<table, recorded, schema, runs, kills>>

\* Somebody has committed v since this call read the versions: its SQL
\* meets what is there already, or the INSERT the key.
VersionCollides(m, v) ==
  /\ Is(m, "apply") /\ NextFile(m, v)
  /\ v \in recorded
  /\ Fails(m) /\ UNCHANGED kills

Batch(m) == [i \in DOMAIN run[m].mine |-> [version |-> run[m].mine[i], by |-> run[m].files]]

Commit(m) ==
  /\ Is(m, "apply") /\ Pending(m) = {}
  /\ table' = TRUE
  /\ recorded' = recorded \cup Executed(run[m].mine)
  /\ schema' = schema \o Batch(m)
  /\ run' = [run EXCEPT ![m] = [pc |-> "ended", files |-> @.files, ok |-> TRUE]]
  /\ UNCHANGED <<runs, kills>>

\* A slip: each file is committed when it is done.
DieHalfway(m) ==
  /\ InTransaction(m) /\ kills < MaxKills
  /\ kills' = kills + 1
  /\ run' = [run EXCEPT ![m] = [pc |-> "ended", files |-> @.files, ok |-> FALSE]]
  /\ IF Is(m, "apply")
       THEN table' = TRUE /\ recorded' = recorded \cup Executed(run[m].mine)
            /\ schema' = schema \o Batch(m)
       ELSE UNCHANGED <<table, recorded, schema>>
  /\ UNCHANGED runs

\* The process dies, the connection breaks or a statement fails.
Die(m) ==
  /\ InTransaction(m) /\ kills < MaxKills
  /\ kills' = kills + 1
  /\ Fails(m)

-----------------------------------------------------------------------------

\* The next statement of the call.
Proceed(m) ==
  \/ EnsureTable(m) \/ WaitForTable(m) \/ TableCollides(m) \/ ReadVersions(m) \/ Commit(m)
  \/ \E v \in Versions : Apply(m, v) \/ VersionCollides(m, v)

MNext ==
  \/ \E m \in Migrators, files \in Checkouts : Begin(m, files)
  \/ \E m \in Migrators : Proceed(m) \/ Die(m)

MSpec == MInit /\ [][MNext]_mvars

-----------------------------------------------------------------------------
(* Properties. *)

MTypeOK ==
  /\ table \in BOOLEAN
  /\ recorded \subseteq Versions
  /\ schema \in Seq([version : Versions, by : Checkouts])
  /\ run \in [Migrators -> {Off} \cup Opened \cup Applying \cup Ended]
  /\ runs \in 0..MaxRuns /\ kills \in 0..MaxKills

\* "applied in order and recorded": whoever migrates at once, dies or fails,
\* a version is recorded exactly if its SQL is in the schema, and no file was
\* ever executed twice.
AppliedOnce ==
  /\ recorded = {schema[i].version : i \in DOMAIN schema}
  /\ \A i, j \in DOMAIN schema : schema[i].version = schema[j].version => i = j

\* A file was executed on a schema that had every earlier file of its
\* checkout, although it is only the calls that sort, and several of them
\* with different files made the schema together.
OnEarlierFiles ==
  \A j \in DOMAIN schema : \A u \in schema[j].by :
    u < schema[j].version => \E i \in 1..(j - 1) : schema[i].version = u

\* migrate() is all or nothing, and several are as if one after another.
Upgrades == INSTANCE SchemaUpgrade WITH Checkouts <- Checkouts, recorded <- recorded
WholeUpgrades == Upgrades!Spec

=============================================================================
