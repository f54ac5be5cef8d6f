------------------------------- MODULE Store -------------------------------
(***************************************************************************)
(* PopulationStore of src/population_tracker/storage.py: opening the       *)
(* SQLite file, with the two migrations of _create_schema, and recording   *)
(* one sample.  Each run is a process of its own; it can be killed between *)
(* any two statements.                                                     *)
(*                                                                         *)
(* The sqlite3 module opens a transaction before an INSERT and not before  *)
(* DDL: a CREATE or ALTER outside a transaction is committed by itself.    *)
(* "db" is what is committed, "work" what the open transaction has made of *)
(* it, and "holder" the run that holds the write lock.                     *)
(***************************************************************************)
EXTENDS Naturals, Sequences, FiniteSets

CONSTANTS
    Runs,    \* the runs of the tracker
    NoRun,   \* no run at all: the holder of a free lock, the run of an old row
    Legacy,  \* the database files the first run may find, see Files
    Overlap, \* may a run start before the others have ended?
    MaxKills \* how many runs are killed (power loss, workflow time limit) or
             \* cannot commit (disk full, another process still reading)

VARIABLES
    pc,      \* pc[r]: the next statement of run r
    needs,   \* needs[r]: needs_rebuild, as run r read it
    sample,  \* sample[r]: the sample of run r
    db,      \* the committed database
    work,    \* the database as the open transaction sees it
    holder,  \* the run whose transaction is open
    kills    \* how many runs have been killed or could not commit

storeVars == <<pc, needs, sample, db, work, holder, kills>>

Counts == {"null", "known"}
Rows   == [run : Runs \cup {NoRun}, total : Counts, active : Counts]
(* table: the NOT NULL constraints of population, or no such table at all; *)
(* active: has it that column?  spare: is there a population_new?          *)
Files  == [table : {"none", "strict", "nullable"}, active : BOOLEAN,
           spare : BOOLEAN, rows : Seq(Rows)]
Samples == {"failed", "read"}

ASSUME NoRunAssumption  == NoRun \notin Runs
ASSUME LegacyAssumption == Legacy # {} /\ Legacy \subseteq Files
(* No run has been here, and without a table there are no rows.            *)
ASSUME OldRowsAssumption ==
    \A d \in Legacy : /\ \A i \in DOMAIN d.rows : d.rows[i].run = NoRun
                      /\ d.table = "none" => d.rows = <<>>
(* The table that declares NOT NULL is older than the column active: what  *)
(* the rebuild leaves out of its copy is not there yet.                    *)
ASSUME StrictAssumption ==
    \A d \in Legacy : d.table = "strict" =>
        ~d.active /\ \A i \in DOMAIN d.rows : d.rows[i].active = "null"
ASSUME KillsAssumption  == MaxKills \in Nat /\ Overlap \in BOOLEAN

Ended == {"closed", "raised", "killed"}

StoreInit ==
    /\ pc = [r \in Runs |-> "off"]
    /\ needs = [r \in Runs |-> FALSE]
    /\ sample = [r \in Runs |-> "failed"]
    /\ db \in Legacy /\ work = db
    /\ holder = NoRun /\ kills = 0
-----------------------------------------------------------------------------
Goto(r, next) == pc' = [pc EXCEPT ![r] = next]

(* A write outside a transaction is committed at once; it needs the lock.  *)
Autocommit(new) == holder = NoRun /\ db' = new /\ work' = new

(* The first INSERT opens the transaction.                                 *)
Begin(r, new) == holder = NoRun /\ holder' = r /\ work' = new

CommitForgotten(r) == holder = r /\ work' = db /\ holder' = NoRun /\ UNCHANGED db \* mutant
Commit(r) == holder = r /\ db' = work /\ holder' = NoRun /\ UNCHANGED work

(* PopulationStore(path), with the sample that will be recorded            *)
Open(r, s) ==
    /\ pc[r] = "off"
    /\ Overlap \/ \A q \in Runs : pc[q] \in {"off"} \cup Ended
    /\ sample' = [sample EXCEPT ![r] = s]
    /\ Goto(r, "create")
    /\ UNCHANGED <<needs, db, work, holder, kills>>

NewTable == [table |-> "nullable", active |-> TRUE, spare |-> db.spare, rows |-> <<>>]

(* _create_schema: CREATE TABLE IF NOT EXISTS takes no lock when there is  *)
(* nothing to create.                                                      *)
CreateTable(r) ==
    /\ pc[r] = "create"
    /\ IF db.table = "none" THEN Autocommit(NewTable) ELSE UNCHANGED <<db, work>>
    /\ Goto(r, "checkNotNull")
    /\ UNCHANGED <<needs, sample, holder, kills>>

(* needs_rebuild of _migrate_drop_not_null                                 *)
NeverStrict == FALSE \* mutant
NeedsRebuild == db.table = "strict"

CheckNotNull(r) ==
    /\ pc[r] = "checkNotNull"
    /\ needs' = [needs EXCEPT ![r] = NeedsRebuild]
    /\ Goto(r, IF needs'[r] THEN "createNew" ELSE "checkActive")
    /\ UNCHANGED <<sample, db, work, holder, kills>>

(* CREATE TABLE population_new: no transaction is open yet.                *)
CreateNew(r) ==
    /\ pc[r] = "createNew" /\ ~db.spare
    /\ Autocommit([db EXCEPT !.spare = TRUE])
    /\ Goto(r, "rebuild")
    /\ UNCHANGED <<needs, sample, holder, kills>>

CreateNewFails(r) ==
    /\ pc[r] = "createNew" /\ db.spare
    /\ Goto(r, "raised")
    /\ UNCHANGED <<needs, sample, db, work, holder, kills>>

(* all_columns does not name active: the copy is without it.               *)
RebuiltEmpty(d) == [table |-> "nullable", active |-> FALSE, spare |-> FALSE, \* mutant
                    rows |-> <<>>]
Rebuilt(d) == [table |-> "nullable", active |-> FALSE, spare |-> FALSE,
               rows |-> [i \in DOMAIN d.rows |-> [d.rows[i] EXCEPT !.active = "null"]]]

(* INSERT ... SELECT, DROP TABLE and RENAME, in the transaction that the   *)
(* INSERT opens.                                                           *)
Rebuild(r) ==
    /\ pc[r] = "rebuild"
    /\ Begin(r, Rebuilt(db))
    /\ Goto(r, "commitRebuild")
    /\ UNCHANGED <<needs, sample, db, kills>>

CommitRebuild(r) ==
    /\ pc[r] = "commitRebuild"
    /\ Commit(r)
    /\ Goto(r, "checkActive")
    /\ UNCHANGED <<needs, sample, kills>>

(* _migrate_add_active *)
HasActiveAssumed(d) == TRUE \* mutant
HasActive(d) == d.active

CheckActive(r) ==
    /\ pc[r] = "checkActive"
    /\ Goto(r, IF HasActive(db) THEN "insert" ELSE "addActive")
    /\ UNCHANGED <<needs, sample, db, work, holder, kills>>

AddActiveAsZero(r) == \* mutant
    /\ pc[r] = "addActive" /\ ~db.active
    /\ Autocommit([db EXCEPT !.active = TRUE,
                             !.rows = [i \in DOMAIN db.rows |-> [db.rows[i] EXCEPT !.active = "known"]]])
    /\ Goto(r, "insert")
    /\ UNCHANGED <<needs, sample, holder, kills>>
AddActive(r) ==
    /\ pc[r] = "addActive" /\ ~db.active
    /\ Autocommit([db EXCEPT !.active = TRUE])
    /\ Goto(r, "insert")
    /\ UNCHANGED <<needs, sample, holder, kills>>

AddActiveFails(r) ==
    /\ pc[r] = "addActive" /\ db.active
    /\ Goto(r, "raised")
    /\ UNCHANGED <<needs, sample, db, work, holder, kills>>

(* record: every count of a failed sample is NULL.                         *)
RowUncounted(r) == [run |-> r, total |-> sample[r], active |-> sample[r]] \* mutant
Row(r) == LET count == IF sample[r] = "read" THEN "known" ELSE "null"
          IN  [run |-> r, total |-> count, active |-> count]

Accepts(d, row) == d.active /\ (d.table = "strict" => row.total = "known")

Insert(r) ==
    /\ pc[r] = "insert" /\ Accepts(db, Row(r))
    /\ Begin(r, [db EXCEPT !.rows = Append(@, Row(r))])
    /\ Goto(r, "commitRow")
    /\ UNCHANGED <<needs, sample, db, kills>>

InsertFails(r) ==
    /\ pc[r] = "insert" /\ ~Accepts(db, Row(r))
    /\ Goto(r, "raised")
    /\ UNCHANGED <<needs, sample, db, work, holder, kills>>

(* The commit of record, and close                                         *)
CommitRow(r) ==
    /\ pc[r] = "commitRow"
    /\ Commit(r)
    /\ Goto(r, "closed")
    /\ UNCHANGED <<needs, sample, kills>>

NeedsLock(r) ==
    \/ pc[r] = "create" /\ db.table = "none"
    \/ pc[r] \in {"createNew", "rebuild", "addActive", "insert"}

(* "database is locked": another run kept the lock longer than the timeout *)
(* of the connection.                                                      *)
Busy(r) ==
    /\ NeedsLock(r) /\ holder # NoRun
    /\ Goto(r, "raised")
    /\ UNCHANGED <<needs, sample, db, work, holder, kills>>

RolledBack(r) ==
    IF holder = r THEN holder' = NoRun /\ work' = db ELSE UNCHANGED <<holder, work>>

(* A process that is killed takes its open transaction with it: the next   *)
(* to open the file rolls the journal back.                                *)
Kill(r) ==
    /\ pc[r] \notin {"off"} \cup Ended /\ kills < MaxKills
    /\ kills' = kills + 1
    /\ Goto(r, "killed")
    /\ RolledBack(r)
    /\ UNCHANGED <<needs, sample, db>>

(* The commit fails.  The with block of the migration rolls back, and so   *)
(* does the close that record's exception leads to.                        *)
CommitFails(r) ==
    /\ pc[r] \in {"commitRebuild", "commitRow"} /\ kills < MaxKills
    /\ kills' = kills + 1
    /\ Goto(r, "raised")
    /\ RolledBack(r)
    /\ UNCHANGED <<needs, sample, db>>

Migrate(r) ==
    \/ CreateTable(r) \/ CheckNotNull(r) \/ CreateNew(r) \/ CreateNewFails(r)
    \/ Rebuild(r) \/ CommitRebuild(r) \/ CheckActive(r)
    \/ AddActive(r) \/ AddActiveFails(r)

Step(r) == Migrate(r) \/ Insert(r) \/ InsertFails(r) \/ CommitRow(r)

StoreNext ==
    \E r \in Runs : \/ \E s \in Samples : Open(r, s)
                    \/ Step(r) \/ Busy(r) \/ CommitFails(r) \/ Kill(r)

StoreSpec == StoreInit /\ [][StoreNext]_storeVars

-----------------------------------------------------------------------------
(* Type invariant *)
StoreTypeOK ==
    /\ pc \in [Runs -> {"off", "create", "checkNotNull", "createNew", "rebuild",
                        "commitRebuild", "checkActive", "addActive", "insert",
                        "commitRow"} \cup Ended]
    /\ needs \in [Runs -> BOOLEAN]
    /\ sample \in [Runs -> Samples]
    /\ db \in Files /\ work \in Files
    /\ holder \in Runs \cup {NoRun}
    /\ kills \in 0 .. MaxKills

RowsOf(r) == {i \in DOMAIN db.rows : db.rows[i].run = r}

(* A run that closes the store has recorded one row, with its own sample;  *)
(* a run that raised, was killed or is under way has recorded none.        *)
RecordedOnce ==
    \A r \in Runs : IF pc[r] = "closed"
                      THEN /\ Cardinality(RowsOf(r)) = 1
                           /\ \A i \in RowsOf(r) : db.rows[i].total =
                                IF sample[r] = "read" THEN "known" ELSE "null"
                      ELSE RowsOf(r) = {}

(* When record is reached, both migrations have been done and are still in *)
(* force: the table takes any sample.                                      *)
SchemaReady == \A r \in Runs : pc[r] = "insert" => db.active /\ db.table = "nullable"

(* No row is ever lost, moved or given another total, whatever migration   *)
(* is killed half-way or runs beside another.                              *)
TotalsKept ==
    [][\A i \in DOMAIN db.rows : /\ i \in DOMAIN db'.rows
                                 /\ db'.rows[i].run = db.rows[i].run
                                 /\ db'.rows[i].total = db.rows[i].total]_storeVars

(* A row keeps its active, unless the table is rebuilt although it is      *)
(* nullable already: by a run that read its schema before another run had  *)
(* done the same migration.                                                *)
ActiveKept ==
    [][\A i \in DOMAIN db.rows : \/ db'.rows[i].active = db.rows[i].active
                                 \/ db.table = "nullable" /\ db' = Rebuilt(db)]_storeVars

(* The database as a whole is the ledger it is said to be.                 *)
Book == INSTANCE Ledger WITH rows <- db.rows
KeepsLedger == Book!LedgerSpec

(* With no kill and no failed commit, and with runs one at a time, every   *)
(* earlier schema is upgraded and takes the sample of the run that opened  *)
(* it.                                                                     *)
UpgradeWorks ==
    \A r \in Runs : (pc[r] = "create" /\ kills = 0) ~> (pc[r] = "closed" \/ kills > 0)

(* "Rebuilds the table if an older schema declared total/class columns NOT *)
(* NULL": a run that has found such a table can begin to rebuild it.       *)
OldTableRebuilds == \A r \in Runs : pc[r] = "createNew" => ~db.spare
=============================================================================
