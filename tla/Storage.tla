------------------------------ MODULE Storage ------------------------------
(***************************************************************************)
(* The SQLite file: who creates its tables, what is written to file_events *)
(* and what a prune deletes.                                               *)
(*                                                                         *)
(* EventStore::new creates two of the tables when they are missing,        *)
(* ensure_schema creates all three in its own form and records a version.  *)
(* The two forms of `projects` have different columns, so whoever comes    *)
(* first decides whether the store's project calls work.  Statements run   *)
(* in autocommit, one at a time; a process may end between any two.        *)
(***************************************************************************)
EXTENDS Integers, FiniteSets

CONSTANTS
  Writers,    \* processes or tasks that open an EventStore
  Pruners,    \* the daemon's PruneScheduler, `ambient-fsd prune`
  Events,
  Stamp,      \* the timestamp of each event, a day
  Batches,    \* batches given to insert_batch: sets of events
  Retention,  \* PruneConfig.retention_days
  MaxDay      \* bound: days

ASSUME BatchesAssumption == Batches \subseteq SUBSET Events
ASSUME DaysAssumption == Retention \in Nat /\ MaxDay \in Nat /\ Stamp \in [Events -> Nat]

VARIABLES
  day,
  tables,    \* the form of each table: none, store (EventStore's), v1 (a migration's)
  version,   \* MAX(version) of the migrations table, 0 when empty or missing
  rows,      \* file_events: the events stored
  writer,    \* where each writer is
  pruner,    \* where each pruner is
  accepted   \* history: events of inserts and batches that returned Ok

storageVars == <<day, tables, version, rows, writer, pruner, accepted>>

Days == 0..MaxDay
Tables == {"file_events", "file_analysis", "projects"}
TablesOfStore == {"file_events", "projects"}
Missing(ts) == {t \in ts : tables[t] = "none"}
Before(t) ==
  CASE t = "file_events" -> {}
    [] t = "file_analysis" -> {"file_events"}
    [] t = "projects" -> {"file_events", "file_analysis"}

Closed == [at |-> "closed"]
Opening == [at |-> "opening"]
Open == [at |-> "open"]
InBatch == [at: {"batch"}, left: SUBSET Events, done: SUBSET Events]

Resting == [at |-> "resting"]
Migrating == [at: {"migrate", "record"}, cutoff: Int]
Deleting == [at: {"events", "analysis"}, cutoff: Int]

StorageTypeOK ==
  /\ day \in Days
  /\ tables \in [Tables -> {"none", "store", "v1"}]
  /\ version \in {0, 1}
  /\ writer \in [Writers -> {Closed, Opening, Open} \cup InBatch]
  /\ pruner \in [Pruners -> {Resting} \cup Migrating \cup Deleting]
  /\ rows \subseteq Events /\ accepted \subseteq Events

StorageInit ==
  /\ day = 0
  /\ tables = [t \in Tables |-> "none"]
  /\ version = 0
  /\ rows = {} /\ accepted = {}
  /\ writer = [w \in Writers |-> Closed]
  /\ pruner = [p \in Pruners |-> Resting]

WriterGoes(w, r) == writer' = [writer EXCEPT ![w] = r]
PrunerGoes(p, r) == pruner' = [pruner EXCEPT ![p] = r]
Creates(t, form) == tables' = [tables EXCEPT ![t] = form]
New(events) == events \cap (rows \cup accepted) = {} /\ \A e \in events : Stamp[e] <= day

-----------------------------------------------------------------------------
(* EventStore::new: CREATE TABLE IF NOT EXISTS, file_events first.         *)
OpensStore(w) ==
  /\ writer[w] = Closed
  /\ WriterGoes(w, Opening)
  /\ UNCHANGED <<day, tables, version, rows, pruner, accepted>>

CreatesTable(w, t) ==
  /\ writer[w] = Opening
  /\ t \in Missing(TablesOfStore) /\ Missing(TablesOfStore \cap Before(t)) = {}
  /\ Creates(t, "store")
  /\ UNCHANGED <<day, version, rows, writer, pruner, accepted>>

StoreIsOpen(w) ==
  /\ writer[w] = Opening /\ Missing(TablesOfStore) = {}
  /\ WriterGoes(w, Open)
  /\ UNCHANGED <<day, tables, version, rows, pruner, accepted>>

Inserts(w, e) ==
  /\ writer[w] = Open /\ New({e})
  /\ rows' = rows \cup {e}
  /\ accepted' = accepted \cup {e}
  /\ WriterGoes(w, Closed)
  /\ UNCHANGED <<day, tables, version, pruner>>

(* Seeded fault: no transaction. *)
AutocommittedInsert(w, e) ==
  /\ writer[w].at = "batch" /\ e \in writer[w].left
  /\ rows' = rows \cup {e}
  /\ writer' = [writer EXCEPT ![w].left = @ \ {e}, ![w].done = @ \cup {e}]
  /\ UNCHANGED <<day, tables, version, pruner, accepted>>

(* insert_batch: one transaction, event by event. *)
BeginsBatch(w, batch) ==
  /\ writer[w] = Open
  /\ New(batch)
  /\ WriterGoes(w, [at |-> "batch", left |-> batch, done |-> {}])
  /\ UNCHANGED <<day, tables, version, rows, pruner, accepted>>

BatchInserts(w, e) ==
  /\ writer[w].at = "batch" /\ e \in writer[w].left
  /\ writer' = [writer EXCEPT ![w].left = @ \ {e}, ![w].done = @ \cup {e}]
  /\ UNCHANGED <<day, tables, version, rows, pruner, accepted>>

BatchCommits(w) ==
  /\ writer[w].at = "batch" /\ writer[w].left = {}
  /\ rows' = rows \cup writer[w].done
  /\ accepted' = accepted \cup writer[w].done
  /\ WriterGoes(w, Closed)
  /\ UNCHANGED <<day, tables, version, pruner>>

(* A statement fails or the process ends: a transaction is rolled back. *)
WriterStops(w) ==
  /\ writer[w] # Closed
  /\ WriterGoes(w, Closed)
  /\ UNCHANGED <<day, tables, version, rows, pruner, accepted>>

-----------------------------------------------------------------------------
(* prune_cycle and cmd_prune take the cutoff before they open the file.    *)
StartsPrune(p) ==
  /\ pruner[p] = Resting
  /\ PrunerGoes(p, [at |-> IF version = 0 THEN "migrate" ELSE "events",
                    cutoff |-> day - Retention])
  /\ UNCHANGED <<day, tables, version, rows, writer, accepted>>

(* Seeded fault: the version is recorded before the tables are there. *)
RecordedFirst(p) ==
  /\ pruner[p].at = "migrate" /\ version = 0
  /\ version' = 1
  /\ PrunerGoes(p, [pruner[p] EXCEPT !.at = "record"])
  /\ UNCHANGED <<day, tables, rows, writer, accepted>>

(* create_tables_v1, one IF NOT EXISTS after another. *)
MigrationCreates(p, t) ==
  /\ pruner[p].at = "migrate" /\ t \in Missing(Tables) /\ Missing(Before(t)) = {}
  /\ Creates(t, "v1")
  /\ UNCHANGED <<day, version, rows, writer, pruner, accepted>>

Migrated(p) ==
  /\ pruner[p].at = "migrate" /\ Missing(Tables) = {}
  /\ PrunerGoes(p, [pruner[p] EXCEPT !.at = "record"])
  /\ UNCHANGED <<day, tables, version, rows, writer, accepted>>

(* A plain INSERT of the primary key: the second of two that migrate at    *)
(* once fails, and its prune with it.                                      *)
Records(p) ==
  /\ pruner[p].at = "record"
  /\ version' = 1
  /\ PrunerGoes(p, IF version = 0 THEN [pruner[p] EXCEPT !.at = "events"] ELSE Resting)
  /\ UNCHANGED <<day, tables, rows, writer, accepted>>

(* prune_events_before. *)
DeletesEvents(p) ==
  /\ pruner[p].at = "events"
  /\ rows' = {e \in rows : Stamp[e] >= pruner[p].cutoff}
  /\ PrunerGoes(p, [pruner[p] EXCEPT !.at = "analysis"])
  /\ UNCHANGED <<day, tables, version, writer, accepted>>

(* prune_analysis_before (AnalysisPipeline has what it deletes), vacuum.   *)
EndsPrune(p) ==
  /\ pruner[p].at = "analysis"
  /\ PrunerGoes(p, Resting)
  /\ UNCHANGED <<day, tables, version, rows, writer, accepted>>

PrunerStops(p) ==
  /\ pruner[p] # Resting
  /\ PrunerGoes(p, Resting)
  /\ UNCHANGED <<day, tables, version, rows, writer, accepted>>

DayPasses ==
  /\ day < MaxDay
  /\ day' = day + 1
  /\ UNCHANGED <<tables, version, rows, writer, pruner, accepted>>

WriterStep(w) ==
  \/ OpensStore(w) \/ StoreIsOpen(w) \/ BatchCommits(w) \/ WriterStops(w)
  \/ \E t \in Tables : CreatesTable(w, t)
  \/ \E e \in Events : Inserts(w, e) \/ BatchInserts(w, e)
  \/ \E batch \in Batches : BeginsBatch(w, batch)

PrunerStep(p) ==
  \/ StartsPrune(p) \/ Migrated(p) \/ Records(p) \/ DeletesEvents(p) \/ EndsPrune(p)
  \/ PrunerStops(p)
  \/ \E t \in Tables : MigrationCreates(p, t)

StorageNext ==
  \/ \E w \in Writers : WriterStep(w)
  \/ \E p \in Pruners : PrunerStep(p)
  \/ DayPasses

StorageSpec == StorageInit /\ [][StorageNext]_storageVars

-----------------------------------------------------------------------------
(* The version is recorded only once the tables it stands for are there,   *)
(* whoever made them, and whichever process ends half way.                 *)
RecordedImpliesTables == version = 1 => Missing(Tables) = {}

(* An event whose insert or batch returned Ok is in the table as long as   *)
(* it is not older than the retention, and a batch that did not commit has *)
(* left no part of itself.                                                 *)
AcceptedKept ==
  /\ \A e \in accepted : Stamp[e] >= day - Retention => e \in rows
  /\ rows \subseteq accepted

=============================================================================
