----------------------------- MODULE Migration -----------------------------
(***************************************************************************)
(* Store::open and schema::migrate (src/crates/desyncd-store): processes     *)
(* open one database, each migrating it first, and any may crash at any     *)
(* point.  A transaction of SQLite reads a snapshot and commits only if no   *)
(* other committed since; what a crash interrupts is rolled back.           *)
(***************************************************************************)
EXTENDS Naturals

CONSTANTS
  Procs,       \* the processes (proxy, CLI, GUI) that open the database
  Databases,   \* the databases that may be found at the path
  MaxCrashes   \* bound: crashes

(* V2_ADD_CONFIDENCE, in the order of its statements. *)
Columns == {"confidence", "success_count", "fail_count"}

(* user_version, whether V1's tables are there, and the columns added since. *)
Database == [version : 0..2, tables : BOOLEAN, columns : SUBSET Columns]

(* The version promises no more than the database has. *)
Tells(d) ==
  /\ d.version >= 1 => d.tables
  /\ d.version = 2 => d.columns = Columns

(* What migrate takes for granted of a database it finds: it looks for the   *)
(* first column only, so they were added together; and an older program did  *)
(* not set the version.                                                      *)
ASSUME MigrationAssumption ==
  /\ Databases \subseteq Database /\ MaxCrashes \in Nat
  /\ \A d \in Databases : Tells(d) /\ d.columns \in {{}, Columns}

VARIABLES
  db,        \* what is committed
  commits,   \* the processes that committed since a process took its snapshot
  pc,        \* where each process is in Store::build
  current,   \* the version each process read
  crashes    \* bound: the crashes so far

vars == <<db, commits, pc, current, crashes>>

Init ==
  /\ db \in Databases
  /\ commits = [p \in Procs |-> {}]
  /\ pc = [p \in Procs |-> "closed"]
  /\ current = [p \in Procs |-> 0]
  /\ crashes = 0

Goto(p, place) == pc' = [pc EXCEPT ![p] = place]

(* Mutant: the migrations to run end with the first that was due. *)
AfterSkipping(v, done) ==
  IF v < 1 /\ done < 1 THEN "v1" ELSE IF v = 1 /\ done < 1 THEN "v2" ELSE "open"

(* The next migration to run, from the version read at the start. *)
After(v, done) ==
  IF v < 1 /\ done < 1 THEN "v1"
  ELSE IF v < 2 /\ done < 2 THEN "v2" ELSE "open"

(* get_user_version, outside every transaction. *)
ReadVersion(p) ==
  /\ pc[p] = "closed"
  /\ current' = [current EXCEPT ![p] = db.version]
  /\ Goto(p, After(db.version, 0))
  /\ UNCHANGED <<db, commits, crashes>>

(* The first statement of a migration's transaction. *)
Snapshot(p) ==
  /\ \/ pc[p] = "v1" /\ Goto(p, "v1 writes")
     \/ pc[p] = "v2" /\ Goto(p, "v2 writes")
  /\ commits' = [commits EXCEPT ![p] = {}]
  /\ UNCHANGED <<db, current, crashes>>

(* A commit needs a snapshot that is still current. *)
Commit(p, new) ==
  /\ commits[p] = {}
  /\ db' = new
  /\ commits' = [q \in Procs |-> commits[q] \cup {p}]

(* V1_SCHEMA: every table is created IF NOT EXISTS, and the version set. *)
CommitV1(p) ==
  /\ pc[p] = "v1 writes"
  /\ Commit(p, [version |-> 1, tables |-> TRUE, columns |-> db.columns])
  /\ Goto(p, After(current[p], 1))
  /\ UNCHANGED <<current, crashes>>

(* Mutant: without columns to add, the transaction is left out. *)
V2IfAbsent(d) == IF "confidence" \in d.columns THEN d ELSE [d EXCEPT !.version = 2, !.columns = Columns]

(* V2_ADD_CONFIDENCE, unless its first column is there, and the version. *)
V2(d) == [d EXCEPT !.version = 2, !.columns = IF "confidence" \in @ THEN @ ELSE Columns]

(* Mutant: the version and the columns are two transactions. *)
CommitV2Version(p) ==
  /\ pc[p] = "v2 writes"
  /\ Commit(p, IF db.version < 2 THEN [db EXCEPT !.version = 2] ELSE V2(db))
  /\ Goto(p, IF db.version < 2 THEN "v2" ELSE "open")
  /\ UNCHANGED <<current, crashes>>

CommitV2(p) ==
  /\ pc[p] = "v2 writes"
  /\ Commit(p, V2(db))
  /\ Goto(p, After(current[p], 2))
  /\ UNCHANGED <<current, crashes>>

(* The database is busy, or the snapshot is stale: Store::open fails. *)
Busy(p) ==
  /\ pc[p] \in {"v1 writes", "v2 writes"}
  /\ commits[p] # {}
  /\ Goto(p, "failed")
  /\ UNCHANGED <<db, commits, current, crashes>>

(* A process that ended, or failed to open, may be started again. *)
Restart(p) ==
  /\ pc[p] \in {"failed", "open"}
  /\ Goto(p, "closed")
  /\ UNCHANGED <<db, commits, current, crashes>>

Crash(p) ==
  /\ pc[p] # "closed" /\ crashes < MaxCrashes
  /\ crashes' = crashes + 1
  /\ Goto(p, "closed")
  /\ UNCHANGED <<db, commits, current>>

Opening(p) == ReadVersion(p) \/ Snapshot(p) \/ CommitV1(p) \/ CommitV2(p) \/ Busy(p)

Next == \E p \in Procs : Opening(p) \/ Restart(p) \/ Crash(p)

Spec == Init /\ [][Next]_vars

-----------------------------------------------------------------------------
(* Properties.                                                              *)

(* A process that opened the store finds every table and column its queries  *)
(* name, whatever crashed before and whoever migrates at the same time.      *)
SchemaComplete ==
  \A p \in Procs : pc[p] = "open" => db.tables /\ db.columns = Columns

(* The version never promises what the database has not, at any moment at    *)
(* which a crash could freeze it.                                            *)
VersionTells == Tells(db)

(* A migration that is undone is redone: V1 of a process that read an older  *)
(* version sets the version back, and unless a crash intervenes it is the    *)
(* latest again when the store is open and no open is under way.             *)
VersionRestored ==
  /\ crashes = 0
  /\ \A p \in Procs : pc[p] \in {"closed", "open", "failed"}
  /\ \E p \in Procs : pc[p] = "open"
  => db.version = 2
=============================================================================
