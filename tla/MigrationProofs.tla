-------------------------- MODULE MigrationProofs --------------------------
(***************************************************************************)
(* Theorems about Migration, for any number of processes and of crashes.     *)
(*                                                                          *)
(* The schema and the version only need to know what each process relies on  *)
(* when it goes on (Relies): a step of one process takes nothing away from   *)
(* the others, since the tables and the columns only grow.  The version does *)
(* not only grow, so for VersionRestored the invariant names the process     *)
(* that will raise it again (Raises).                                        *)
(***************************************************************************)
EXTENDS Migration, TLAPS

Places == {"closed", "v1", "v1 writes", "v2", "v2 writes", "open", "failed"}

Types ==
  /\ db \in Database
  /\ commits \in [Procs -> SUBSET Procs]
  /\ pc \in [Procs -> Places]
  /\ current \in [Procs -> 0 .. 2]
  /\ crashes \in Nat

(* The columns are added together. *)
Together == db.columns \in {{}, Columns}

(* What a process relies on where it is. *)
Relies(p) ==
  /\ pc[p] \in {"v1", "v1 writes"} => current[p] < 1
  /\ pc[p] \in {"v2", "v2 writes"} => current[p] < 2 /\ db.tables
  /\ pc[p] = "open" => db.tables /\ db.columns = Columns

(* p is about to run the second migration, or runs it and nobody has         *)
(* committed since its snapshot: its commit is not refused.                  *)
Raises(p) == pc[p] = "v2" \/ (pc[p] = "v2 writes" /\ commits[p] = {})

(* While the version of an open store is set back, somebody will raise it. *)
Undone ==
  crashes = 0 /\ db.version # 2 /\ (\E p \in Procs : pc[p] = "open")
    => \E p \in Procs : Raises(p)

Inv == Types /\ Together /\ VersionTells /\ (\A p \in Procs : Relies(p)) /\ Undone

(* The invariant has the properties as its consequences. *)
LEMMA InvGives == Inv => SchemaComplete /\ VersionTells /\ VersionRestored
<1> SUFFICES ASSUME Inv PROVE SchemaComplete /\ VersionTells /\ VersionRestored
  OBVIOUS
<1>1. SchemaComplete
  BY DEF Inv, SchemaComplete, Relies
<1>2. ASSUME crashes = 0, \A p \in Procs : pc[p] \in {"closed", "open", "failed"},
             NEW p \in Procs, pc[p] = "open"
      PROVE  db.version = 2
  BY <1>2 DEF Inv, Undone, Raises
<1> QED BY <1>1, <1>2 DEF Inv, VersionRestored

(* The invariant holds at first. *)
LEMMA InvInit == Init => Inv
BY MigrationAssumption
DEF Init, Inv, Types, Places, Database, Together, VersionTells, Tells, Relies, Undone

(* The migrations that follow, whatever version was read. *)
LEMMA AfterThese ==
  ASSUME NEW v \in 0 .. 2
  PROVE  /\ After(v, 0) \in {"v1", "v2", "open"}
         /\ After(v, 0) = "v1" => v < 1
         /\ After(v, 0) = "v2" => v = 1
         /\ After(v, 0) = "open" => v = 2
         /\ v < 1 => After(v, 1) = "v2"
         /\ After(v, 1) \in {"v2", "open"}
         /\ After(v, 2) = "open"
BY DEF After

(* What the second migration makes of a database. *)
LEMMA V2Makes ==
  ASSUME NEW d \in Database, d.columns \in {{}, Columns}
  PROVE  /\ V2(d) \in Database /\ V2(d).version = 2 /\ V2(d).columns = Columns
         /\ V2(d).tables = d.tables
<1>1. V2(d) = [d EXCEPT !.version = 2, !.columns = Columns]
  <2>1. CASE d.columns = {}
    BY <2>1 DEF V2
  <2>2. CASE d.columns = Columns
    BY <2>2 DEF V2, Columns
  <2> QED BY <2>1, <2>2
<1>2. d = [version |-> d.version, tables |-> d.tables, columns |-> d.columns]
  BY DEF Database
<1>3. V2(d) = [version |-> 2, tables |-> d.tables, columns |-> Columns]
  BY <1>1, <1>2
<1>4. d.tables \in BOOLEAN
  BY DEF Database
<1> QED BY <1>3, <1>4 DEF Database

(* A crash is counted. *)
LEMMA CrashCounts ==
  ASSUME crashes \in Nat, NEW p \in Procs, Crash(p)
  PROVE  crashes' \in Nat /\ crashes' # 0
<1>1. crashes' = crashes + 1
  BY DEF Crash
<1> QED BY <1>1

(* What has been committed stays: the tables and the columns only grow. *)
LEMMA Grows ==
  ASSUME Inv, [Next]_vars
  PROVE  /\ db' \in Database /\ Together' /\ VersionTells'
         /\ db.tables => db'.tables
         /\ db.columns = Columns => db'.columns = Columns
<1> DEFINE Grown == /\ db' \in Database /\ Together' /\ VersionTells'
                    /\ db.tables => db'.tables
                    /\ db.columns = Columns => db'.columns = Columns
<1> USE DEF Inv, Types, Together, VersionTells, Tells
<1>1. ASSUME NEW p \in Procs, CommitV1(p) PROVE Grown
  <2>1. db' = [version |-> 1, tables |-> TRUE, columns |-> db.columns]
    BY <1>1 DEF CommitV1, Commit
  <2>2. db.columns \in SUBSET Columns
    BY DEF Database
  <2>3. db' \in Database
    <3> HIDE DEF Inv, Types, Together, VersionTells, Tells
    <3> QED BY <2>1, <2>2 DEF Database
  <2> QED BY <2>1, <2>3
<1>2. ASSUME NEW p \in Procs, CommitV2(p) PROVE Grown
  <2>1. db' = V2(db) /\ db.tables
    BY <1>2 DEF CommitV2, Commit, Relies
  <2>2. /\ db' \in Database /\ db'.version = 2 /\ db'.columns = Columns
        /\ db'.tables = db.tables
    BY <2>1, V2Makes
  <2> QED BY <2>1, <2>2
<1>3. ASSUME db' = db PROVE Grown
  BY <1>3
<1>4. ASSUME NEW p \in Procs, ReadVersion(p) \/ Snapshot(p) \/ Busy(p) \/ Restart(p) \/ Crash(p)
      PROVE  db' = db
  BY <1>4 DEF ReadVersion, Snapshot, Busy, Restart, Crash
<1>5. CASE UNCHANGED vars
  BY <1>3, <1>5 DEF vars
<1> QED BY <1>1, <1>2, <1>3, <1>4, <1>5 DEF Next, Opening

(* The other variables keep their types. *)
LEMMA TypesNext ==
  ASSUME Inv, [Next]_vars
  PROVE  Types'
<1> USE AfterThese DEF Inv, Types, Places, Goto, Commit
<1>0. db' \in Database
  BY Grows
<1>v. db.version \in 0 .. 2
  BY DEF Database
<1>1. ASSUME NEW p \in Procs, Opening(p)
      PROVE  Types'
  <2>1. CASE ReadVersion(p)  BY <1>0, <1>v, <2>1 DEF ReadVersion
  <2>2. CASE Snapshot(p)     BY <1>0, <2>2 DEF Snapshot
  <2>3. CASE CommitV1(p)     BY <1>0, <2>3 DEF CommitV1
  <2>4. CASE CommitV2(p)     BY <1>0, <2>4 DEF CommitV2
  <2>5. CASE Busy(p)         BY <1>0, <2>5 DEF Busy
  <2> QED BY <1>1, <2>1, <2>2, <2>3, <2>4, <2>5 DEF Opening
<1>2. ASSUME NEW p \in Procs, Restart(p)
      PROVE  Types'
  BY <1>0, <1>2 DEF Restart
<1>3. ASSUME NEW p \in Procs, Crash(p)
      PROVE  Types'
  <2>1. crashes' \in Nat
    BY <1>3, CrashCounts
  <2> QED BY <1>0, <1>3, <2>1 DEF Crash
<1>4. CASE UNCHANGED vars
  BY <1>4 DEF vars
<1> QED BY <1>1, <1>2, <1>3, <1>4 DEF Next

(* What a process relies on is there when it goes on, and stays. *)
LEMMA ReliesNext ==
  ASSUME Inv, [Next]_vars, NEW q \in Procs
  PROVE  Relies(q)'
<1> USE DEF Inv, Types, Places, Relies
<1>0. /\ db.tables => db'.tables
      /\ db.columns = Columns => db'.columns = Columns
  BY Grows
<1>1. ASSUME pc'[q] = pc[q], current'[q] = current[q]
      PROVE  Relies(q)'
  BY <1>0, <1>1
<1>2. ASSUME NEW p \in Procs, p # q, Opening(p) \/ Restart(p) \/ Crash(p)
      PROVE  pc'[q] = pc[q] /\ current'[q] = current[q]
  BY <1>2 DEF Opening, ReadVersion, Snapshot, CommitV1, CommitV2, Busy, Restart, Crash, Goto
<1>3. CASE ReadVersion(q)
  <2>1. pc'[q] = After(db.version, 0) /\ current'[q] = db.version /\ db' = db
    BY <1>3 DEF ReadVersion, Goto
  <2>2. db.version \in 0 .. 2
    BY DEF Database
  <2>3. /\ pc'[q] \in {"v1", "v2", "open"}
        /\ pc'[q] = "v1" => current'[q] < 1
        /\ pc'[q] = "v2" => current'[q] < 2 /\ db.version = 1
        /\ pc'[q] = "open" => db.version = 2
    <3> HIDE DEF Inv, Types, Places, Relies
    <3> QED BY <2>1, <2>2, AfterThese
  <2>4. db.version = 1 => db.tables
    <3>1. Tells(db)
      BY DEF VersionTells
    <3> HIDE DEF Inv, Types, Places, Relies
    <3> QED BY <2>2, <3>1 DEF Tells
  <2>5. db.version = 2 => db.tables /\ db.columns = Columns
    <3>1. Tells(db)
      BY DEF VersionTells
    <3> HIDE DEF Inv, Types, Places, Relies
    <3> QED BY <2>2, <3>1 DEF Tells
  <2> QED BY <2>1, <2>3, <2>4, <2>5
<1>4. CASE Snapshot(q)
  BY <1>4 DEF Snapshot, Goto
<1>5. CASE CommitV1(q)
  <2>1. pc[q] = "v1 writes" /\ pc'[q] = After(current[q], 1) /\ current'[q] = current[q]
    BY <1>5 DEF CommitV1, Goto
  <2>2. db'.tables = TRUE
    BY <1>5 DEF CommitV1, Commit
  <2>3. current[q] \in 0 .. 2 /\ current[q] < 1
    BY <2>1
  <2>4. pc'[q] = "v2" /\ current'[q] < 2
    <3> DEFINE v == current[q]
    <3>1. v \in 0 .. 2 /\ v < 1
      BY <2>3
    <3>2. pc'[q] = After(v, 1) /\ current'[q] = v
      BY <2>1
    <3> HIDE DEF Inv, Types, Places, Relies, v
    <3> QED BY <3>1, <3>2, AfterThese
  <2> QED BY <2>2, <2>4
<1>6. CASE CommitV2(q)
  <2>1. pc'[q] = "open"
    BY <1>6, AfterThese DEF CommitV2, Goto
  <2>2. db'.columns = Columns
    BY <1>6, V2Makes DEF CommitV2, Commit, Together
  <2> QED BY <1>0, <1>6, <2>1, <2>2 DEF CommitV2
<1>7. CASE Busy(q) \/ Restart(q) \/ Crash(q)
  BY <1>7 DEF Busy, Restart, Crash, Goto
<1>8. CASE UNCHANGED vars
  BY <1>1, <1>8 DEF vars
<1> QED BY <1>1, <1>2, <1>3, <1>4, <1>5, <1>6, <1>7, <1>8 DEF Next, Opening

(* Only a commit of the first migration sets the version back, and who made  *)
(* it goes on to the second; only a commit of another process can refuse     *)
(* the second, and that raises the version, or its process goes on so.       *)
LEMMA UndoneNext ==
  ASSUME Inv, [Next]_vars
  PROVE  Undone'
<1> USE DEF Inv, Types, Places, Raises
<1> SUFFICES ASSUME crashes' = 0, db'.version # 2, \E p \in Procs : pc'[p] = "open"
             PROVE  \E p \in Procs : Raises(p)'
  BY DEF Undone
<1>1. ASSUME NEW p \in Procs, CommitV1(p)
      PROVE  Raises(p)'
  BY <1>1, AfterThese DEF CommitV1, Goto, Relies
<1>2. ASSUME NEW p \in Procs, CommitV2(p)
      PROVE  FALSE
  BY <1>2, V2Makes DEF CommitV2, Commit, Together
<1>3. ASSUME NEW p \in Procs, Crash(p)
      PROVE  FALSE
  BY <1>3, CrashCounts
<1>4. ASSUME NEW p \in Procs, ReadVersion(p) \/ Snapshot(p) \/ Busy(p) \/ Restart(p)
      PROVE  \E q \in Procs : Raises(q)'
  <2>1. db' = db /\ crashes' = crashes
    BY <1>4 DEF ReadVersion, Snapshot, Busy, Restart
  <2>2. \A q \in Procs : pc'[q] = "open" => pc[q] = "open"
    <3>1. db.version \in 0 .. 2 /\ db.version # 2
      BY <2>1 DEF Database
    <3>2. CASE ReadVersion(p)
      BY <3>1, <3>2, AfterThese DEF ReadVersion, Goto
    <3>3. CASE Snapshot(p) \/ Busy(p) \/ Restart(p)
      BY <3>3 DEF Snapshot, Busy, Restart, Goto
    <3> QED BY <1>4, <3>2, <3>3
  <2>3. PICK q \in Procs : Raises(q)
    BY <2>1, <2>2 DEF Undone
  <2>4. Raises(q)'
    BY <1>4, <2>3 DEF ReadVersion, Snapshot, Busy, Restart, Goto
  <2> QED BY <2>4
<1>5. CASE UNCHANGED vars
  <2>1. PICK q \in Procs : Raises(q)
    BY <1>5 DEF Undone, vars
  <2> QED BY <1>5, <2>1 DEF vars
<1> QED BY <1>1, <1>2, <1>3, <1>4, <1>5 DEF Next, Opening

(* Every step preserves the invariant. *)
LEMMA InvNext == Inv /\ [Next]_vars => Inv'
BY Grows, TypesNext, ReliesNext, UndoneNext DEF Inv

(* The inductive invariant of the processes and the database holds throughout. *)
THEOREM Invariance == Spec => []Inv
BY InvInit, InvNext, PTL DEF Spec

(* lib.rs Store::build and schema.rs migrate: a process that opened the store *)
(* finds every table and column its queries name.                            *)
THEOREM Complete == Spec => []SchemaComplete
BY Invariance, InvGives, PTL

(* schema.rs: the version is raised in the transaction of its migration, so  *)
(* it never promises what is not there.                                      *)
THEOREM Truthful == Spec => []VersionTells
BY Invariance, InvGives, PTL

(* schema.rs: a version that was set back by a process that read an older one *)
(* is raised again before the last open is over, unless a crash intervenes.   *)
THEOREM Restored == Spec => []VersionRestored
BY Invariance, InvGives, PTL
=============================================================================
