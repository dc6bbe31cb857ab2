---------------------------- MODULE MCMigration ----------------------------
(***************************************************************************)
(* An instance of Migration for TLC.                                        *)
(***************************************************************************)
EXTENDS Migration

CONSTANTS p1, p2, p3

Three == {p1, p2, p3}

(* A new file; a database of the code before versioning, without and with the *)
(* columns; one whose open crashed between the migrations.                    *)
Found == { [version |-> 0, tables |-> FALSE, columns |-> {}],
           [version |-> 0, tables |-> TRUE, columns |-> {}],
           [version |-> 0, tables |-> TRUE, columns |-> Columns],
           [version |-> 1, tables |-> TRUE, columns |-> {}] }
=============================================================================
