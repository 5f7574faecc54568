----------------------------- MODULE Migration -----------------------------
(***************************************************************************)
(* Store::open on one database file shared by several processes: the       *)
(* schema, the columns added one at a time, the rebuild of route_entries   *)
(* and the master key.  Every statement commits by itself but the rebuild, *)
(* which is one transaction; a process may die between any two statements  *)
(* and open again on what it left, while others open the file or work on   *)
(* it.                                                                     *)
(***************************************************************************)
EXTENDS Integers, Sequences, FiniteSetsExt, Functions

CONSTANTS
  Processes,
  Tables,      \* the tables in the order of SCHEMA_HEAD, route_entries last
  Declared,    \* per table, the columns its CREATE TABLE declares
  Columns,     \* the <<table, column>> of migrate_columns, in order
  Files,       \* the files an earlier version, or none, may have left
  MaxCrashes,  \* bound: processes that die
  MaxWork      \* bound: statements of processes that have opened the store

None == "none"
Entries == "route_entries"

(* Whatever left a file, its usage rows have entries and only the nested     *)
(* shape has nested entries.                                                 *)
NestedColumn == <<Entries, "target_route_id">>
Valid == {"healthy", "unhealthy"}
Rows == [nested : BOOLEAN, status : Valid \cup {"draining"}]

FileSound(f) ==
  /\ f = [tables |-> f.tables, columns |-> f.columns, entries |-> f.entries,
          usage |-> f.usage, key |-> f.key]
  /\ f.tables \subseteq Range(Tables) /\ f.key \in Processes \cup {None}
  /\ f.entries \in [DOMAIN f.entries -> Rows] /\ f.usage \subseteq DOMAIN f.entries
  /\ (\E e \in DOMAIN f.entries : f.entries[e].nested) => NestedColumn \in f.columns

ASSUME MigrationAssumption ==
  /\ None \notin Processes /\ MaxCrashes \in Nat /\ MaxWork \in Nat
  /\ Tables \in Seq(STRING) /\ Tables # << >> /\ Tables[Len(Tables)] = Entries
  /\ Columns \in Seq(STRING \X STRING) /\ Columns # << >>
  /\ NestedColumn[2] \in Declared[Entries]
  /\ \A f \in Files : FileSound(f)

VARIABLES
  file,    \* the database
  conn,    \* per process, how far its open has come and what its connection holds
  bounds   \* what the bounds leave

vars == <<file, conn, bounds>>

Down == [at |-> "down", fk |-> FALSE, key |-> None, next |-> 1]

Init ==
  /\ file \in Files
  /\ conn = [p \in Processes |-> Down]
  /\ bounds = [crashes |-> MaxCrashes, work |-> MaxWork]

Has(column) == column \in file.columns
NestedShape == Has(NestedColumn)

Goes(p, at) == conn' = [conn EXCEPT ![p].at = at, ![p].next = 1] /\ UNCHANGED bounds

(* The next item of the list a process works through, or the phase after it. *)
Advances(p, at, list, then) ==
  /\ conn' = IF conn[p].next = Len(list)
             THEN [conn EXCEPT ![p].at = then, ![p].next = 1]
             ELSE [conn EXCEPT ![p].at = at, ![p].next = @ + 1]
  /\ UNCHANGED bounds

(* open returns the error of a statement and drops its connection.           *)
Fails(p) == conn' = [conn EXCEPT ![p] = Down] /\ UNCHANGED <<file, bounds>>

(* The pragmas of SCHEMA_HEAD: the connection enforces foreign keys.         *)
Open(p) ==
  /\ conn[p].at = "down"
  /\ conn' = [conn EXCEPT ![p] = [Down EXCEPT !.at = "tables", !.fk = TRUE]]
  /\ UNCHANGED <<file, bounds>>

CreateTable(p) ==
  /\ conn[p].at = "tables"
  /\ LET t == Tables[conn[p].next]
     IN  file' = IF t \in file.tables THEN file
                 ELSE [file EXCEPT !.tables = @ \cup {t},
                                   !.columns = @ \cup {<<t, c>> : c \in Declared[t]}]
  /\ Advances(p, "tables", Tables, "columns")

(* ensure_column: the table is described, then altered: two statements.      *)
DescribeNot(p) ==
  /\ conn[p].at = "columns"
  /\ conn' = [conn EXCEPT ![p].at = "alter"] /\ UNCHANGED <<file, bounds>>

Describe(p) ==
  /\ conn[p].at = "columns"
  /\ IF Has(Columns[conn[p].next]) THEN Advances(p, "columns", Columns, "status")
     ELSE conn' = [conn EXCEPT ![p].at = "alter"] /\ UNCHANGED bounds
  /\ UNCHANGED file

AddColumn(p) ==
  /\ conn[p].at = "alter"
  /\ \/ Has(Columns[conn[p].next]) /\ Fails(p)
     \/ /\ ~Has(Columns[conn[p].next])
        /\ file' = [file EXCEPT !.columns = @ \cup {Columns[conn[p].next]}]
        /\ Advances(p, "columns", Columns, "status")

NormaliseStatus(p) ==
  /\ conn[p].at = "status" /\ Goes(p, "shape")
  /\ file' = [file EXCEPT !.entries =
                [e \in DOMAIN @ |-> IF @[e].status \in Valid THEN @[e]
                                    ELSE [@[e] EXCEPT !.status = "unhealthy"]]]

DescribeEntries(p) ==
  /\ conn[p].at = "shape" /\ Goes(p, IF NestedShape THEN "key" ELSE "enforced")
  /\ UNCHANGED file

SuspendKeysNot(p) == conn[p].at = "enforced" /\ Goes(p, "rebuild") /\ UNCHANGED file

SuspendKeys(p) ==
  /\ conn[p].at = "enforced"
  /\ conn' = [conn EXCEPT ![p].at = "rebuild", ![p].fk = FALSE]
  /\ UNCHANGED <<file, bounds>>

(* One transaction: every row is copied as an entry with a provider, the old *)
(* table dropped, the copy renamed.  A dropped table deletes its rows, and   *)
(* with enforcement on, usage rows go with them.  A row that is nested by    *)
(* now violates the CHECK, a column that is missing fails the SELECT.        *)
Copied == {"price_per_1m", "cooldown_until"}

Rebuild(p) ==
  /\ conn[p].at = "rebuild"
  /\ LET copies == /\ \A c \in Copied : Has(<<Entries, c>>)
                   /\ \A e \in DOMAIN file.entries : ~file.entries[e].nested
     IN  \/ ~copies /\ Fails(p)
         \/ /\ copies /\ Goes(p, "restore")
            /\ file' = [file EXCEPT !.columns = @ \cup {<<Entries, c>> : c \in Declared[Entries]},
                                    !.usage = IF conn[p].fk THEN {} ELSE @]

RestoreKeysNot(p) == conn[p].at = "restore" /\ Goes(p, "key") /\ UNCHANGED file

RestoreKeys(p) ==
  /\ conn[p].at = "restore"
  /\ conn' = [conn EXCEPT ![p].at = "key", ![p].fk = TRUE]
  /\ UNCHANGED <<file, bounds>>

(* load_or_generate_master_key: read, and inserted when there was none.      *)
ReadKey(p) ==
  /\ conn[p].at = "key"
  /\ conn' = IF file.key = None THEN [conn EXCEPT ![p].at = "newkey"]
             ELSE [conn EXCEPT ![p].at = "open", ![p].key = file.key]
  /\ UNCHANGED <<file, bounds>>

(* INSERT OR REPLACE *)
ReplaceKey(p) ==
  /\ conn[p].at = "newkey"
  /\ file' = [file EXCEPT !.key = p]
  /\ conn' = [conn EXCEPT ![p].at = "open", ![p].key = p]
  /\ UNCHANGED bounds

InsertKey(p) ==
  /\ conn[p].at = "newkey"
  /\ \/ file.key # None /\ Fails(p)
     \/ /\ file.key = None
        /\ file' = [file EXCEPT !.key = p]
        /\ conn' = [conn EXCEPT ![p].at = "open", ![p].key = p]
        /\ UNCHANGED bounds

Step(p) ==
  \/ CreateTable(p) \/ Describe(p) \/ AddColumn(p) \/ NormaliseStatus(p) \/ DescribeEntries(p)
  \/ SuspendKeys(p) \/ Rebuild(p) \/ RestoreKeys(p) \/ ReadKey(p) \/ InsertKey(p)

(* The process dies; the transaction it was in never happened.               *)
Crash(p) ==
  /\ conn[p].at # "down" /\ bounds.crashes > 0
  /\ conn' = [conn EXCEPT ![p] = Down]
  /\ bounds' = [bounds EXCEPT !.crashes = @ - 1]
  /\ UNCHANGED file

-----------------------------------------------------------------------------
(* What processes that have opened the store do to it.                       *)
Work(p, f) ==
  /\ conn[p].at = "open" /\ bounds.work > 0
  /\ file' = f
  /\ bounds' = [bounds EXCEPT !.work = @ - 1]
  /\ UNCHANGED conn

NewEntry == Max({0} \cup DOMAIN file.entries) + 1

AddEntry(p, nested) ==
  Work(p, [file EXCEPT !.entries = [e \in DOMAIN @ \cup {NewEntry} |->
                                      IF e = NewEntry THEN [nested |-> nested, status |-> "healthy"]
                                      ELSE @[e]]])

LogUsage(p) ==
  \E e \in DOMAIN file.entries : e \notin file.usage /\ Work(p, [file EXCEPT !.usage = @ \cup {e}])

DeleteEntry(p) ==
  \E e \in DOMAIN file.entries :
    Work(p, [file EXCEPT !.entries = Restrict(@, DOMAIN @ \ {e}),
                         !.usage = IF conn[p].fk THEN @ \ {e} ELSE @])

Next ==
  \E p \in Processes :
    Open(p) \/ Step(p) \/ Crash(p) \/ LogUsage(p) \/ DeleteEntry(p)
      \/ \E nested \in BOOLEAN : AddEntry(p, nested)

(* A statement gets its turn, SQLite's lock included, and a process whose    *)
(* open failed or who died is started again.                                 *)
Fairness == \A p \in Processes : WF_vars(Open(p)) /\ WF_vars(Step(p))

Spec == Init /\ [][Next]_vars /\ Fairness

-----------------------------------------------------------------------------
(* Every usage row has its entry, a nested entry needs the nested shape, and *)
(* a process that is past the rebuild sees that shape.                       *)
TypeOK ==
  /\ FileSound(file)
  /\ \A p \in Processes : conn[p].at \in {"restore", "key", "newkey", "open"} => NestedShape

(* Whoever has opened the store works with enforced foreign keys, on tables  *)
(* that have every column and no status the code cannot read, and holds the  *)
(* key every other process encrypts with.                                    *)
OpenIsSound ==
  \A p \in Processes : conn[p].at = "open" =>
    /\ conn[p].fk /\ conn[p].key = file.key
    /\ Range(Columns) \subseteq file.columns
    /\ \A e \in DOMAIN file.entries : file.entries[e].status \in Valid

(* Opening, failing to and dying on the way lose no entry, no usage row and  *)
(* no key: only a process at work removes what it removes.                   *)
HistoryKept ==
  [][\/ /\ file.usage \subseteq file'.usage /\ DOMAIN file.entries \subseteq DOMAIN file'.entries
        /\ file.key # None => file'.key = file.key
     \/ \E p \in Processes : DeleteEntry(p)]_vars

(* However their statements interleave and wherever they die, all processes  *)
(* have the store open in the end, each restarted often enough.              *)
AllOpen == <>[](\A p \in Processes : conn[p].at = "open")
=============================================================================
