-------------------------- MODULE MigrationProofs --------------------------
(***************************************************************************)
(* What opening the store guarantees for any number of processes, crashes, *)
(* tables and columns, and for every sound file an earlier version left.   *)
(***************************************************************************)
EXTENDS Migration, TLAPS

Phases == {"down", "tables", "columns", "alter", "status", "shape", "enforced", "rebuild",
           "restore", "key", "newkey", "open"}

(* Phases after the columns, after the statuses and after the rebuild.      *)
Shaped == {"restore", "key", "newkey", "open"}
Normal == Shaped \cup {"shape", "enforced", "rebuild"}
Altered == Normal \cup {"status"}

Conns == [at : Phases, fk : BOOLEAN, key : Processes \cup {None}, next : Nat]

AllValid(f) == \A e \in DOMAIN f.entries : f.entries[e].status \in Valid

(* What the phase of a connection says about it and about the file: foreign *)
(* keys are suspended around the rebuild only, the columns passed are there.*)
ConnSound(c, f) ==
  /\ c \in Conns
  /\ c.at \in {"rebuild", "restore"} => ~c.fk
  /\ c.at \in Phases \ {"down", "rebuild", "restore"} => c.fk
  /\ c.at = "tables" => c.next \in 1 .. Len(Tables)
  /\ c.at \in {"columns", "alter"} =>
        c.next \in 1 .. Len(Columns) /\ \A i \in 1 .. c.next - 1 : Columns[i] \in f.columns
  /\ c.at \in Altered => \A i \in 1 .. Len(Columns) : Columns[i] \in f.columns
  /\ c.at \in Normal => AllValid(f)
  /\ c.at \in Shaped => NestedColumn \in f.columns
  /\ c.at = "open" => c.key = f.key /\ f.key # None

MigrationInv ==
  /\ FileSound(file)
  /\ conn \in [Processes -> Conns]
  /\ \A p \in Processes : ConnSound(conn[p], file)

-----------------------------------------------------------------------------
(* Files only grow under other processes' feet.                             *)
Grows(f, g) ==
  /\ f.columns \subseteq g.columns
  /\ AllValid(f) => AllValid(g)
  /\ f.key # None => g.key = f.key

LEMMA GrowthKeepsConnections ==
  ASSUME NEW f, NEW g, NEW c, ConnSound(c, f), Grows(f, g)
  PROVE  ConnSound(c, g)
BY DEF ConnSound, Grows

(* One process moves to c while the file grows.                             *)
LEMMA MoveKeeps ==
  ASSUME MigrationInv, NEW p \in Processes, NEW c, FileSound(file'), Grows(file, file'),
         conn' = [conn EXCEPT ![p] = c], ConnSound(c, file')
  PROVE  MigrationInv'
<1>1. c \in Conns
  BY DEF ConnSound
<1>2. conn' \in [Processes -> Conns]
  BY <1>1 DEF MigrationInv
<1>3. \A q \in Processes : ConnSound(conn'[q], file')
  BY GrowthKeepsConnections DEF MigrationInv
<1> QED
  BY <1>2, <1>3 DEF MigrationInv

(* One process moves while the file stays.                                  *)
LEMMA MoveAloneKeeps ==
  ASSUME MigrationInv, NEW p \in Processes, NEW c, file' = file,
         conn' = [conn EXCEPT ![p] = c], ConnSound(c, file)
  PROVE  MigrationInv'
<1>1. FileSound(file') /\ Grows(file, file')
  BY DEF MigrationInv, Grows
<1> QED
  BY <1>1, MoveKeeps

(* The record a process moves to.                                           *)
Moved(c, at, next) == [c EXCEPT !.at = at, !.next = next]

LEMMA MovedFields ==
  ASSUME NEW c \in Conns, NEW at \in Phases, NEW next \in Nat
  PROVE  /\ Moved(c, at, next) \in Conns /\ Moved(c, at, next).at = at
         /\ Moved(c, at, next).next = next
         /\ Moved(c, at, next).fk = c.fk /\ Moved(c, at, next).key = c.key
BY DEF Moved, Conns

LEMMA GoesMoves ==
  ASSUME MigrationInv, NEW p \in Processes, NEW at, Goes(p, at)
  PROVE  conn' = [conn EXCEPT ![p] = Moved(conn[p], at, 1)]
BY DEF MigrationInv, Goes, Moved, Conns

LEMMA DownSound == ASSUME NEW f PROVE ConnSound(Down, f)
BY DEF ConnSound, Down, Conns, Phases, Altered, Normal, Shaped

LEMMA FailsKeeps ==
  ASSUME MigrationInv, NEW p \in Processes, Fails(p)
  PROVE  MigrationInv'
BY DownSound, MoveAloneKeeps DEF Fails

(* The next item of a list, or the next phase.                              *)
LEMMA AdvancesMoves ==
  ASSUME MigrationInv, NEW p \in Processes, NEW at, NEW list, NEW then, Advances(p, at, list, then)
  PROVE  conn' = [conn EXCEPT ![p] = IF conn[p].next = Len(list) THEN Moved(conn[p], then, 1)
                                     ELSE Moved(conn[p], at, conn[p].next + 1)]
BY DEF MigrationInv, Advances, Moved, Conns

-----------------------------------------------------------------------------
(* The statements.                                                          *)

LEMMA OpenKeeps ==
  ASSUME MigrationInv, NEW p \in Processes, Open(p)
  PROVE  MigrationInv'
<1> DEFINE c == [Down EXCEPT !.at = "tables", !.fk = TRUE]
<1>1. c \in Conns /\ c.at = "tables" /\ c.fk /\ c.next = 1
  BY DEF Conns, Phases, Down
<1>2. Len(Tables) \in Nat \ {0}
  BY MigrationAssumption
<1> HIDE DEF c
<1>3. ConnSound(c, file)
  BY <1>1, <1>2 DEF ConnSound, Altered, Normal, Shaped
<1> QED
  BY <1>3, MoveAloneKeeps DEF Open, c

(* Where a list of statements has another item, or where it ends.           *)
LEMMA NextItem ==
  ASSUME NEW n \in Nat \ {0}, NEW i \in 1 .. n
  PROVE  /\ i # n => i + 1 \in 1 .. n /\ 1 .. (i + 1) - 1 = (1 .. i - 1) \cup {i}
         /\ i = n => 1 .. n = (1 .. i - 1) \cup {i}
         /\ 1 \in 1 .. n /\ i + 1 \in Nat
OBVIOUS

LEMMA CreateTableKeeps ==
  ASSUME MigrationInv, NEW p \in Processes, CreateTable(p)
  PROVE  MigrationInv'
<1> DEFINE t == Tables[conn[p].next]
<1>1. conn[p] \in Conns /\ ConnSound(conn[p], file) /\ conn[p].at = "tables" /\ FileSound(file)
  BY DEF MigrationInv, CreateTable
<1>2. Len(Tables) \in Nat \ {0} /\ Len(Columns) \in Nat \ {0}
  BY MigrationAssumption
<1>3. conn[p].next \in 1 .. Len(Tables) /\ conn[p].fk
  BY <1>1 DEF ConnSound, Phases
<1>4. t \in Range(Tables)
  BY <1>3, MigrationAssumption DEF Range
<1>5. FileSound(file') /\ Grows(file, file')
  <2>1. CASE file' = file
    BY <1>1, <2>1 DEF Grows
  <2>2. CASE file' = [file EXCEPT !.tables = @ \cup {t},
                                  !.columns = @ \cup {<<t, c>> : c \in Declared[t]}]
    <3> DEFINE more == {<<t, c>> : c \in Declared[t]}
    <3>1. /\ file'.tables = file.tables \cup {t} /\ file'.columns = file.columns \cup more
          /\ file'.entries = file.entries /\ file'.usage = file.usage /\ file'.key = file.key
          /\ file' = [tables |-> file'.tables, columns |-> file'.columns,
                      entries |-> file'.entries, usage |-> file'.usage, key |-> file'.key]
      BY <1>1, <2>2 DEF FileSound
    <3> HIDE DEF t, more
    <3> QED
      BY <1>1, <1>4, <3>1 DEF FileSound, Grows, AllValid
  <2> QED
    BY <2>1, <2>2 DEF CreateTable
<1> DEFINE n == conn[p].next
           c == IF n = Len(Tables) THEN Moved(conn[p], "columns", 1)
                ELSE Moved(conn[p], "tables", n + 1)
<1>6. conn' = [conn EXCEPT ![p] = c]
  BY AdvancesMoves DEF CreateTable
<1>7. ConnSound(c, file')
  <2>1. CASE n = Len(Tables)
    <3>1. /\ c \in Conns /\ c.at = "columns" /\ c.next = 1 /\ c.fk
      <4>1. c = Moved(conn[p], "columns", 1) /\ "columns" \in Phases /\ 1 \in Nat
        BY <2>1 DEF Phases
      <4> HIDE DEF c, n
      <4> QED
        BY <1>1, <1>3, <4>1, MovedFields
    <3> QED
      BY <1>2, <3>1, NextItem DEF ConnSound, Altered, Normal, Shaped
  <2>2. CASE n # Len(Tables)
    <3>1. n + 1 \in 1 .. Len(Tables) /\ n + 1 \in Nat
      BY <1>2, <1>3, <2>2
    <3>2. /\ c \in Conns /\ c.at = "tables" /\ c.next = n + 1 /\ c.fk
      <4>1. c = Moved(conn[p], "tables", n + 1) /\ "tables" \in Phases /\ n + 1 \in Nat
        BY <2>2, <3>1 DEF Phases
      <4> HIDE DEF c, n
      <4> QED
        BY <1>1, <1>3, <4>1, MovedFields
    <3> QED
      BY <3>1, <3>2 DEF ConnSound, Altered, Normal, Shaped
  <2> QED
    BY <2>1, <2>2
<1> QED
  BY <1>5, <1>6, <1>7, MoveKeeps

(* A process passes a column that is there.                                 *)
LEMMA PassColumn ==
  ASSUME MigrationInv, NEW p \in Processes, conn[p].at \in {"columns", "alter"},
         Advances(p, "columns", Columns, "status"), FileSound(file'), Grows(file, file'),
         Columns[conn[p].next] \in file'.columns
  PROVE  MigrationInv'
<1> DEFINE n == conn[p].next
           c == IF n = Len(Columns) THEN Moved(conn[p], "status", 1)
                ELSE Moved(conn[p], "columns", n + 1)
<1>1. conn[p] \in Conns /\ ConnSound(conn[p], file)
  BY DEF MigrationInv
<1>2. Len(Columns) \in Nat \ {0}
  BY MigrationAssumption
<1>3. n \in 1 .. Len(Columns) /\ conn[p].fk /\ \A i \in 1 .. n - 1 : Columns[i] \in file.columns
  BY <1>1 DEF ConnSound, Phases
<1>4. \A i \in (1 .. n - 1) \cup {n} : Columns[i] \in file'.columns
  BY <1>3 DEF Grows
<1>5. conn' = [conn EXCEPT ![p] = c]
  BY AdvancesMoves
<1>6. ConnSound(c, file')
  <2>1. CASE n = Len(Columns)
    <3>1. c \in Conns /\ c.at = "status" /\ c.fk
      <4>1. c = Moved(conn[p], "status", 1) /\ "status" \in Phases /\ 1 \in Nat
        BY <2>1 DEF Phases
      <4> HIDE DEF c, n
      <4> QED
        BY <1>1, <1>3, <4>1, MovedFields
    <3>2. \A i \in 1 .. Len(Columns) : Columns[i] \in file'.columns
      BY <1>2, <1>3, <1>4, <2>1, NextItem
    <3> QED
      BY <3>1, <3>2 DEF ConnSound, Normal, Shaped
  <2>2. CASE n # Len(Columns)
    <3>1. n + 1 \in 1 .. Len(Columns) /\ n + 1 \in Nat /\ 1 .. (n + 1) - 1 = (1 .. n - 1) \cup {n}
      BY <1>2, <1>3, <2>2, NextItem
    <3>2. c \in Conns /\ c.at = "columns" /\ c.next = n + 1 /\ c.fk
      <4>1. c = Moved(conn[p], "columns", n + 1) /\ "columns" \in Phases /\ n + 1 \in Nat
        BY <2>2, <3>1 DEF Phases
      <4> HIDE DEF c, n
      <4> QED
        BY <1>1, <1>3, <4>1, MovedFields
    <3>3. \A i \in 1 .. c.next - 1 : Columns[i] \in file'.columns
      BY <1>4, <3>1, <3>2
    <3> QED
      BY <3>1, <3>2, <3>3 DEF ConnSound, Altered, Normal, Shaped
  <2> QED
    BY <2>1, <2>2
<1> QED
  BY <1>5, <1>6, MoveKeeps

LEMMA DescribeKeeps ==
  ASSUME MigrationInv, NEW p \in Processes, Describe(p)
  PROVE  MigrationInv'
<1>1. conn[p] \in Conns /\ ConnSound(conn[p], file) /\ conn[p].at = "columns" /\ FileSound(file)
      /\ file' = file
  BY DEF MigrationInv, Describe
<1>2. CASE Has(Columns[conn[p].next])
  <2>1. Grows(file, file')
    BY <1>1 DEF Grows
  <2> QED
    BY <1>1, <1>2, <2>1, PassColumn DEF Describe, Has
<1>3. CASE ~Has(Columns[conn[p].next])
  <2> DEFINE c == [conn[p] EXCEPT !.at = "alter"]
  <2>1. conn' = [conn EXCEPT ![p] = c]
    BY <1>3 DEF Describe, MigrationInv
  <2>2. c \in Conns /\ c.at = "alter" /\ c.next = conn[p].next /\ c.fk = conn[p].fk
    BY <1>1 DEF Conns, Phases
  <2> HIDE DEF c
  <2>3. ConnSound(c, file)
    BY <1>1, <2>2 DEF ConnSound, Phases, Altered, Normal, Shaped
  <2> QED
    BY <1>1, <2>1, <2>3, MoveAloneKeeps
<1> QED
  BY <1>2, <1>3

LEMMA AddColumnKeeps ==
  ASSUME MigrationInv, NEW p \in Processes, AddColumn(p)
  PROVE  MigrationInv'
<1>1. FileSound(file) /\ conn[p].at = "alter"
  BY DEF MigrationInv, AddColumn
<1>2. CASE Fails(p)
  BY <1>2, FailsKeeps
<1>3. CASE /\ file' = [file EXCEPT !.columns = @ \cup {Columns[conn[p].next]}]
           /\ Advances(p, "columns", Columns, "status")
  <2>1. /\ file'.tables = file.tables /\ file'.columns = file.columns \cup {Columns[conn[p].next]}
        /\ file'.entries = file.entries /\ file'.usage = file.usage /\ file'.key = file.key
        /\ file' = [tables |-> file'.tables, columns |-> file'.columns,
                    entries |-> file'.entries, usage |-> file'.usage, key |-> file'.key]
    BY <1>1, <1>3 DEF FileSound
  <2>2. FileSound(file') /\ Grows(file, file')
    BY <1>1, <2>1 DEF FileSound, Grows, AllValid
  <2> QED
    BY <1>1, <1>3, <2>1, <2>2, PassColumn
<1> QED
  BY <1>2, <1>3 DEF AddColumn

(* A process goes on to a phase behind the columns.                         *)
LEMMA GoesKeeps ==
  ASSUME MigrationInv, NEW p \in Processes, conn[p].at \in Altered, NEW at \in Normal \ {"open"},
         Goes(p, at), FileSound(file'), Grows(file, file'), AllValid(file'),
         at \in Shaped => NestedColumn \in file'.columns,
         conn[p].fk <=> at \notin {"rebuild", "restore"}
  PROVE  MigrationInv'
<1> DEFINE c == Moved(conn[p], at, 1)
<1>1. conn[p] \in Conns /\ ConnSound(conn[p], file)
  BY DEF MigrationInv
<1>2. at \in Phases /\ at \notin {"down", "tables", "columns", "alter", "status", "open"}
  BY DEF Phases, Normal, Shaped
<1>3. c \in Conns /\ c.at = at /\ (c.fk <=> at \notin {"rebuild", "restore"})
  BY <1>1, <1>2, MovedFields
<1>4. conn' = [conn EXCEPT ![p] = c]
  BY GoesMoves
<1>5. \A i \in 1 .. Len(Columns) : Columns[i] \in file'.columns
  BY <1>1 DEF ConnSound, Grows
<1> HIDE DEF c
<1>6. ConnSound(c, file')
  BY <1>2, <1>3, <1>5 DEF ConnSound
<1> QED
  BY <1>4, <1>6, MoveKeeps

LEMMA NormaliseStatusKeeps ==
  ASSUME MigrationInv, NEW p \in Processes, NormaliseStatus(p)
  PROVE  MigrationInv'
<1> DEFINE normal == [e \in DOMAIN file.entries |->
                        IF file.entries[e].status \in Valid THEN file.entries[e]
                        ELSE [file.entries[e] EXCEPT !.status = "unhealthy"]]
<1>1. /\ FileSound(file) /\ conn[p].at = "status" /\ ConnSound(conn[p], file)
      /\ file' = [file EXCEPT !.entries = normal] /\ Goes(p, "shape")
  BY DEF MigrationInv, NormaliseStatus
<1>2. \A e \in DOMAIN file.entries :
        normal[e] \in Rows /\ normal[e].status \in Valid /\ normal[e].nested = file.entries[e].nested
  <2> TAKE e \in DOMAIN file.entries
  <2>1. file.entries[e] \in Rows
    BY <1>1 DEF FileSound
  <2>2. CASE file.entries[e].status \in Valid
    BY <2>1, <2>2
  <2>3. CASE file.entries[e].status \notin Valid
    <3>1. normal[e] = [file.entries[e] EXCEPT !.status = "unhealthy"]
      BY <2>3
    <3> HIDE DEF normal
    <3> QED
      BY <2>1, <3>1 DEF Rows, Valid
  <2> QED
    BY <2>2, <2>3
<1>3. DOMAIN normal = DOMAIN file.entries
  OBVIOUS
<1>4. normal \in [DOMAIN normal -> Rows]
  BY <1>2
<1>5. /\ file'.tables = file.tables /\ file'.columns = file.columns
      /\ file'.entries = normal /\ file'.usage = file.usage /\ file'.key = file.key
      /\ file' = [tables |-> file'.tables, columns |-> file'.columns,
                  entries |-> file'.entries, usage |-> file'.usage, key |-> file'.key]
  BY <1>1 DEF FileSound
<1> HIDE DEF normal
<1>6. AllValid(file')
  BY <1>2, <1>3, <1>5 DEF AllValid
<1>7. FileSound(file') /\ Grows(file, file')
  BY <1>1, <1>2, <1>3, <1>4, <1>5, <1>6 DEF FileSound, Grows
<1>8. conn[p].fk
  BY <1>1 DEF ConnSound, Phases
<1> QED
  BY <1>1, <1>6, <1>7, <1>8, GoesKeeps DEF Altered, Normal, Shaped

LEMMA DescribeEntriesKeeps ==
  ASSUME MigrationInv, NEW p \in Processes, DescribeEntries(p)
  PROVE  MigrationInv'
<1> DEFINE at == IF NestedShape THEN "key" ELSE "enforced"
<1>1. /\ FileSound(file) /\ conn[p].at = "shape" /\ ConnSound(conn[p], file)
      /\ file' = file /\ Goes(p, at)
  BY DEF MigrationInv, DescribeEntries
<1>2. FileSound(file') /\ Grows(file, file') /\ AllValid(file') /\ conn[p].fk
  BY <1>1 DEF Grows, ConnSound, Phases, Normal
<1>3. /\ at \in Normal \ {"open"} /\ at \notin {"rebuild", "restore"}
      /\ at \in Shaped => NestedColumn \in file'.columns
  BY <1>1 DEF NestedShape, Has, Normal, Shaped
<1>4. conn[p].at \in Altered
  BY <1>1 DEF Altered, Normal
<1> HIDE DEF at
<1> QED
  BY <1>1, <1>2, <1>3, <1>4, GoesKeeps

LEMMA SuspendKeysKeeps ==
  ASSUME MigrationInv, NEW p \in Processes, SuspendKeys(p)
  PROVE  MigrationInv'
<1> DEFINE c == [conn[p] EXCEPT !.at = "rebuild", !.fk = FALSE]
<1>1. /\ conn[p] \in Conns /\ ConnSound(conn[p], file) /\ conn[p].at = "enforced" /\ file' = file
      /\ conn' = [conn EXCEPT ![p] = c]
  BY DEF MigrationInv, SuspendKeys
<1>2. c \in Conns /\ c.at = "rebuild" /\ ~c.fk
  BY <1>1 DEF Conns, Phases
<1> HIDE DEF c
<1>3. ConnSound(c, file)
  BY <1>1, <1>2 DEF ConnSound, Altered, Normal, Shaped
<1> QED
  BY <1>1, <1>3, MoveAloneKeeps

LEMMA RebuildKeeps ==
  ASSUME MigrationInv, NEW p \in Processes, Rebuild(p)
  PROVE  MigrationInv' /\ (Fails(p) \/ (file'.usage = file.usage /\ file'.entries = file.entries
                                           /\ file'.key = file.key))
<1>1. /\ FileSound(file) /\ conn[p].at = "rebuild" /\ ConnSound(conn[p], file)
  BY DEF MigrationInv, Rebuild
<1>2. ~conn[p].fk /\ AllValid(file) /\ conn[p].at \in Altered
  BY <1>1 DEF ConnSound, Altered, Normal
<1>3. CASE Fails(p)
  BY <1>3, FailsKeeps
<1>4. CASE ~Fails(p)
  <2> DEFINE more == {<<Entries, c>> : c \in Declared[Entries]}
  <2>1. /\ Goes(p, "restore")
        /\ file' = [file EXCEPT !.columns = @ \cup more, !.usage = @]
    BY <1>2, <1>4 DEF Rebuild
  <2>2. NestedColumn \in more
    BY MigrationAssumption DEF NestedColumn
  <2> HIDE DEF more
  <2>3. /\ file'.tables = file.tables /\ file'.columns = file.columns \cup more
        /\ file'.entries = file.entries /\ file'.usage = file.usage /\ file'.key = file.key
        /\ file' = [tables |-> file'.tables, columns |-> file'.columns,
                    entries |-> file'.entries, usage |-> file'.usage, key |-> file'.key]
    BY <1>1, <2>1 DEF FileSound
  <2>4. FileSound(file') /\ Grows(file, file') /\ AllValid(file')
    BY <1>1, <1>2, <2>3 DEF FileSound, Grows, AllValid
  <2>5. NestedColumn \in file'.columns /\ "restore" \in Normal \ {"open"}
    BY <2>2, <2>3 DEF Normal, Shaped
  <2> QED
    BY <1>2, <2>1, <2>3, <2>4, <2>5, GoesKeeps
<1> QED
  BY <1>3, <1>4

LEMMA RestoreKeysKeeps ==
  ASSUME MigrationInv, NEW p \in Processes, RestoreKeys(p)
  PROVE  MigrationInv'
<1> DEFINE c == [conn[p] EXCEPT !.at = "key", !.fk = TRUE]
<1>1. /\ conn[p] \in Conns /\ ConnSound(conn[p], file) /\ conn[p].at = "restore" /\ file' = file
      /\ conn' = [conn EXCEPT ![p] = c]
  BY DEF MigrationInv, RestoreKeys
<1>2. c \in Conns /\ c.at = "key" /\ c.fk
  BY <1>1 DEF Conns, Phases
<1> HIDE DEF c
<1>3. ConnSound(c, file)
  BY <1>1, <1>2 DEF ConnSound, Altered, Normal, Shaped
<1> QED
  BY <1>1, <1>3, MoveAloneKeeps

LEMMA ReadKeyKeeps ==
  ASSUME MigrationInv, NEW p \in Processes, ReadKey(p)
  PROVE  MigrationInv'
<1>1. /\ conn[p] \in Conns /\ ConnSound(conn[p], file) /\ conn[p].at = "key" /\ file' = file
      /\ file.key \in Processes \cup {None}
  BY DEF MigrationInv, ReadKey, FileSound
<1>2. CASE file.key = None
  <2> DEFINE c == [conn[p] EXCEPT !.at = "newkey"]
  <2>1. conn' = [conn EXCEPT ![p] = c]
    BY <1>2 DEF MigrationInv, ReadKey
  <2>2. c \in Conns /\ c.at = "newkey" /\ c.fk = conn[p].fk
    BY <1>1 DEF Conns, Phases
  <2> HIDE DEF c
  <2>3. ConnSound(c, file)
    BY <1>1, <2>2 DEF ConnSound, Phases, Altered, Normal, Shaped
  <2> QED
    BY <1>1, <2>1, <2>3, MoveAloneKeeps
<1>3. CASE file.key # None
  <2> DEFINE c == [conn[p] EXCEPT !.at = "open", !.key = file.key]
  <2>1. conn' = [conn EXCEPT ![p] = c]
    BY <1>3 DEF MigrationInv, ReadKey
  <2>2. c \in Conns /\ c.at = "open" /\ c.fk = conn[p].fk /\ c.key = file.key
    BY <1>1 DEF Conns, Phases
  <2> HIDE DEF c
  <2>3. ConnSound(c, file)
    BY <1>1, <1>3, <2>2 DEF ConnSound, Phases, Altered, Normal, Shaped
  <2> QED
    BY <1>1, <2>1, <2>3, MoveAloneKeeps
<1> QED
  BY <1>2, <1>3

LEMMA InsertKeyKeeps ==
  ASSUME MigrationInv, NEW p \in Processes, InsertKey(p)
  PROVE  MigrationInv'
<1>1. /\ FileSound(file) /\ conn[p] \in Conns /\ ConnSound(conn[p], file) /\ conn[p].at = "newkey"
  BY DEF MigrationInv, InsertKey
<1>2. CASE Fails(p)
  BY <1>2, FailsKeeps
<1>3. CASE ~Fails(p)
  <2> DEFINE c == [conn[p] EXCEPT !.at = "open", !.key = p]
  <2>1. /\ file.key = None /\ file' = [file EXCEPT !.key = p]
        /\ conn' = [conn EXCEPT ![p] = c]
    BY <1>3 DEF InsertKey, MigrationInv
  <2>2. c \in Conns /\ c.at = "open" /\ c.fk = conn[p].fk /\ c.key = p
    BY <1>1 DEF Conns, Phases
  <2>3. /\ file'.tables = file.tables /\ file'.columns = file.columns
        /\ file'.entries = file.entries /\ file'.usage = file.usage /\ file'.key = p
        /\ file' = [tables |-> file'.tables, columns |-> file'.columns,
                    entries |-> file'.entries, usage |-> file'.usage, key |-> file'.key]
    BY <1>1, <2>1 DEF FileSound
  <2>4. FileSound(file') /\ Grows(file, file')
    BY <1>1, <2>1, <2>3 DEF FileSound, Grows, AllValid
  <2> HIDE DEF c
  <2>5. p # None
    BY MigrationAssumption
  <2>6. ConnSound(c, file')
    <3>1. /\ c.fk /\ AllValid(file') /\ NestedColumn \in file'.columns
          /\ \A i \in 1 .. Len(Columns) : Columns[i] \in file'.columns
      BY <1>1, <2>2, <2>3 DEF ConnSound, Phases, Altered, Normal, Shaped, AllValid
    <3> QED
      BY <2>2, <2>3, <2>5, <3>1 DEF ConnSound
  <2> QED
    BY <2>1, <2>4, <2>6, MoveKeeps
<1> QED
  BY <1>2, <1>3

LEMMA CrashKeeps ==
  ASSUME MigrationInv, NEW p \in Processes, Crash(p)
  PROVE  MigrationInv'
BY DownSound, MoveAloneKeeps DEF Crash

-----------------------------------------------------------------------------
(* Processes at work.                                                       *)

(* Work leaves the connections alone.                                       *)
LEMMA WorkKeeps ==
  ASSUME MigrationInv, conn' = conn, FileSound(file'), Grows(file, file')
  PROVE  MigrationInv'
BY GrowthKeepsConnections DEF MigrationInv

LEMMA AddEntryKeeps ==
  ASSUME MigrationInv, NEW p \in Processes, NEW nested \in BOOLEAN, AddEntry(p, nested)
  PROVE  /\ MigrationInv' /\ file'.usage = file.usage /\ file'.key = file.key
         /\ DOMAIN file.entries \subseteq DOMAIN file'.entries
<1> DEFINE row == [nested |-> nested, status |-> "healthy"]
           entries == [e \in DOMAIN file.entries \cup {NewEntry} |->
                         IF e = NewEntry THEN row ELSE file.entries[e]]
<1>1. /\ FileSound(file) /\ conn[p].at = "open" /\ ConnSound(conn[p], file)
      /\ conn' = conn /\ file' = [file EXCEPT !.entries = entries]
  BY DEF MigrationInv, AddEntry, Work
<1>2. NestedColumn \in file.columns
  BY <1>1 DEF ConnSound, Shaped
<1>3. row \in Rows /\ row.status \in Valid
  BY DEF Rows, Valid
<1>4. /\ DOMAIN file.entries \subseteq DOMAIN entries
      /\ \A e \in DOMAIN entries : entries[e] = row \/ (e \in DOMAIN file.entries
                                                         /\ entries[e] = file.entries[e])
      /\ entries = [e \in DOMAIN entries |-> entries[e]]
  OBVIOUS
<1> HIDE DEF row, entries
<1>5. entries \in [DOMAIN entries -> Rows]
  BY <1>1, <1>3, <1>4 DEF FileSound
<1>6. /\ file'.tables = file.tables /\ file'.columns = file.columns
      /\ file'.entries = entries /\ file'.usage = file.usage /\ file'.key = file.key
      /\ file' = [tables |-> file'.tables, columns |-> file'.columns,
                  entries |-> file'.entries, usage |-> file'.usage, key |-> file'.key]
  BY <1>1 DEF FileSound
<1>7. FileSound(file')
  BY <1>1, <1>2, <1>4, <1>5, <1>6 DEF FileSound
<1>8. Grows(file, file')
  BY <1>3, <1>4, <1>6 DEF Grows, AllValid
<1> QED
  BY <1>1, <1>4, <1>6, <1>7, <1>8, WorkKeeps

LEMMA LogUsageKeeps ==
  ASSUME MigrationInv, NEW p \in Processes, LogUsage(p)
  PROVE  /\ MigrationInv' /\ file.usage \subseteq file'.usage /\ file'.key = file.key
         /\ DOMAIN file.entries \subseteq DOMAIN file'.entries
<1>1. PICK e \in DOMAIN file.entries : file' = [file EXCEPT !.usage = @ \cup {e}]
  BY DEF LogUsage, Work
<1>2. FileSound(file) /\ conn' = conn
  BY DEF MigrationInv, LogUsage, Work
<1>3. /\ file'.tables = file.tables /\ file'.columns = file.columns
      /\ file'.entries = file.entries /\ file'.usage = file.usage \cup {e} /\ file'.key = file.key
      /\ file' = [tables |-> file'.tables, columns |-> file'.columns,
                  entries |-> file'.entries, usage |-> file'.usage, key |-> file'.key]
  BY <1>1, <1>2 DEF FileSound
<1>4. FileSound(file') /\ Grows(file, file')
  BY <1>2, <1>3 DEF FileSound, Grows, AllValid
<1> QED
  BY <1>2, <1>3, <1>4, WorkKeeps

LEMMA DeleteEntryKeeps ==
  ASSUME MigrationInv, NEW p \in Processes, DeleteEntry(p)
  PROVE  MigrationInv'
<1>1. FileSound(file) /\ conn' = conn /\ conn[p].at = "open" /\ ConnSound(conn[p], file)
  BY DEF MigrationInv, DeleteEntry, Work
<1>2. conn[p].fk
  BY <1>1 DEF ConnSound, Phases
<1>3. PICK e \in DOMAIN file.entries :
        file' = [file EXCEPT !.entries = Restrict(@, DOMAIN @ \ {e}), !.usage = @ \ {e}]
  BY <1>2 DEF DeleteEntry, Work
<1> DEFINE entries == [x \in DOMAIN file.entries \ {e} |-> file.entries[x]]
<1>4. Restrict(file.entries, DOMAIN file.entries \ {e}) = entries
  BY DEF Restrict
<1>5. /\ file'.tables = file.tables /\ file'.columns = file.columns
      /\ file'.entries = entries /\ file'.usage = file.usage \ {e} /\ file'.key = file.key
      /\ file' = [tables |-> file'.tables, columns |-> file'.columns,
                  entries |-> file'.entries, usage |-> file'.usage, key |-> file'.key]
  BY <1>1, <1>3, <1>4 DEF FileSound
<1>6. DOMAIN entries = DOMAIN file.entries \ {e} /\ entries \in [DOMAIN entries -> Rows]
  BY <1>1 DEF FileSound
<1>7. \A x \in DOMAIN entries : x \in DOMAIN file.entries /\ entries[x] = file.entries[x]
  OBVIOUS
<1> HIDE DEF entries
<1>8. FileSound(file')
  BY <1>1, <1>5, <1>6, <1>7 DEF FileSound
<1>9. Grows(file, file')
  BY <1>5, <1>7 DEF Grows, AllValid
<1> QED
  BY <1>1, <1>8, <1>9, WorkKeeps

-----------------------------------------------------------------------------
LEMMA InitMigrationInv == Init => MigrationInv
<1> SUFFICES ASSUME Init PROVE MigrationInv
  OBVIOUS
<1>1. FileSound(file) /\ conn = [p \in Processes |-> Down]
  BY MigrationAssumption DEF Init
<1>2. Down \in Conns
  BY DownSound DEF ConnSound
<1> QED
  BY <1>1, <1>2, DownSound DEF MigrationInv

LEMMA StepKeeps ==
  ASSUME MigrationInv, NEW p \in Processes, Step(p)
  PROVE  MigrationInv'
BY CreateTableKeeps, DescribeKeeps, AddColumnKeeps, NormaliseStatusKeeps, DescribeEntriesKeeps,
   SuspendKeysKeeps, RebuildKeeps, RestoreKeysKeeps, ReadKeyKeeps, InsertKeyKeeps DEF Step

LEMMA NextKeeps == MigrationInv /\ [Next]_vars => MigrationInv'
<1> SUFFICES ASSUME MigrationInv, [Next]_vars PROVE MigrationInv'
  OBVIOUS
<1>1. CASE UNCHANGED vars
  BY <1>1 DEF vars, MigrationInv
<1>2. ASSUME NEW p \in Processes,
             \/ Open(p) \/ Step(p) \/ Crash(p) \/ LogUsage(p) \/ DeleteEntry(p)
             \/ \E nested \in BOOLEAN : AddEntry(p, nested)
      PROVE  MigrationInv'
  BY <1>2, OpenKeeps, StepKeeps, CrashKeeps, LogUsageKeeps, DeleteEntryKeeps, AddEntryKeeps
<1> QED
  BY <1>1, <1>2 DEF Next

(* What Store::open and the work of the processes keep, wherever they die.  *)
THEOREM MigrationBookkeeping == Spec => []MigrationInv
BY InitMigrationInv, NextKeeps, PTL DEF Spec

(* Usage rows have their entries and nested entries their shape, through     *)
(* every rebuild and every crash (schema.rs).                               *)
THEOREM FileStaysSound == Spec => []TypeOK
<1>1. MigrationInv => TypeOK
  BY DEF MigrationInv, ConnSound, TypeOK, NestedShape, Has, Shaped
<1> QED
  BY <1>1, MigrationBookkeeping, PTL

(* Whoever has the store open has enforced foreign keys, every column, only *)
(* statuses the code can read, and the one master key (Store::open).        *)
THEOREM OpenStoreIsSound == Spec => []OpenIsSound
<1>1. MigrationInv => OpenIsSound
  <2> SUFFICES ASSUME MigrationInv, NEW p \in Processes, conn[p].at = "open"
               PROVE  /\ conn[p].fk /\ conn[p].key = file.key
                      /\ Range(Columns) \subseteq file.columns
                      /\ \A e \in DOMAIN file.entries : file.entries[e].status \in Valid
    BY DEF OpenIsSound
  <2>1. ConnSound(conn[p], file)
    BY DEF MigrationInv
  <2>2. /\ conn[p].fk /\ conn[p].key = file.key /\ AllValid(file)
        /\ \A i \in 1 .. Len(Columns) : Columns[i] \in file.columns
    BY <2>1 DEF ConnSound, Phases, Altered, Normal, Shaped
  <2>3. DOMAIN Columns = 1 .. Len(Columns)
    BY MigrationAssumption
  <2> QED
    BY <2>2, <2>3 DEF AllValid, Range
<1> QED
  BY <1>1, MigrationBookkeeping, PTL

LEMMA StepLosesNothing ==
  ASSUME MigrationInv, [Next]_vars, ~\E p \in Processes : DeleteEntry(p)
  PROVE  /\ file.usage \subseteq file'.usage /\ DOMAIN file.entries \subseteq DOMAIN file'.entries
         /\ file.key # None => file'.key = file.key
<1> DEFINE Kept == /\ file.usage \subseteq file'.usage
                   /\ DOMAIN file.entries \subseteq DOMAIN file'.entries
                   /\ file.key # None => file'.key = file.key
<1> SUFFICES Kept
  OBVIOUS
<1>1. CASE file' = file
  BY <1>1
<1>2. FileSound(file)
  BY DEF MigrationInv
<1>3. ASSUME NEW p \in Processes, Step(p)
      PROVE  Kept
  <2>1. CASE Rebuild(p)
    BY <1>1, <2>1, RebuildKeeps DEF Fails
  <2>2. CASE CreateTable(p) \/ AddColumn(p) \/ InsertKey(p)
    <3>1. /\ file'.usage = file.usage /\ file'.entries = file.entries
          /\ file.key # None => file'.key = file.key
      BY <1>2, <2>2 DEF CreateTable, AddColumn, InsertKey, Fails, FileSound
    <3> QED
      BY <3>1
  <2>3. CASE NormaliseStatus(p)
    BY <1>2, <2>3 DEF NormaliseStatus, FileSound
  <2>4. CASE Describe(p) \/ DescribeEntries(p) \/ SuspendKeys(p) \/ RestoreKeys(p) \/ ReadKey(p)
    BY <1>1, <2>4 DEF Describe, DescribeEntries, SuspendKeys, RestoreKeys, ReadKey
  <2> QED
    BY <1>3, <2>1, <2>2, <2>3, <2>4 DEF Step
<1>4. ASSUME NEW p \in Processes, Open(p) \/ Crash(p)
      PROVE  Kept
  BY <1>1, <1>4 DEF Open, Crash
<1>5. ASSUME NEW p \in Processes,
             LogUsage(p) \/ \E nested \in BOOLEAN : AddEntry(p, nested)
      PROVE  Kept
  BY <1>5, LogUsageKeeps, AddEntryKeeps
<1>6. CASE UNCHANGED vars
  BY <1>1, <1>6 DEF vars
<1> HIDE DEF Kept
<1>7. CASE Next
  <2>1. PICK p \in Processes :
          \/ Open(p) \/ Step(p) \/ Crash(p) \/ LogUsage(p) \/ DeleteEntry(p)
          \/ \E nested \in BOOLEAN : AddEntry(p, nested)
    BY <1>7 DEF Next
  <2> QED
    BY <1>3, <1>4, <1>5, <2>1
<1> QED
  BY <1>6, <1>7

(* "Dropping the old table ... would silently erase the entire usage         *)
(* history" (schema.rs): no statement of any open loses an entry, a usage   *)
(* row or the key, wherever another process is in its own.                  *)
THEOREM HistoryIsKept == Spec => HistoryKept
<1>1. MigrationInv /\ [Next]_vars =>
        [\/ /\ file.usage \subseteq file'.usage /\ DOMAIN file.entries \subseteq DOMAIN file'.entries
            /\ file.key # None => file'.key = file.key
         \/ \E p \in Processes : DeleteEntry(p)]_vars
  BY StepLosesNothing
<1> QED
  BY <1>1, MigrationBookkeeping, PTL DEF Spec, HistoryKept
=============================================================================
