----------------------------- MODULE SqlSchema -----------------------------
(***************************************************************************)
(* What the schema scripts of libpkg do to a database, statement by        *)
(* statement: the part of SQLite 3.8.5 (external/sqlite) that src/libpkg   *)
(* uses in pkgdb_init, db_upgrades and repo_upgrades.                      *)
(*                                                                         *)
(* A database is its user_version and the rows of its catalogue: pairs     *)
(* (table, column), pairs (table, table it refers to), triples (index,     *)
(* table, unique), views, and pairs (trigger, what it is on).  data says   *)
(* which stored columns of the first database each column has the values   *)
(* of: triples (table, column, stored column).  ok is FALSE once a         *)
(* statement has failed: the rest of the script is then not run.           *)
(***************************************************************************)
EXTENDS Naturals, Sequences, FiniteSets, SequencesExt

NoDatabase == [version |-> 0, cols |-> {}, refs |-> {}, indexes |-> {}, views |-> {},
               triggers |-> {}, data |-> {}, ok |-> TRUE]

(***************************************************************************)
(* Statements.                                                             *)
(***************************************************************************)
Table(t, cols, refs) ==
    [op |-> "table", name |-> t, cols |-> cols, refs |-> refs, soft |-> FALSE]
SoftTable(t, cols) ==
    [op |-> "table", name |-> t, cols |-> cols, refs |-> {}, soft |-> TRUE]
DropTable(t) == [op |-> "drop table", name |-> t]
Rename(t, u) == [op |-> "rename", name |-> t, to |-> u]
AddColumn(t, c) == [op |-> "column", name |-> t, col |-> c]
Index(i, t, cols) ==
    [op |-> "index", name |-> i, table |-> t, cols |-> cols,
     unique |-> FALSE, soft |-> FALSE]
SoftIndex(i, t, cols) == [Index(i, t, cols) EXCEPT !.soft = TRUE]
UniqueIndex(i, t, cols) == [Index(i, t, cols) EXCEPT !.unique = TRUE]
DropIndex(i) == [op |-> "drop index", name |-> i]
View(v) == [op |-> "view", name |-> v]
DropView(v) == [op |-> "drop view", name |-> v]
Trigger(n, v) == [op |-> "trigger", name |-> n, on |-> v]
DropTrigger(n) == [op |-> "drop trigger", name |-> n]

\* INSERT INTO t(...) SELECT ... FROM from: cols says which column of the
\* source goes into each column of t.
Copy(t, cols, from) == [op |-> "copy", name |-> t, cols |-> cols, from |-> from]
Same(cols) == [c \in cols |-> c]

\* UPDATE t SET c = ..., which replaces the values of c, and DELETE FROM t.
Overwrite(t, c) == [op |-> "overwrite", name |-> t, cols |-> {c}]
Clear(t, cols) == [op |-> "overwrite", name |-> t, cols |-> cols]

(***************************************************************************)
(* Execution of one statement.  fk is the foreign_keys pragma of the       *)
(* connection: with it a rename rewrites the references of other tables    *)
(* and dropping a table deletes the rows that refer to it.                 *)
(***************************************************************************)
Tables(db) == {x[1] : x \in db.cols}
Columns(db, t) == {x[2] : x \in {y \in db.cols : y[1] = t}}
Indexes(db) == {x[1] : x \in db.indexes}
Triggers(db) == {x[1] : x \in db.triggers}
NameTaken(db, n) == n \in Tables(db) \cup db.views \cup Indexes(db)
Failed(db) == [db EXCEPT !.ok = FALSE]

Possible(db, s) ==
    CASE s.op = "table"        -> ~NameTaken(db, s.name)
      [] s.op = "drop table"   -> s.name \in Tables(db)
      [] s.op = "rename"       -> s.name \in Tables(db) /\ ~NameTaken(db, s.to)
      [] s.op = "column"       -> s.name \in Tables(db) /\ s.col \notin Columns(db, s.name)
      [] s.op = "index"        -> ~NameTaken(db, s.name) /\ ({s.table} \X s.cols) \subseteq db.cols
      [] s.op = "drop index"   -> s.name \in Indexes(db)
      [] s.op = "view"         -> ~NameTaken(db, s.name)
      [] s.op = "drop view"    -> s.name \in db.views
      [] s.op = "trigger"      -> s.on \in db.views \cup Tables(db) /\ s.name \notin Triggers(db)
      [] s.op = "drop trigger" -> s.name \in Triggers(db)
      [] s.op = "copy"         -> \A c \in DOMAIN s.cols :
                                     /\ <<s.name, c>> \in db.cols
                                     /\ \E t \in s.from : <<t, s.cols[c]>> \in db.cols
      [] s.op = "overwrite"    -> ({s.name} \X s.cols) \subseteq db.cols

\* IF NOT EXISTS: nothing to do when the thing is there already.
Skipped(db, s) ==
    /\ s.op \in {"table", "index"}
    /\ s.soft
    /\ s.name \in Tables(db) \cup Indexes(db)

\* The rows of the tables that refer to t go with it when foreign keys are on.
Dropped(db, t, fk) ==
    LET children == {r[1] : r \in {x \in db.refs : fk /\ x[2] = t}}
    IN  [db EXCEPT !.cols = {x \in @ : x[1] # t},
                   !.refs = {x \in @ : x[1] # t},
                   !.indexes = {x \in @ : x[2] # t},
                   !.triggers = {x \in @ : x[2] # t},
                   !.data = {x \in @ : x[1] \notin {t} \cup children}]

Renamed(db, t, u, fk) ==
    LET name(x) == IF x = t THEN u ELSE x
    IN  [db EXCEPT !.cols = {<<name(x[1]), x[2]>> : x \in @},
                   !.refs = {<<name(x[1]), IF fk THEN name(x[2]) ELSE x[2]>> : x \in @},
                   !.indexes = {<<x[1], name(x[2]), x[3]>> : x \in @},
                   !.triggers = {<<x[1], name(x[2])>> : x \in @},
                   !.data = {<<name(x[1]), x[2], x[3]>> : x \in @}]

\* A column gets the values of the source column that goes into it.
Copied(db, s) ==
    UNION {{<<s.name, c, x[3]>> : x \in {y \in db.data : y[1] \in s.from /\ y[2] = s.cols[c]}} :
              c \in DOMAIN s.cols}

Effect(db, s, fk) ==
    CASE s.op = "table" -> [db EXCEPT !.cols = @ \cup ({s.name} \X s.cols),
                                      !.refs = @ \cup ({s.name} \X s.refs)]
      [] s.op = "drop table" -> Dropped(db, s.name, fk)
      [] s.op = "rename" -> Renamed(db, s.name, s.to, fk)
      [] s.op = "column" -> [db EXCEPT !.cols = @ \cup {<<s.name, s.col>>}]
      [] s.op = "index" -> [db EXCEPT !.indexes = @ \cup {<<s.name, s.table, s.unique>>}]
      [] s.op = "drop index" -> [db EXCEPT !.indexes = {x \in @ : x[1] # s.name}]
      [] s.op = "view" -> [db EXCEPT !.views = @ \cup {s.name}]
      [] s.op = "drop view" -> [db EXCEPT !.views = @ \ {s.name},
                                          !.triggers = {x \in @ : x[2] # s.name}]
      [] s.op = "trigger" -> [db EXCEPT !.triggers = @ \cup {<<s.name, s.on>>}]
      [] s.op = "drop trigger" -> [db EXCEPT !.triggers = {x \in @ : x[1] # s.name}]
      [] s.op = "copy" -> [db EXCEPT !.data = @ \cup Copied(db, s)]
      [] s.op = "overwrite" ->
            [db EXCEPT !.data = {x \in @ : ~(x[1] = s.name /\ x[2] \in s.cols)}]

Statement(db, s, fk) ==
    IF ~db.ok \/ Skipped(db, s) THEN db
    ELSE IF Possible(db, s) THEN Effect(db, s, fk) ELSE Failed(db)

\* sqlite3_exec: the statements in order, up to the first one that fails.
Script(db, stmts, fk) ==
    FoldLeft(LAMBDA d, s : Statement(d, s, fk), db, stmts)

\* A long script in parts.
Parts(db, scripts, fk) ==
    FoldLeft(LAMBDA d, s : IF d.ok THEN Script(d, s, fk) ELSE d, db, scripts)

(***************************************************************************)
(* Two schemas compared: every column, view, trigger and unique index of   *)
(* one is in the other, and its tables refer to the same tables.  Plain    *)
(* indexes only cost time.                                                 *)
(***************************************************************************)
Uniques(db) == {x \in db.indexes : x[3]}

Covers(db, new) ==
    /\ new.cols \subseteq db.cols
    /\ {x \in db.refs : x[1] \in Tables(new)} = new.refs
    /\ new.views \subseteq db.views
    /\ new.triggers \subseteq db.triggers
    /\ Uniques(new) \subseteq db.indexes

\* The stored columns whose values the database still has.
Kept(db) == {x[3] : x \in db.data}

\* The database with every column holding its own values.
Filled(db) == [db EXCEPT !.data = {<<x[1], x[2], x>> : x \in db.cols}]

=============================================================================
