------------------------------ MODULE Migration ------------------------------
(***************************************************************************)
(* AutoMigrate (scope.go, the Has... operations of the dialects): programs *)
(* of one or of several versions bring a schema up to their models.        *)
(*                                                                         *)
(* Everything is looked for and then made, in two statements, with the     *)
(* other programs' statements in between.  A look may fail, which panics in*)
(* MySQL and reads as "not there" elsewhere; any statement may fail; a     *)
(* program may stop between any two statements and start again.  Tables of *)
(* many-to-many fields are made on the way, before the model's own, and    *)
(* migrated by a nested AutoMigrate of their handler.                      *)
(***************************************************************************)
EXTENDS Naturals, Sequences, FiniteSets

CONSTANTS
  Procs,     \* running programs
  Models,    \* what each passes to AutoMigrate: [table, fields, indexes], in order
  Extra,     \* columns of the handlers' own, by join table
  Hides,     \* <<c, x>>: the text SQLite looks for to find column c is part of x
  Dialects,
  MaxStarts  \* bound: runs of AutoMigrate, by dialect

ModelsOf(p) == {Models[p][i] : i \in DOMAIN Models[p]}
FieldsOf(m) == {m.fields[i] : i \in DOMAIN m.fields}
ColumnsOf(m) == {f.name : f \in {g \in FieldsOf(m) : g.kind = "column"}}
JoinsOf(m) == {f.name : f \in {g \in FieldsOf(m) : g.kind = "join"}}

ASSUME MigrationAssumption ==
  /\ MaxStarts \in [Dialects -> Nat]
  /\ \A p \in Procs : Models[p] # <<>> /\ Models[p] \in Seq(ModelsOf(p))
  /\ \A p \in Procs : \A m \in ModelsOf(p) :
       /\ m.fields \in Seq(FieldsOf(m))
       /\ \A f \in FieldsOf(m) : f.kind \in {"column", "join"}
       /\ IsFiniteSet(m.indexes) /\ JoinsOf(m) \subseteq DOMAIN Extra
       /\ m.table \notin JoinsOf(m)

VARIABLES
  dialect,
  tables,   \* tables there are
  columns,  \* <<table, column>>
  indexes,  \* <<table, index>>
  pc,       \* where the program's AutoMigrate is
  model,    \* the model at work
  making,   \* its table was not there
  left,     \* its fields still to handle
  todo,     \* indexes, or columns of a join table, still to handle
  cur,      \* the one in hand
  err,      \* the handle has an error
  nerr,     \* so has the handle of the nested AutoMigrate
  starts,   \* runs begun
  quiet     \* history: no statement failed, and nobody else changed the schema

schema == <<tables, columns, indexes>>
work == <<pc, model, making, left, todo, cur, err, nerr>>
migrationVars == <<dialect, schema, work, starts, quiet>>

-----------------------------------------------------------------------------
Model(p) == Models[p][model[p]]
Table(p) == Model(p).table
Field(p) == Head(left[p])

\* What a look may answer when the truth is b.
Answers(b) == IF dialect = "mysql" THEN {b} ELSE {b, FALSE}

\* SQLite looks in the text of what was created for the table.
HasColumn(t, c) ==
  \/ <<t, c>> \in columns
  \/ dialect = "sqlite" /\ \E x \in columns \cup indexes : x[1] = t /\ <<c, x[2]>> \in Hides

To(p, where) == pc' = [pc EXCEPT ![p] = where]

Forgets(p, where) ==
  /\ To(p, where)
  /\ model' = [model EXCEPT ![p] = 1] /\ making' = [making EXCEPT ![p] = FALSE]
  /\ left' = [left EXCEPT ![p] = <<>>] /\ todo' = [todo EXCEPT ![p] = {}]
  /\ cur' = [cur EXCEPT ![p] = ""] /\ nerr' = [nerr EXCEPT ![p] = FALSE]

\* Histories: a step of p went wrong; it changed something for the others.
Notes(p, wrong) == quiet' = [quiet EXCEPT ![p] = @ /\ ~wrong]
NotesAll(p, wrong) ==
  quiet' = [q \in Procs |-> quiet[q] /\ IF q = p THEN ~wrong ELSE schema' = schema]

\* Exec on a handle with error e: skipped, or done, or refused by the database
\* (~can), or failing for reasons of its own.
Exec(p, e, can, effect, none, bad) ==
  \/ e /\ none /\ bad' = bad /\ NotesAll(p, FALSE)
  \/ ~e /\ can /\ effect /\ bad' = bad /\ NotesAll(p, FALSE)
  \/ ~e /\ none /\ bad' = [bad EXCEPT ![p] = TRUE] /\ NotesAll(p, can)

AfterField(p, rest) ==
  /\ left' = [left EXCEPT ![p] = rest]
  /\ To(p, IF rest # <<>> THEN "field" ELSE IF making[p] THEN "create" ELSE "index")
  /\ todo' = [todo EXCEPT ![p] = Model(p).indexes]

-----------------------------------------------------------------------------
\* The program starts and calls AutoMigrate on a handle without error.
Start(p) ==
  /\ pc[p] \in {"off", "done"} /\ starts < MaxStarts[dialect]
  /\ starts' = starts + 1
  /\ To(p, "table")
  /\ err' = [err EXCEPT ![p] = FALSE]
  /\ quiet' = [quiet EXCEPT ![p] = TRUE]
  /\ UNCHANGED <<dialect, schema, model, making, left, todo, cur, nerr>>

\* It crashes; or a look fails in MySQL, which panics.
Stop(p) ==
  /\ pc[p] \notin {"off", "done"}
  /\ Forgets(p, "off")
  /\ err' = [err EXCEPT ![p] = FALSE] /\ quiet' = [quiet EXCEPT ![p] = TRUE]
  /\ UNCHANGED <<dialect, schema, starts>>

\* Faulty: a table that is there is taken to have its columns.
LookTable_NoFields(p) ==
  /\ pc[p] = "table"
  /\ \E there \in Answers(Table(p) \in tables) :
       LET rest == IF there THEN <<>> ELSE Model(p).fields IN
         /\ making' = [making EXCEPT ![p] = ~there]
         /\ left' = [left EXCEPT ![p] = rest]
         /\ To(p, IF rest # <<>> THEN "field" ELSE IF there THEN "index" ELSE "create")
         /\ Notes(p, there # (Table(p) \in tables))
  /\ todo' = [todo EXCEPT ![p] = Model(p).indexes]
  /\ UNCHANGED <<dialect, schema, model, cur, err, nerr, starts>>

\* Field after field, whether the table is made or altered.
LookTable(p) ==
  /\ pc[p] = "table"
  /\ \E there \in Answers(Table(p) \in tables) :
         /\ making' = [making EXCEPT ![p] = ~there]
         /\ left' = [left EXCEPT ![p] = Model(p).fields]
         /\ To(p, IF Model(p).fields # <<>> THEN "field" ELSE IF there THEN "index" ELSE "create")
         /\ Notes(p, there # (Table(p) \in tables))
  /\ todo' = [todo EXCEPT ![p] = Model(p).indexes]
  /\ UNCHANGED <<dialect, schema, model, cur, err, nerr, starts>>

\* The field of a column becomes part of CREATE TABLE.
CollectColumn(p) ==
  /\ pc[p] = "field" /\ Field(p).kind = "column" /\ making[p]
  /\ AfterField(p, Tail(left[p]))
  /\ UNCHANGED <<dialect, schema, model, making, cur, err, nerr, starts, quiet>>

LookColumn(p) ==
  /\ pc[p] = "field" /\ Field(p).kind = "column" /\ ~making[p]
  /\ LET has == HasColumn(Table(p), Field(p).name) IN
       \E there \in Answers(has) :
         /\ IF there THEN AfterField(p, Tail(left[p])) ELSE To(p, "alter") /\ UNCHANGED <<left, todo>>
         /\ Notes(p, there # has)
  /\ UNCHANGED <<dialect, schema, model, making, cur, err, nerr, starts>>

AddColumn(p) ==
  /\ pc[p] = "alter"
  /\ UNCHANGED <<tables, indexes>>
  /\ LET new == <<Table(p), Field(p).name>> IN
       Exec(p, err[p], new \notin columns,
            columns' = columns \cup {new}, columns' = columns, err)
  /\ AfterField(p, Tail(left[p]))
  /\ UNCHANGED <<dialect, model, making, cur, nerr, starts>>

\* Faulty: makes the join table without a look.
LookJoin_No(p) ==
  /\ pc[p] = "field" /\ Field(p).kind = "join"
  /\ To(p, "makeJoin")
  /\ UNCHANGED <<dialect, schema, model, making, left, todo, cur, err, nerr, starts, quiet>>

\* createJoinTable.
LookJoin(p) ==
  /\ pc[p] = "field" /\ Field(p).kind = "join"
  /\ \E there \in Answers(Field(p).name \in tables) :
       /\ To(p, IF there THEN "nested" ELSE "makeJoin")
       /\ Notes(p, there # (Field(p).name \in tables))
  /\ UNCHANGED <<dialect, schema, model, making, left, todo, cur, err, nerr, starts>>

MakeJoin(p) ==
  /\ pc[p] = "makeJoin"
  /\ UNCHANGED <<columns, indexes>>
  /\ LET t == Field(p).name IN
       Exec(p, err[p], t \notin tables,
            tables' = tables \cup {t}, tables' = tables, err)
  /\ To(p, "nested")
  /\ UNCHANGED <<dialect, model, making, left, todo, cur, nerr, starts>>

\* AutoMigrate of the handler, on a new handle whose error is read by nobody.  If
\* the look fails it goes on to create the table, which is there.
NestedLook(p) ==
  /\ pc[p] = "nested"
  /\ LET t == Field(p).name IN
       \E there \in Answers(t \in tables) :
         /\ IF there /\ Extra[t] # {}
              THEN To(p, "nestedField") /\ todo' = [todo EXCEPT ![p] = Extra[t]] /\ left' = left
              ELSE AfterField(p, Tail(left[p]))
         /\ Notes(p, there # (t \in tables))
  /\ nerr' = [nerr EXCEPT ![p] = err[p]]
  /\ UNCHANGED <<dialect, schema, model, making, cur, err, starts>>

AfterNested(p, rest) ==
  IF rest # {} THEN To(p, "nestedField") /\ todo' = [todo EXCEPT ![p] = rest] /\ left' = left
               ELSE AfterField(p, Tail(left[p]))

NestedColumn(p) ==
  /\ pc[p] = "nestedField"
  /\ \E c \in todo[p] :
       LET has == HasColumn(Field(p).name, c) IN
       \E there \in Answers(has) :
         /\ cur' = [cur EXCEPT ![p] = c]
         /\ IF there THEN AfterNested(p, todo[p] \ {c}) ELSE To(p, "nestedAlter") /\ UNCHANGED <<left, todo>>
         /\ Notes(p, there # has)
  /\ UNCHANGED <<dialect, schema, model, making, err, nerr, starts>>

NestedAdd(p) ==
  /\ pc[p] = "nestedAlter"
  /\ UNCHANGED <<tables, indexes>>
  /\ LET new == <<Field(p).name, cur[p]>> IN
       Exec(p, nerr[p], new \notin columns,
            columns' = columns \cup {new}, columns' = columns, nerr)
  /\ AfterNested(p, todo[p] \ {cur[p]})
  /\ UNCHANGED <<dialect, model, making, cur, err, starts>>

\* CREATE TABLE with all columns, then autoIndex.
CreateTable(p) ==
  /\ pc[p] = "create"
  /\ UNCHANGED indexes
  /\ LET t == Table(p)
         made == /\ tables' = tables \cup {t}
                 /\ columns' = columns \cup ({t} \X ColumnsOf(Model(p)))
     IN Exec(p, err[p], t \notin tables, made, UNCHANGED <<tables, columns>>, err)
  /\ To(p, "index")
  /\ UNCHANGED <<dialect, model, making, left, todo, cur, nerr, starts>>

\* autoIndex: one index after another, in any order (it ranges over a map).
LookIndex(p) ==
  /\ pc[p] = "index"
  /\ \E i \in todo[p] :
       LET has == <<Table(p), i>> \in indexes IN
       \E there \in Answers(has) :
         /\ cur' = [cur EXCEPT ![p] = i]
         /\ todo' = [todo EXCEPT ![p] = @ \ {i}]
         /\ To(p, IF there THEN "index" ELSE "makeIndex")
         /\ Notes(p, there # has)
  /\ UNCHANGED <<dialect, schema, model, making, left, err, nerr, starts>>

\* Faulty: the error of an index is not handed on.
MakeIndex_DropsError(p, clash) ==
  /\ pc[p] = "makeIndex"
  /\ UNCHANGED <<tables, columns>>
  /\ LET new == <<Table(p), cur[p]>> IN
       Exec(p, err[p], Table(p) \in tables /\ new \notin indexes /\ ~clash,
            indexes' = indexes \cup {new}, indexes' = indexes, nerr)
  /\ To(p, "index")
  /\ UNCHANGED <<dialect, model, making, left, todo, cur, err, starts>>

\* The rows of the table may forbid it (clash): that is a failure of its own.
MakeIndex(p, clash) ==
  /\ pc[p] = "makeIndex"
  /\ UNCHANGED <<tables, columns>>
  /\ LET new == <<Table(p), cur[p]>>
         may == Table(p) \in tables /\ new \notin indexes IN
       \/ /\ err[p] \/ ~clash
          /\ Exec(p, err[p], may, indexes' = indexes \cup {new}, indexes' = indexes, err)
       \/ /\ ~err[p] /\ clash
          /\ indexes' = indexes /\ err' = [err EXCEPT ![p] = TRUE] /\ Notes(p, TRUE)
  /\ To(p, "index")
  /\ UNCHANGED <<dialect, model, making, left, todo, cur, nerr, starts>>

\* The next model goes on with the error of this one.
NextModel(p) ==
  /\ pc[p] = "index" /\ todo[p] = {}
  /\ IF model[p] < Len(Models[p])
       THEN /\ To(p, "table") /\ model' = [model EXCEPT ![p] = @ + 1]
            /\ UNCHANGED <<making, left, todo, cur, nerr>>
       ELSE Forgets(p, "done")
  /\ UNCHANGED <<dialect, schema, err, starts, quiet>>

MigrationStep(p, clash) ==
  \/ Start(p) \/ Stop(p) \/ LookTable(p) \/ CollectColumn(p) \/ LookColumn(p) \/ AddColumn(p)
  \/ LookJoin(p) \/ MakeJoin(p) \/ NestedLook(p) \/ NestedColumn(p) \/ NestedAdd(p)
  \/ CreateTable(p) \/ LookIndex(p) \/ MakeIndex(p, clash) \/ NextModel(p)

MigrationInit ==
  /\ dialect \in Dialects
  /\ indexes = {}   \* tables and columns: as a module that uses this one has them
  /\ pc = [p \in Procs |-> "off"] /\ model = [p \in Procs |-> 1]
  /\ making = [p \in Procs |-> FALSE] /\ left = [p \in Procs |-> <<>>]
  /\ todo = [p \in Procs |-> {}] /\ cur = [p \in Procs |-> ""]
  /\ err = [p \in Procs |-> FALSE] /\ nerr = [p \in Procs |-> FALSE]
  /\ starts = 0 /\ quiet = [p \in Procs |-> TRUE]

-----------------------------------------------------------------------------
\* What the schema has of what a model needs.
Complete(m) ==
  /\ {m.table} \cup JoinsOf(m) \subseteq tables
  /\ \A c \in ColumnsOf(m) : HasColumn(m.table, c)
  /\ {m.table} \X m.indexes \subseteq indexes
Has(p) == \A m \in ModelsOf(p) : Complete(m)
HasExtras(p) == \A m \in ModelsOf(p) : \A t \in JoinsOf(m) :
  \A c \in Extra[t] : HasColumn(t, c)

\* AutoMigrate that reports no error leaves a schema the program can use, whoever
\* else migrated meanwhile: no error of any statement is lost on the way up, but
\* for those of columns of a join table's own handler (scope.go createJoinTable
\* drops the handle of the nested AutoMigrate), and but for columns SQLite takes
\* for there (dialect_sqlite3.go HasColumn).
MigratedIsComplete == \A p \in Procs : pc[p] = "done" /\ ~err[p] => Has(p)

\* Whatever earlier runs left behind, stopped or failed anywhere, a run nobody
\* disturbs finishes the work and reports no error: nothing is made twice and
\* nothing half made is taken for done (scope.go autoMigrate, createJoinTable).
RerunRepairs == \A p \in Procs : pc[p] = "done" /\ quiet[p] => ~err[p] /\ Has(p) /\ HasExtras(p)
=============================================================================
