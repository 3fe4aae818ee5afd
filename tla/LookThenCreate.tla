---------------------------- MODULE LookThenCreate ----------------------------
(***************************************************************************)
(* Save, Create, Delete, FirstOrCreate and FirstOrInit (main.go) by        *)
(* programs that first migrate the table they write to.                    *)
(*                                                                         *)
(* Save and FirstOrCreate are several operations, each a transaction of its*)
(* own (module OpTransaction) and one step here; other programs' come in   *)
(* between.  A row has a key, a unique column if the schema has the index, *)
(* and a value, the number of the call that gave it.  A program runs its   *)
(* calls when its AutoMigrate is over, with or without an error.           *)
(***************************************************************************)
EXTENDS Migration

CONSTANTS
  RowTable, UniqueIndex,
  Names,     \* values of the unique column
  Given,     \* keys programs choose by themselves
  OldRows,   \* what a table from before may hold; none is no table
  OldColumns,
  MaxCalls   \* bound: calls

ASSUME RowAssumption ==
  /\ Given = 1 .. Cardinality(Given) /\ Cardinality(Given) \in Nat /\ MaxCalls \in Nat
  /\ \A R \in OldRows : R \subseteq [id : Given, name : Names, val : Nat, live : BOOLEAN]

VARIABLES
  soft,    \* the model has DeletedAt
  rows,    \* [id, name, val, live]
  nextId,  \* the generator of keys
  at,      \* where the program's call is
  call,    \* the call
  out,     \* the struct passed
  told,    \* the call's error
  calls,   \* calls made
  alone,   \* history: nobody else wrote since the call began
  got,     \* history: rows FirstOrCreate returned, by name
  moved    \* history: names whose row was deleted or renamed

rowVars == <<soft, rows, nextId, at, call, out, told, calls, alone, got, moved>>
vars == <<migrationVars, rowVars>>

-----------------------------------------------------------------------------
Live(S) == {r \in S : r.live}
ById(S, i) == {r \in S : r.id = i}
ByName(S, n) == {r \in S : r.name = n}
First(S) == CHOOSE r \in S : \A s \in S : r.id <= s.id
IsUnique == <<RowTable, UniqueIndex>> \in indexes

\* Two rows with one name, deleted ones included.
Duplicates == \E r, s \in rows : r # s /\ r.name = s.name
Clashes(r, others) ==
  \/ ById(others, r.id) # {}
  \/ IsUnique /\ ByName(others, r.name) # {}

\* The model of the program has the unique index.
Wants(p) == \E m \in ModelsOf(p) : m.table = RowTable /\ UniqueIndex \in m.indexes

Alone(p) == alone' = [q \in Procs |-> alone[q] /\ (q = p \/ rows' = rows)]
Fails(p) ==
  /\ at' = [at EXCEPT ![p] = "returned"] /\ told' = [told EXCEPT ![p] = TRUE]
  /\ UNCHANGED <<rows, nextId, out, alone, got, moved>>
GoesOn(p, where) == at' = [at EXCEPT ![p] = where]

\* FirstOrCreate gives row r.
Gets(p, r) ==
  got' = IF call[p].op = "first"
           THEN got \cup {[name |-> r.name, id |-> r.id, safe |-> ~err[p] /\ Wants(p)]}
           ELSE got

-----------------------------------------------------------------------------
\* A call: guarded is a Where on the handle that holds for rows of value 0 only.
A(op, i, n, guarded, assign) ==
  [op |-> op, id |-> i, name |-> n, guarded |-> guarded, assign |-> assign]
Ops(ops, ids, names, guards, assigns) ==
  [op : ops, id : ids, name : names, guarded : guards, assign : assigns]
Calls ==
  Ops({"save"}, Given, Names, BOOLEAN, {FALSE})
  \cup Ops({"save"}, {0}, Names, {FALSE}, {FALSE})
  \cup Ops({"first"}, {0}, Names, {FALSE}, BOOLEAN)
  \cup Ops({"init"}, {0}, Names, {FALSE}, {FALSE})
  \cup Ops({"delete"}, Given, {""}, {FALSE}, {FALSE})

Call(p, c) ==
  /\ pc[p] = "done" /\ at[p] \in {"idle", "returned"} /\ calls < MaxCalls
  /\ calls' = calls + 1
  /\ call' = [call EXCEPT ![p] = c]
  /\ out' = [out EXCEPT ![p] = [id |-> c.id, name |-> c.name, val |-> calls + 1, live |-> TRUE]]
  /\ told' = [told EXCEPT ![p] = FALSE]
  /\ alone' = [alone EXCEPT ![p] = TRUE]
  /\ GoesOn(p, CASE c.op = "save" -> IF c.id = 0 THEN "create" ELSE "update"
                 [] c.op \in {"first", "init"} -> "look"
                 [] c.op = "delete" -> "delete")
  /\ UNCHANGED <<migrationVars, soft, rows, nextId, got, moved>>

\* Save of a struct read before and not changed since.
SaveUnchanged(p, r) ==
  /\ pc[p] = "done" /\ at[p] \in {"idle", "returned"} /\ calls < MaxCalls
  /\ calls' = calls + 1
  /\ call' = [call EXCEPT ![p] =
                A("save", r.id, r.name, FALSE, FALSE)]
  /\ out' = [out EXCEPT ![p] = r]
  /\ told' = [told EXCEPT ![p] = FALSE]
  /\ alone' = [alone EXCEPT ![p] = TRUE]
  /\ GoesOn(p, "update")
  /\ UNCHANGED <<migrationVars, soft, rows, nextId, got, moved>>

\* Any statement may fail; on a table that is not there all do.
StatementFails(p) ==
  /\ at[p] \in {"update", "look", "create", "assign", "delete"}
  /\ Fails(p)
  /\ UNCHANGED <<migrationVars, soft, call, calls>>
Ready == RowTable \in tables

\* RowsAffected: MySQL counts rows that changed, the others rows that matched.
Affected(r, m) == Cardinality(IF dialect = "mysql" THEN m \ {r} ELSE m)

\* The update of Save, by key; it skips deleted rows.
Update(p) ==
  /\ at[p] = "update" /\ Ready
  /\ LET r == out[p]
         m == {s \in Live(ById(rows, r.id)) : call[p].guarded => s.val = 0}
     IN IF m # {} /\ Clashes(r, rows \ m) THEN Fails(p)
        ELSE /\ rows' = IF m = {} THEN rows ELSE (rows \ m) \cup {r}
             /\ moved' = moved \cup {s.name : s \in {t \in m : t.name # r.name}}
             /\ GoesOn(p, IF Affected(r, m) = 0 THEN "look" ELSE "returned")
             /\ Alone(p)
             /\ UNCHANGED <<nextId, out, told, got>>
  /\ UNCHANGED <<migrationVars, soft, call, calls>>

\* Faulty: looks at deleted rows as well.
Look_Unscoped(p) ==
  /\ at[p] = "look" /\ Ready
  /\ LET found == IF out[p].id # 0 THEN ById(rows, out[p].id) ELSE ByName(rows, out[p].name) IN
       IF found # {}
         THEN /\ out' = [out EXCEPT ![p] = First(found)]
              /\ GoesOn(p, IF call[p].assign THEN "assign" ELSE "returned")
              /\ IF call[p].assign THEN UNCHANGED got ELSE Gets(p, First(found))
         ELSE /\ GoesOn(p, IF call[p].op = "init" THEN "returned" ELSE "create")
              /\ UNCHANGED <<out, got>>
  /\ UNCHANGED <<migrationVars, soft, rows, nextId, call, told, calls, alone, moved>>

\* First: by the key of the struct if it has one (Save), or by name.  What is found
\* goes into the struct, over what it held.
Look(p) ==
  /\ at[p] = "look" /\ Ready
  /\ LET found == Live(IF out[p].id # 0 THEN ById(rows, out[p].id) ELSE ByName(rows, out[p].name)) IN
       IF found # {}
         THEN /\ out' = [out EXCEPT ![p] = First(found)]
              /\ GoesOn(p, IF call[p].assign THEN "assign" ELSE "returned")
              /\ IF call[p].assign THEN UNCHANGED got ELSE Gets(p, First(found))
         ELSE /\ GoesOn(p, IF call[p].op = "init" THEN "returned" ELSE "create")
              /\ UNCHANGED <<out, got>>
  /\ UNCHANGED <<migrationVars, soft, rows, nextId, call, told, calls, alone, moved>>

\* Assign: an update of the row found, whether it is still there or not.
Assign(p) ==
  /\ at[p] = "assign" /\ Ready
  /\ LET r == [out[p] EXCEPT !.val = calls]
         m == Live(ById(rows, r.id)) IN
       /\ rows' = (rows \ m) \cup {[s EXCEPT !.val = r.val] : s \in m}
       /\ out' = [out EXCEPT ![p] = r]
       /\ Gets(p, r)
  /\ GoesOn(p, "returned")
  /\ Alone(p)
  /\ UNCHANGED <<migrationVars, soft, nextId, call, told, calls, moved>>

\* The create, of Save or FirstOrCreate: deleted rows still have their keys and names.
Create(p) ==
  /\ at[p] = "create" /\ Ready
  /\ LET r == [out[p] EXCEPT !.id = IF @ = 0 THEN nextId ELSE @] IN
       IF Clashes(r, rows) THEN Fails(p)
       ELSE /\ rows' = rows \cup {r}
            /\ nextId' = IF out[p].id = 0 THEN nextId + 1 ELSE nextId
            /\ out' = [out EXCEPT ![p] = r]
            /\ Gets(p, r)
            /\ GoesOn(p, "returned")
            /\ Alone(p)
            /\ UNCHANGED <<told, moved>>
  /\ UNCHANGED <<migrationVars, soft, call, calls>>

\* Delete by key: soft or not; no error if there is no row.
Delete(p) ==
  /\ at[p] = "delete" /\ Ready
  /\ LET m == Live(ById(rows, call[p].id)) IN
       /\ rows' = (rows \ m) \cup (IF soft THEN {[s EXCEPT !.live = FALSE] : s \in m} ELSE {})
       /\ moved' = moved \cup {s.name : s \in m}
  /\ GoesOn(p, "returned")
  /\ Alone(p)
  /\ UNCHANGED <<migrationVars, soft, nextId, call, out, told, calls, got>>

RowStep(p) ==
  \/ \E c \in Calls : Call(p, c)
  \/ \E r \in Live(rows) : SaveUnchanged(p, r)
  \/ StatementFails(p) \/ Update(p) \/ Look(p) \/ Assign(p) \/ Create(p) \/ Delete(p)

\* A program that is stopped in AutoMigrate has no call under way.
Migrates(p) ==
  /\ at[p] = "idle"
  /\ MigrationStep(p, cur[p] = UniqueIndex /\ Duplicates)
  /\ UNCHANGED rowVars

Init ==
  /\ MigrationInit
  /\ soft \in BOOLEAN
  /\ rows \in OldRows /\ (soft \/ Live(rows) = rows)
  /\ nextId = Cardinality(Given) + 1
  /\ at = [p \in Procs |-> "idle"]
  /\ call = [p \in Procs |-> A("", 0, "", FALSE, FALSE)]
  /\ out = [p \in Procs |-> [id |-> 0, name |-> "", val |-> 0, live |-> TRUE]]
  /\ told = [p \in Procs |-> FALSE] /\ calls = 0
  /\ alone = [p \in Procs |-> TRUE] /\ got = {} /\ moved = {}
  /\ tables = IF rows = {} THEN {} ELSE {RowTable}
  /\ columns = tables \X OldColumns
Next == \E p \in Procs : Migrates(p) \/ RowStep(p)
Spec == Init /\ [][Next]_vars

-----------------------------------------------------------------------------
Returned(p) == at[p] = "returned"
Writes(c) == c.op \in {"save", "first"}

\* A Save or FirstOrCreate that reports no error, on a handle with no conditions
\* and with no other writer between its operations, has its row in the table as
\* the struct has it: also when MySQL counts no row for an update that changes
\* nothing, when the row was deleted before, or when there was none (main.go Save,
\* FirstOrCreate).
CallLands == \A p \in Procs :
  Returned(p) /\ Writes(call[p]) /\ ~call[p].guarded /\ ~told[p] /\ alone[p] =>
    out[p] \in Live(rows) /\ out[p].name = call[p].name

\* Programs whose AutoMigrate reported no error agree: FirstOrCreate gives one row
\* for one name, whoever created it and in whatever order they looked and created,
\* unless that row was deleted or renamed (scope.go autoIndex, main.go FirstOrCreate).
AgreeOnRow == \A g, h \in got :
  g.safe /\ h.safe /\ g.name = h.name /\ g.name \notin moved => g.id = h.id
=============================================================================
