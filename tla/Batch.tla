-------------------------------- MODULE Batch --------------------------------
(***************************************************************************)
(* Batched writes: CreateInBatches (batch_create.go), SaveInBatches        *)
(* (batch_save.go) and CreateInBatchesOnConflict (on_conflict.go), one     *)
(* call on a slice of structs, and other writers of the same table.        *)
(*                                                                         *)
(* The model of the structs has a generated key, a column with a unique    *)
(* index, a column that has a database default, and a value.  The value of *)
(* a row is the number of the element it was written for; 0 stands for     *)
(* rows of others.  A struct holds a key the database has handed out       *)
(* before, or none.                                                        *)
(***************************************************************************)
EXTENDS Integers, FiniteSets, SequencesExt, Positions

CONSTANTS
  Calls,     \* what may be called: op, option, db, size, shared, failed
  Inputs,    \* slices of elements [id, key, full]
  Old,       \* rows that are there before the call
  LastOldId, \* the last key the database has handed out before it
  MaxVars,   \* bind variables of one statement
  OtherKeys, \* keys other writers insert
  MaxOthers  \* bound: rows of other writers

Nil == [id |-> 0, key |-> 0, full |-> FALSE]  \* a nil pointer in the slice
IsNil(e) == e.key = 0
MaxOf(S) == CHOOSE n \in S : \A m \in S : m <= n

\* A key and a unique value belong to one row.
Unique(tab) == \A r, s \in tab : r.id = s.id \/ r.key = s.key => r = s

ASSUME BatchAssumption ==
  /\ MaxVars \in Nat \ {0} /\ MaxOthers \in Nat
  /\ Inputs \subseteq Seq([id : Nat, key : Nat, full : BOOLEAN]) /\ OtherKeys \subseteq Nat
  /\ Old \subseteq [id : Nat \ {0}, key : Nat, val : {0}] /\ Unique(Old)
  /\ LastOldId \in Nat /\ \A r \in Old : r.id <= LastOldId
  /\ \A in \in Inputs : \A i \in DOMAIN in : in[i].id <= LastOldId
  /\ \A c \in Calls : /\ c.op \in {"create", "save", "saveKey", "onConflict"}
                      /\ c.option \in {"none", "update", "nothing"}
                      /\ c.db \in {"sqlite3", "mysql", "postgres", "dm"}
                      /\ c.size \in Nat \ {0}
                      /\ c.shared \in BOOLEAN /\ c.failed \in BOOLEAN

VARIABLES
  pc,       \* where the call is
  call,     \* the call; op "saveKey" is SaveInBatches with the unique column
  input,    \* the slice
  ids,      \* the keys in the structs
  tx,       \* the transaction: own ("open", ...), "shared" with the caller, "nil"
  err,      \* whether the handle of the call has an error
  start,    \* first element of the chunk
  rows,     \* elements prepared and not written yet
  group,    \* elements of the last statement
  total,    \* totalRowsAffected
  affected, \* RowsAffected of the handle returned
  table,    \* what the transaction sees
  store,    \* what is committed
  nextId,   \* the generator of keys
  lastId,   \* LastInsertId of the connection
  clashed,  \* history: a unique index refused a statement
  others    \* number of rows other writers have inserted

callVars == <<call, input>>
dbVars   == <<table, store, nextId, lastId, clashed, others>>
vars == <<pc, callVars, ids, tx, err, start, rows, group, total, affected, dbVars>>

Own == ~call.shared
Saving == call.op \in {"save", "saveKey"}
Elements == {i \in DOMAIN input : ~IsNil(input[i])}

-----------------------------------------------------------------------------
(* Columns, chunks and groups.                                             *)

\* Faulty: writes the primary key of a save by another key.
Columns_KeepsKey(e) ==
  {"key", "val"}
  \cup (IF e.full \/ call.op = "onConflict" THEN {"dflt"} ELSE {})
  \cup (IF e.id # 0 THEN {"id"} ELSE {})

\* The columns an element's row has in the INSERT: a blank primary key and a
\* blank column with a default are left to the database, and so is the primary
\* key of a save by another key.  createBatchWithOption writes defaults too.
Columns(e) ==
  {"key", "val"}
  \cup (IF e.full \/ call.op = "onConflict" THEN {"dflt"} ELSE {})
  \cup (IF e.id # 0 /\ call.op # "saveKey" THEN {"id"} ELSE {})

\* Elements of the chunk that begins at start.
Chunk == {i \in Elements : i \in start .. start + call.size - 1}

\* maxCreateBatchRows, and BatchCreateMaxRows of DM; one row is always tried.
MaxRows(e) ==
  IF call.db = "dm" \/ Cardinality(Columns(e)) > MaxVars THEN 1
  ELSE MaxVars \div Cardinality(Columns(e))

\* sameBatchColumns.
Alike(e, f) == Columns(e) = Columns(f)

\* How many of the prepared rows make the next statement.
GroupLen ==
  LET first == input[rows[1]]
      fits(n) == n <= MaxRows(first) /\ \A k \in 1 .. n : Alike(first, input[rows[k]])
  IN MaxOf({n \in 1 .. Len(rows) : fits(n)})

Statement == IF call.op = "onConflict" THEN rows ELSE SubSeq(rows, 1, GroupLen)

-----------------------------------------------------------------------------
(* The database: one statement, row by row.                                *)

\* The unique column the conflict clause names.
Target == CASE call.op = "save" -> "id"
            [] call.op = "saveKey" -> "key"
            [] OTHER -> IF call.option = "none" THEN "none" ELSE "key"

\* The row a conflict clause takes for the new one; MySQL looks at any key.
AnyKey == call.db = "mysql" /\ Target # "none"
Aimed(tab, r) ==
  {s \in tab : \/ s.id = r.id /\ (Target = "id" \/ AnyKey)
               \/ s.key = r.key /\ (Target = "key" \/ AnyKey)}
Clash(tab, r) == {s \in tab : s.id = r.id \/ s.key = r.key}

\* batchSave.statementColumns: the target, the primary key and created_at stay.
Updated(s, r) == [s EXCEPT !.val = r.val, !.key = IF Target = "id" THEN r.key ELSE @]

\* The last key the connection generated is remembered, in MySQL a statement's
\* first.
Insert(st, r) ==
  [st EXCEPT !.table = @ \cup {r}, !.new = @ + 1, !.count = @ + 1,
             !.next = IF r.id = @ THEN @ + 1 ELSE @, !.hit = @ \cup {r.id},
             !.last = IF call.db = "mysql" /\ st.new > 0 THEN @ ELSE r.id]

\* SQLite refuses when an index other than the target's is violated, the others
\* when the update violates one; PostgreSQL changes no row twice.
Update(st, s, r) ==
  LET u == Updated(s, r) IN
  IF \/ Clash(st.table \ {s}, u) # {}
     \/ call.db = "sqlite3" /\ Clash(st.table, r) # {s}
     \/ call.db = "postgres" /\ s.id \in st.hit
  THEN [st EXCEPT !.ok = FALSE]
  ELSE [st EXCEPT !.table = (@ \ {s}) \cup {u}, !.hit = @ \cup {s.id},
                  !.count = @ + (IF call.db = "mysql" THEN 2 ELSE 1)]

Put(st, i) ==
  LET e == input[i]
      r == [id |-> IF "id" \in Columns(e) THEN e.id ELSE st.next,
            key |-> e.key, val |-> i]
      aimed == Aimed(st.table, r)
  IN CASE ~st.ok                    -> st
       [] st.ok /\ aimed = {}       -> IF Clash(st.table, r) = {} THEN Insert(st, r)
                                       ELSE [st EXCEPT !.ok = FALSE]
       [] st.ok /\ aimed # {}       ->
            IF call.option = "nothing" THEN st
            ELSE Update(st, CHOOSE s \in aimed : s.id = r.id \/ \A t \in aimed : t.id # r.id, r)

\* A statement has rows, and every row has the columns of the list, which
\* createBatchWithOption takes from the chunk's first element.
IsComplete(g) ==
  LET list == IF call.op = "onConflict" THEN Columns(input[start]) ELSE Columns(input[g[1]])
  IN g # <<>> /\ \A k \in DOMAIN g : Cardinality(Columns(input[g[k]])) = Cardinality(list)

\* What the statement for the rows g does.
Exec(g) ==
  LET before == [table |-> table, next |-> nextId, last |-> lastId, new |-> 0,
                 count |-> 0, hit |-> {}, ok |-> TRUE]
      after[k \in 0 .. Len(g)] == IF k = 0 THEN before ELSE Put(after[k - 1], g[k])
  IN after[Len(g)]
Refused(g) == rows # <<>> /\ ~(IsComplete(g) /\ Exec(g).ok)

-----------------------------------------------------------------------------
(* Primary keys go into the structs.                                       *)

\* Faulty: LastInsertId is taken for the first key of a statement.
Assigned_First(g, st) ==
  IF call.op # "create" \/ st.count # Len(g) \/ input[g[1]].id # 0 \/ call.db = "postgres" THEN ids
  ELSE [i \in DOMAIN ids |->
         IF \E k \in DOMAIN g : g[k] = i /\ ids[i] = 0
         THEN st.last + (CHOOSE k \in DOMAIN g : g[k] = i) - 1 ELSE ids[i]]

\* assignBatchPrimaryKeys, assignSingleBatchPrimaryKey: LastInsertId is the
\* last key of a statement in SQLite, the first in MySQL.
Assigned(g, st) ==
  LET first == IF call.db = "sqlite3" THEN st.last - (Len(g) - 1) ELSE st.last
  IN IF \/ call.op # "create" \/ st.count # Len(g)
        \/ input[g[1]].id # 0 \/ call.db = "postgres" \/ first <= 0
     THEN ids
     ELSE [i \in DOMAIN ids |->
            IF \E k \in DOMAIN g : g[k] = i /\ ids[i] = 0
            THEN first + (CHOOSE k \in DOMAIN g : g[k] = i) - 1 ELSE ids[i]]

-----------------------------------------------------------------------------
(* createInBatches and CreateInBatchesOnConflict.                          *)

Return(e) == pc' = "returned" /\ err' = e

\* Arguments: SaveInBatches refuses gorm:insert_option, an empty slice is done.
\* CreateInBatches looks at the handle's error, the other one does not.
Start(in) ==
  /\ pc = "idle"
  /\ input' = in
  /\ ids' = [i \in DOMAIN in |-> in[i].id]
  /\ LET refused == Saving /\ call.option # "none"
         onShared == call.shared /\ ~refused /\ in # <<>>
     IN /\ tx' = IF onShared THEN "shared" ELSE "none"
        /\ pc' = CASE refused \/ in = <<>> -> "returned"
                   [] onShared -> IF call.failed /\ call.op # "onConflict" THEN "returned" ELSE "prepare"
                   [] OTHER    -> "begin"
        /\ err' = (call.failed \/ refused)
  /\ UNCHANGED <<call, start, rows, group, total, affected, dbVars>>

\* The handle of the transaction has the error of the handle it comes from.
Begin ==
  /\ pc = "begin"
  /\ tx' = "open"
  /\ pc' = IF err /\ call.op # "onConflict" THEN "returned" ELSE "prepare"
  /\ UNCHANGED <<callVars, ids, err, start, rows, group, total, affected, dbVars>>

BeginFails ==
  /\ pc = "begin"
  /\ tx' = "nil" /\ err' = TRUE
  /\ pc' = IF call.op # "onConflict" THEN "returned" ELSE "prepare"
  /\ UNCHANGED <<callVars, ids, start, rows, group, total, affected, dbVars>>

\* The transaction that is the call's own is rolled back.
Undo ==
  IF tx = "open" THEN tx' = "rolledback" /\ table' = store
  ELSE UNCHANGED <<tx, table>>

\* Before hooks of the whole chunk run, and rows are made, before a statement.
Prepare ==
  /\ pc = "prepare"
  /\ err => Chunk = {}
  /\ rows' = InOrder(Chunk)
  /\ pc' = "execute"
  /\ UNCHANGED <<callVars, ids, tx, err, start, group, total, affected, dbVars>>

\* A hook or a field fails, or the handle had an error.
PrepareFails ==
  /\ pc = "prepare" /\ Chunk # {}
  /\ Return(TRUE) /\ Undo
  /\ UNCHANGED <<callVars, ids, start, rows, group, total, affected,
                 store, nextId, lastId, clashed, others>>

\* One statement: a group, or the whole chunk with a caller's conflict clause.
Execute ==
  /\ pc = "execute" /\ (rows # <<>> \/ call.op = "onConflict")
  /\ tx \in {"open", "shared"}
  /\ IsComplete(Statement)
  /\ LET st == Exec(Statement) IN
       /\ st.ok
       /\ table' = st.table /\ nextId' = st.next /\ lastId' = st.last
       /\ ids' = Assigned(Statement, st)
       /\ total' = total + st.count
  /\ group' = Statement
  /\ rows' = SubSeq(rows, Len(Statement) + 1, Len(rows))
  /\ pc' = "after"
  /\ UNCHANGED <<callVars, tx, err, start, affected, store, clashed, others>>

\* Faulty: an error does not end the transaction.
ExecuteFails_NoRollback ==
  /\ pc = "execute" /\ (rows # <<>> \/ call.op = "onConflict")
  /\ tx \in {"open", "shared"}
  /\ clashed' = (clashed \/ Refused(Statement))
  /\ Return(TRUE)
  /\ UNCHANGED <<callVars, ids, tx, start, rows, group, total, affected,
                 table, store, nextId, lastId, others>>

\* The statement is refused, or the database fails.
ExecuteFails ==
  /\ pc = "execute" /\ (rows # <<>> \/ call.op = "onConflict")
  /\ tx \in {"open", "shared"}
  /\ clashed' = (clashed \/ Refused(Statement))
  /\ Return(TRUE) /\ Undo
  /\ UNCHANGED <<callVars, ids, start, rows, group, total, affected,
                 store, nextId, lastId, others>>

\* After hooks of the statement's rows.
After ==
  /\ pc = "after"
  /\ pc' = "execute"
  /\ UNCHANGED <<callVars, ids, tx, err, start, rows, group, total, affected, dbVars>>

AfterFails ==
  /\ pc = "after"
  /\ Return(TRUE) /\ Undo
  /\ UNCHANGED <<callVars, ids, start, rows, group, total, affected,
                 store, nextId, lastId, clashed, others>>

\* A hook panics, or createBatchWithOption uses a transaction that did not
\* begin: recover, roll back, panic again.
Panic ==
  /\ \/ pc = "prepare" /\ ~err /\ Chunk # {}
     \/ pc = "after"
     \/ pc = "execute" /\ call.op = "onConflict" /\ tx = "nil"
  /\ pc' = "panicked"
  /\ Undo
  /\ UNCHANGED <<callVars, ids, err, start, rows, group, total, affected,
                 store, nextId, lastId, clashed, others>>

\* Faulty: steps over one element.
NextChunk_OffByOne ==
  /\ pc = "execute" /\ rows = <<>> /\ (call.op = "onConflict" => group # <<>>)
  /\ start' = start + call.size + 1
  /\ pc' = IF start' <= Len(input) THEN "prepare"
           ELSE IF Own THEN "commit" ELSE "returned"
  /\ affected' = IF pc' = "returned" THEN total ELSE affected
  /\ group' = <<>>
  /\ UNCHANGED <<callVars, ids, tx, err, rows, total, dbVars>>

\* Faulty: commits each chunk.
NextChunk_CommitsChunk ==
  /\ pc = "execute" /\ rows = <<>> /\ (call.op = "onConflict" => group # <<>>)
  /\ start' = start + call.size
  /\ pc' = IF start' <= Len(input) THEN "prepare"
           ELSE IF Own THEN "commit" ELSE "returned"
  /\ affected' = IF pc' = "returned" THEN total ELSE affected
  /\ group' = <<>>
  /\ store' = table
  /\ UNCHANGED <<callVars, ids, tx, err, rows, total,
                 table, nextId, lastId, clashed, others>>

\* The chunk is written; after the last one the call is, or commits.
NextChunk ==
  /\ pc = "execute" /\ rows = <<>> /\ (call.op = "onConflict" => group # <<>>)
  /\ start' = start + call.size
  /\ pc' = IF start' <= Len(input) THEN "prepare"
           ELSE IF Own THEN "commit" ELSE "returned"
  /\ affected' = IF pc' = "returned" THEN total ELSE affected
  /\ group' = <<>>
  /\ UNCHANGED <<callVars, ids, tx, err, rows, total, dbVars>>

Commit ==
  /\ pc = "commit"
  /\ tx' = "committed" /\ store' = table
  /\ affected' = total
  /\ Return(err)
  /\ UNCHANGED <<callVars, ids, start, rows, group, total,
                 table, nextId, lastId, clashed, others>>

\* Faulty: the answer of the commit is dropped.
CommitFails_NoError ==
  /\ pc = "commit"
  /\ tx' = "rolledback" /\ table' = store
  /\ affected' = total
  /\ Return(err)
  /\ UNCHANGED <<callVars, ids, start, rows, group, total,
                 store, nextId, lastId, clashed, others>>

\* The rows affected are set all the same.
CommitFails ==
  /\ pc = "commit"
  /\ tx' = "rolledback" /\ table' = store
  /\ affected' = total
  /\ Return(TRUE)
  /\ UNCHANGED <<callVars, ids, start, rows, group, total,
                 store, nextId, lastId, clashed, others>>

-----------------------------------------------------------------------------
(* Others: the caller of a call in its transaction, other writers.         *)

CallerEnds ==
  /\ pc \in {"returned", "panicked"} /\ tx = "shared"
  /\ \/ tx' = "callerCommitted" /\ store' = table /\ UNCHANGED table
     \/ tx' = "callerRolledback" /\ table' = store /\ UNCHANGED store
  /\ UNCHANGED <<pc, callVars, ids, err, start, rows, group, total, affected,
                 nextId, lastId, clashed, others>>

\* SQLite has one writer at a time; elsewhere neither the key of a row that is
\* not committed can be taken nor one whose change is not committed.
OtherInserts(k) ==
  /\ pc \in {"begin", "prepare", "execute", "after", "commit"}
  /\ others < MaxOthers
  /\ call.db = "sqlite3" => table = store
  /\ \A r \in table \cup store : r.key # k
  /\ LET r == [id |-> nextId, key |-> k, val |-> 0] IN
       table' = table \cup {r} /\ store' = store \cup {r}
  /\ nextId' = nextId + 1
  /\ others' = others + 1
  /\ UNCHANGED <<pc, callVars, ids, tx, err, start, rows, group, total, affected,
                 lastId, clashed>>

-----------------------------------------------------------------------------
\* The connection has inserted a row before.
Init ==
  /\ pc = "idle" /\ tx = "none" /\ err = FALSE
  /\ call \in Calls /\ input = <<>> /\ ids = <<>>
  /\ start = 1 /\ rows = <<>> /\ group = <<>> /\ total = 0 /\ affected = 0
  /\ table = Old /\ store = Old
  /\ nextId = LastOldId + 1 /\ lastId = LastOldId
  /\ clashed = FALSE /\ others = 0

Next ==
  \/ \E in \in Inputs : Start(in)
  \/ Begin \/ BeginFails \/ Prepare \/ PrepareFails
  \/ Execute \/ ExecuteFails \/ After \/ AfterFails \/ Panic
  \/ NextChunk \/ Commit \/ CommitFails \/ CallerEnds
  \/ \E k \in OtherKeys : OtherInserts(k)

Spec == Init /\ [][Next]_vars

-----------------------------------------------------------------------------
(* Properties.                                                             *)

Ended == {"returned", "panicked"}

\* No row of a call is committed before all are, whatever fails or panics
\* between two statements of one or of several chunks.
AllOrNothing ==
  tx \notin {"committed", "callerCommitted"} => \A r \in store : r.val = 0

\* batch_save.go:34: an error rolls back a transaction the call owns, and it is
\* over when the call is.
OwnTxEnds == pc \in Ended => tx # "open"

\* A call that owns its transaction reports an error exactly if nothing of it
\* was committed.
AnswerTrue ==
  pc = "returned" /\ Own /\ input # <<>> => (err <=> tx # "committed")

Written(i) == \E r \in table : r.val = i /\ r.key = input[i].key
SameRow(i, j) ==
  \/ Target = "key" /\ input[i].key = input[j].key
  \/ Target = "id" /\ input[i].id = input[j].id /\ input[i].id # 0

\* Without an error every element that is not nil is in the table, in a row of
\* its own: no chunk or group leaves one out or writes one twice.  An upsert of
\* the same row twice leaves the later one.  (MySQL updates for any unique key,
\* and a row may then be taken over by another element.)
EveryElementWritten ==
  pc = "returned" /\ ~err /\ tx \in {"committed", "shared"} /\ call.option # "nothing"
    /\ (call.db = "mysql" => Target = "none") =>
    /\ \A i \in Elements : \E j \in Elements : (i = j \/ (j > i /\ SameRow(i, j))) /\ Written(j)
    /\ Target = "none" => affected = Cardinality(Elements)

\* The key a struct is given is the key of its own row, also when other writers
\* take keys in between (batch_create.go:440 leaves alone what it cannot know).
KeysMatch ==
  pc = "returned" /\ ~err /\ tx \in {"committed", "shared"} =>
    \A i \in DOMAIN ids : ids[i] # input[i].id =>
      \E r \in table : r.id = ids[i] /\ r.val = i

\* batch_save.go:27: a save by another key than the primary one is never
\* refused for a stale key in a struct; PostgreSQL refuses a repeated key.
StaleKeysHarmless ==
  call.op = "saveKey" /\ clashed =>
    call.db = "postgres" /\ \E i, j \in Elements : i # j /\ SameRow(i, j)
=============================================================================
