# TLA+ models of gorm

Specifications of the stateful parts of this repository (a fork of gorm v1),
the TLC configurations that check them and TLAPS proofs about them.  Paths are
relative to the repository root (`src/`).

## The system and its parts

| part | source | state it keeps | operations | what makes it correct |
|---|---|---|---|---|
| DB handle | `main.go`, `search.go` | `db` (a `sql.DB` or `sql.Tx`), `values`, `Error`, search conditions, shared `parent` | clone, Set, InstantSet, Begin, Commit, Rollback, Transaction, Save, FirstOrCreate | settings of a derived handle stay its own; a transaction is ended by whoever began it |
| operation lifecycle | `scope.go`, `callback_create/update/delete/save.go` | `Scope`: its handle, `skipLeft`, `gorm:started_transaction` | `callCallbacks` runs a chain: begin, hooks, associations, statement, associations, hooks, commit or rollback | rows of one operation show together or not at all, the answer is true, connections return |
| callback registry | `callback.go` | processors and five sorted chains, shared by handles | Register, Before, After, Replace, Remove, Get | every callback once, where it was asked for; registrations are not lost |
| batches | `batch_create.go`, `batch_save.go`, `batch_dialect.go`, `on_conflict.go` | a transaction, own or shared; totals | CreateInBatches, SaveInBatches, CreateInBatchesOnConflict | all rows once, in statements of bounded size, atomically; keys go to their rows |
| model structs | `model_struct.go` | process-wide cache | GetModelStruct | a published model is complete and does not change |
| association mode | `association.go`, `join_table_handler.go` | `Association.Error`, links in the database | Append, Replace, Delete, Clear | links after the call are those asked for, or the error says so |
| queries, preload | `callback_query*.go`, `callback_row_query.go` | none between calls | Find, First, Rows, Preload | what is read goes to its owner, once, also when rows change between the statements |
| migration | `scope.go`, `main.go` | the schema | AutoMigrate and others | no error means a complete schema; a run that was stopped can be repeated |
| dialects, naming, errors, logger | `dialect*.go`, `naming.go`, `errors.go`, `logger.go` | a name cache behind a lock | text of SQL and of names | not modelled |
| DM adapter | `dialects/dameng/open.go`, `cancel.go` | the gate, the dial names, sockets and their watchers | Connect, calls, Close, cancellation | cancellation always gets through, and only to its own socket |
| DM server groups, read-write separation | `dm/x.go`, `y.go`, `z.go`, `zx.go`, `zf.go`, `zg.go`, `m.go`, `n.go` | order of endpoints and what they said; two sessions and flags per connection | Connect, calls, transactions, reconnect, Close | the preferred server is found, nothing runs twice, reads see writes, Commit is true, sessions are closed |
| DM protocol | the rest of `dm/` | third party | | not modelled |

Every write goes through the operation lifecycle; nested association saves run
the same chains on a handle cloned from the scope's (`Scope.NewDB`), so they see
its transaction and add their error to it.  `DB.Transaction` and batches wrap
operations in a transaction of their own.  `database/sql` owns the pool: it
hands connections to `Begin` and, with the DM adapter, calls
`privateConnector.Connect` when it needs a new one.

Hard to test are: a failure at each point of a nested operation, panics at any
depth, a commit that fails, a pool at its limit, a cancellation that meets a
dial or the end of a call, names that are used again, two goroutines that
build one model at once, two calls that change one association, two programs
that look for a row or a table and then create it, rows that change between the
statements of a preload, slices that two handles share, servers that fail or
swap roles in a transaction.  `PROJECT.json` lists these hazards at their
lines, with the properties that cover them.

## Modules

| module | models | runs |
|---|---|---|
| `OpTransaction` | write operations, nested saves, caller transactions, panics, the pool | `op_core`, `op_pool` |
| `AtomicStore` | what write operations promise, with no callbacks or transactions | a property of `op_core` |
| `OpTransaction_proofs` | proofs about `OpTransaction`, and that it implements `AtomicStore` | |
| `DamengConnection` | gate, dial names, sockets, watchers, calls of the DM adapter | `dm` |
| `DamengConnection_proofs` | proofs about `DamengConnection` | |
| `CallbackRegistry` | registration, sorting, clones and shared arrays of callbacks | through the one below |
| `MC_CallbackRegistry` | the requests of a small instance | `cb_order` |
| `Batch` | CreateInBatches, SaveInBatches, CreateInBatchesOnConflict and other writers of the table | through the one below |
| `MC_Batch` | the calls and slices of a small instance | `batch` |
| `AssociationMode` | Append, Replace, Clear and Delete of associations, join tables | through the one below |
| `MC_AssociationMode` | the rows, links and values of a small instance | `assoc`, `assoc_delete` |
| `AssociationMode_proofs` | proofs about `AssociationMode` | |
| `Migration` | AutoMigrate by several programs | through the one below |
| `LookThenCreate` | `Migration` composed with Save, FirstOrCreate, FirstOrInit and Delete on the migrated table | `look`, with `MC_LookThenCreate` |
| `LookThenCreate_proofs` | proofs about `Migration` and `LookThenCreate` | |
| `ModelCache` | first uses of models by several goroutines | `models`, with `MC_ModelCache` |
| `ModelCache_proofs` | proofs about `ModelCache` | |
| `HandleChains` | what handles promise: a handle is the chain of calls that made it | |
| `HandleValues` | handles in memory, with the slices and maps they share; compared with `HandleChains` step by step | `handles`, with `MC_HandleValues` |
| `HandleValues_proofs` | proofs about `HandleValues`, and that it implements `HandleChains` | |
| `PreloadQuery` | a query with nested preloads, and other writers | `preload`, with `MC_PreloadQuery` |
| `Positions` | a loop over a slice that picks some of its places, used by `Batch`, `PreloadQuery` and `CallbackRegistry` | |
| `SliceLoops_proofs` | proofs about `Batch`, `PreloadQuery` and `CallbackRegistry` | |
| `DmGroup` | attempts of the DM driver over the endpoints of a group | through the one below |
| `DmReadWrite` | `DmGroup` composed with the connections: a session on the primary and one on a standby, transactions, reconnects | `dm_rw`, with `MC_DmReadWrite` |
| `DmReadWrite_proofs` | proofs about `DmGroup` and `DmReadWrite` | |

Operators marked "Faulty" are changed forms of the definition that follows
them, used to see that each property can fail; no specification uses them.

### OpTransaction

Clients are goroutines that use one shared handle over a pool of `MaxOpen`
connections.  A client's work is cut into *units*: an operation on the shared
handle, or a transaction of its own (`mode` "manual" for Begin/Commit/Rollback,
"block" for `DB.Transaction`) with operations in it.  An operation is a *frame*
on the client's stack: one run of `callCallbacks`, with the next callback
(`pc`), whether its scope has an error (`err`), whether its handle is a
transaction (`onTx`) and whether it began it (`own`, the code's
`gorm:started_transaction`).  One callback is one action; `SaveAssociation`
pushes a frame that inherits error and transaction, as `NewDB` does, and
`ReturnNested` adds its error to the one below.  `tx` is the `sql.Tx` of the
unit, "nil" after `BeginTx` failed (the handle then holds a nil `*sql.Tx`).
`log` has every row a statement wrote, `store` the committed ones; a row is
known by client, unit and frame.  `Save` ends in `SaveFallback...` when its
update touched no row: inside a transaction it goes on there, on the shared
handle it starts a second unit, because the update's transaction is committed
by then.

Not in the model: SQL, row contents, `Rows` held open by a caller, the
callbacks that write no row of their own (`force_reload_after_create`,
`update_time_stamp`), callers that end a transaction from inside a hook or a
block.  A commit that fails has not been applied.

| run | instance | shows |
|---|---|---|
| `op_core` | 1 client, 2 units, 3 frames deep, 3 frames, pool of 1, ordinary user code | `AllOrNothing`, `WritesInTx`, `ErrorsReachCaller`, `StarterEnds`, and that every behaviour implements `AtomicStore` (which has it that an answer without an error means published rows, and that only the outermost unit publishes) |
| `op_pool` | 2 clients, pool of 1, update and delete without associations, SkipLeft and AddError allowed | `NoLeak`: a connection is lost by a skip only; `EveryUnitEnds`: nobody waits for a connection for ever unless one was |

Three things follow from the code that `op_pool` takes as they are.  A hook that
calls SkipLeft (scope.go:103) jumps over commit_or_rollback too: its operation
returns with the transaction open, whether it has an error or not, although
callback.go:55 says that an error set by a callback rolls back; `NoLeak` and
`EveryUnitEnds` except units that skipped, and no other.  And `DB.Transaction` on a handle that
is a transaction only calls its function on it (main.go:539): the inner call
begins and ends nothing and has no step in the model, so the rows of an inner
function that returns an error stay in the outer transaction, and are committed
if the outer function returns nil.  And with an error on the transaction's
handle from before (AddError on it, say), `DB.Transaction` commits, takes that
error for one of the commit (main.go:553) and returns it, although main.go:545
says that an error rolls back: the rows are there all the same.

Two units are needed because what is left of one (an open transaction, a
handle) can disturb the next; depth two has a scope that begins and one that
joins, and three frames let an association be saved before and after the
statement, or one inside another.  Clients meet only at the pool, so the pool run is where two are
needed and the others use one; `MaxOpen = 1` is the tightest pool.

The code keeps no record of what failed, the error of a nested save is only
handed down handle by handle.  `ErrorsReachCaller` therefore speaks of steps: an
operation with an error on its stack still has one after each of them, or is
answered "fail" with nothing published.  Depth three has a frame that neither
begins nor fails and must pass an error on.

Fairness: weak fairness of an operation's callbacks (its goroutine runs and the
database answers) and of the end of a caller's transaction (its function
returns).  `FreeConn` is false while others hold the pool, so weak fairness is
enough only because every holder ends, which is what the property says.
`database/sql` does serve waiting requests in order; with one unit per client
no request can be overtaken for ever.

### DamengConnection

A connection is one call of `privateConnector.Connect` and its connection until
it is closed; `pc` is where its goroutine is.  The gate, the dial names
(`issued`, `free`), the upstream registry (`registry`, whose dial function a
name reaches) are process-wide; `invalid`, `cur` (connectionSocket.conn), and
`live` (the sockets that are open) belong to a connection.  A release is two
steps, `Unregister` (the name refuses to dial) and `FreeName`; `abort` by a
watcher is two as well, the flag and then the socket.  A context has a watcher
(`context.AfterFunc`): armed by `watch`, firing, done; `end` stops it or waits.
The driver and the peer are external: they may dial more than once, fail, close
the socket or stay silent for ever.

| run | instance | shows |
|---|---|---|
| `dm` | 2 connections, 3 names, 2 dials, 1 call | `NoSocketLeft` (also: one socket at most), `OwnDial`, `NamesBounded`, `IdleStaysValid`, `CanceledReturns` (of Connect and of calls) |

Two dials let one socket replace another.  Two connections, each at any point of
its life, let a name be given back by one and used again by the other, and hold
each other up at the gate; a third name would show a name that was lost.  The
late cancellation of Connect's context meets the call that follows it.

Fairness: goroutines and watchers run; `DialContext` returns when its context
is canceled; the driver returns when its socket is closed.  Nothing is assumed
of the peer or of the driver while the socket is open.

The model also shows something no document speaks of: a second dial in one
handshake closes the first socket, and `trackedSocket.Close` (cancel.go:127)
marks the state that both share as invalid.  The handshake may then succeed on
the second socket, but the connection it returns refuses every call: an
endpoint group never fails over to a usable connection.

Not in the model: the probe connector and the schema query of `OpenDBContext`,
the rewriting of the DSN, custom drivers (`nativeDriver.matches` false).

### CallbackRegistry

Processors are heap objects: sorting sets `before` of the processor a callback
is to run after, and containers cloned from one another share the objects.
They also share the array of their `processors` slices, so an `append` writes
into a free slot that another container has too; a container is an array, a
length and a chain.  `DB.Callback` clones on every use, so a user's registration
goes to a container of its own.  Sorting is translated as it is: `PlaceOne` is
the body of the recursive closure of `sortProcessors`, with the list so far and
the `before` fields as its state, `Place` lets it call itself, and `Sorted` goes
through the processors.  The recursion is a function of its depth, and `Depth` is
more than it can reach: a call for a wish for a place before has appended a name
first, and between two such calls are calls for smaller and smaller names.
The five kinds are alike and one is modelled; `gorm:row_query`'s default place
is not, nor `Get`, nor registration by two goroutines at once.

A container is `Simple` when nobody asks for two places, nobody registers a name
twice (which logs a warning), only the first request for a name has a wish, and a
callback named before it is registered has no wish of its own.  Only for these is
the order promised.  Where the last condition fails the code can miss a wish, and
`callback_system_test.go:53` is written around it: a callback asked to run before
one not yet registered is appended, and then that one takes a place further up.  A callback with Before and After of two registered ones is placed
twice (`PlaceBefore`, then `PlaceAfter` without a look at the list) and runs
twice, against what `callback_system_test.go:69` expects of the one case it
tries; such containers are not simple.  Nor are those with a replacement that has
a wish: it is the first request for a name that says where it is put, unless
another callback's wish names it before that, and then it is the last.

| run | instance | shows |
|---|---|---|
| `cb_order` | 2 package callbacks, 4 requests with a wish on one side, of 5 names, 1 clone, past the capacity of the shared array | `SimplePlaced`, `PackageOrder` |

What is asked is asked through one handle.  With two, the code is known to lose
registrations: `clone` (callback.go:45) copies the slice header of `processors`,
so the containers of two handles append into the same free slot of one array.
The second registration replaces the first, and at its next sort the first
handle runs the other's callback, although main.go:88 says of the clone Open
makes that it is there "to avoid mutating a shared object when multiple gorm
connections are created simultaneously".  The model shows it with `Writers`
{1, 2} and `Handles` 2.

Names are ordered and nobody asks to run before a smaller one: contradictory
wishes make the code recurse for ever.  Five names give one place before,
between and after the package's two; four requests let a removal or a
replacement follow a pair that refer to each other.  `Spare = 1` stands for the
5 free slots after the package's 27 processors (`append` grows 1, 2, 4, ... 32).

### Batch

One call (`call`: which function, which conflict clause, which database, chunk
size, on a handle or in the caller's transaction, on a handle with an error or
not) on a slice of structs.  A struct has a generated key, a unique column, a
column with a default, which is blank or not (so that rows differ in shape), and a
value, which is written as the element's number, so
a row says which element it is from.  `pc` follows `createInBatches`: begin,
then for each chunk prepare all rows (before hooks), one statement per group,
after hooks of the group, and commit.  `SaveInBatches` ("save" by primary key,
"saveKey" by the unique column) goes the same way with a conflict clause;
`CreateInBatchesOnConflict` has one statement per chunk, whatever the shapes.
`PrepareFails`, `ExecuteFails`, `AfterFails` and `CommitFails` are failures of
hooks and of the database, `Panic` those of hooks, or of a nil transaction.

The database is external and modelled by what the batches rely on: `Put` applies
a row under the unique columns and the conflict clause, one after another;
SQLite and PostgreSQL take the conflict target only, MySQL any unique key;
PostgreSQL refuses to update a row twice in a statement; DM gets one MERGE per
row; `LastInsertId` is the last key a statement generated, in MySQL the first,
and outlives statements that generate none; keys are never given twice, and a
key in a struct is one the database has given.  Other writers insert rows
between statements, in SQLite only while the call has written nothing.

| run | instance | shows |
|---|---|---|
| `batch` | slices of 3 elements of 9 kinds (nil, blank default, known key, changed row, deleted row, repeated unique value), 35 calls on 4 databases, one row of another writer | `AllOrNothing`, `OwnTxEnds`, `AnswerTrue`, `EveryElementWritten`, `KeysMatch`, `StaleKeysHarmless` |

Two kinds of calls are left out of the instance, since the code is known to go
wrong there.  On a handle that has an error already, Begin starts a transaction
on a clone that keeps the error; createInBatches (batch_create.go:95) takes it
for a failed Begin and returns, and the transaction and its connection stay open
(`OwnTxEnds`; batch_save.go:34 says an error rolls back a transaction the call
owns).  And CreateInBatches honours `gorm:insert_option`, so its statement may be
an upsert, but keys are left alone only for saves (batch_create.go:443): in
SQLite the LastInsertId of an earlier insert is put into the struct of a row that
was updated (`KeysMatch`), against what batch_create.go:440 says of upserts.

Chunks of 2 and 3 leave a short last chunk, a full one, or one chunk; `MaxVars =
7` with 2 to 4 columns makes limits of 3, 2 and 1 rows, so that chunk, shape and
limit each end a group.  Slices of three equal the smallest in which one group
follows another in a chunk and a second chunk follows.  MySQL is excepted from
`EveryElementWritten` for saves, as the documentation of `SaveInBatches` says:
any unique key triggers the update there.

Not in the model: arguments that are no slice, arrays that cannot be addressed,
models with no column to write (DEFAULT VALUES), `gorm:insert_modifier`,
`CreateExpression`, soft-deleted rows.

### AssociationMode

A client holds a struct of a source row (`source`), loaded with its association
or without (`field`), and calls on that association; two clients may hold
structs of one row.  A source is a type and an id, so that a polymorphic
association can have two owners with one id.  `links` is what the database has:
rows of the join table, or foreign keys, in targets for has_one and has_many and
in the source for belongs_to (`Linked` says what each new link displaces).  A
call is a walk through `pc`: `saveAssociations` handles one value after another
("save"; a many-to-many value is saved and then linked, "link"), the rest of
Replace removes what is not in the field ("unlink"), Delete is one statement and
the update of the field ("delete").  `DB.Association` starts each call with no
error, `Tells` is `setErr`; no step after an error is skipped, as in the code.
Every statement may fail, and may have handed out a key before it was rolled
back, which stays in the struct; Save's second look at the source may fail after
its transaction was committed.  `before`, `given`, `sole`, `failed` and
`unsaved` are history, for the properties.

| run | instance | shows |
|---|---|---|
| `assoc` | 2 clients, 2 calls with 8 lists of values (none, old, new, mixed, invalid), 5 kinds, 3 sources, 2 targets and new ones | `AskedIsDone`, `ErrorTold`, `LinksHaveRows`, `OthersKeepLinks` |
| `assoc_delete` | the same | `DeleteIsOwn` fails: a belongs_to Delete nulls the foreign key of every source that has the target |

Two calls are one after another on the same struct, which has the first one's
field, or side by side in every order; lists of two values have an error before
and after a success.  With two targets a Replace keeps one and removes the
other.

What the code does and the properties make room for: two Replaces side by side
on one source may leave it without a link, or with both values, although both
report success (`AskedIsDone` asks only calls during which nobody else changed
links); a struct loaded before another client's Replace links its old targets
again when it is saved; a many-to-many value that could not be saved is linked
all the same, and `LinksHaveRows` excepts its source; Delete on a field that
holds a struct without a key panics after its statement was made.

Not in the model: Find, Count and the queries of `JoinWith`, custom join
handlers, fields that hold pointers, deletion of targets and soft deletion,
calls on a handle inside a caller's transaction, the settings that keep
associations from being saved.

### Migration and LookThenCreate

`Migration` translates AutoMigrate.  Several programs, each with the models of
its own version, bring one schema up to date: `pc` is where a program's run is
(look for the table; field after field, look and alter, or collect the column
for a table that is to be created; look for a join table, make it, and a nested
AutoMigrate of its handler; create the table; index after index), and every
statement is an action, so the other programs' come in between.  A look may fail: the MySQL dialect panics then, the others take it for
"not there" (`Answers`).  A statement may be refused by the database, because
another program was faster, or fail for reasons of its own.  `Stop` is a crash
at any point; what was made stays.  `Hides` is SQLite's HasColumn, which looks
with LIKE in the text of what was created for a table and takes a column for
there when an index's name has it.

`LookThenCreate` composes it with the operations of `main.go` that look and then
write: a program whose AutoMigrate is over calls Save, Create, FirstOrCreate
(with Assign or without), FirstOrInit and Delete.  Each is cut into the
operations it consists of, a transaction each (what happens inside one is
`OpTransaction`'s), with other programs' between them.  A row has a key, a
unique column if the schema has its index by then, and the number of the call
that gave its value; with `soft` the model has DeletedAt.  `alone`, `got` and
`moved` are history.

| run | instance | shows |
|---|---|---|
| `look` | 2 programs, the second with a column, a join table with a column of its own and an index more; 3 runs of AutoMigrate in MySQL and 2 in SQLite, 2 calls; no table, or one with a row | `MigratedIsComplete`, `RerunRepairs`, `CallLands`, `AgreeOnRow` |

Three runs are one per program and one again, two calls the fewest that can
meet.  What the code does and the properties make room for: errors of columns of
a join table's own handler are dropped with the handle of the nested AutoMigrate
(scope.go:1208); a Save guarded by a condition, or one that meets another's
write, falls to FirstOrCreate, which overwrites the struct with the row found
and reports no error; without the index two programs find "nothing" and create
two rows (`AgreeOnRow` asks it only of programs that migrated without an error);
an index that becomes unique under the same name is never made again.

### ModelCache

A goroutine's use of a model is a stack of calls of getModelStruct (`stack`);
`objs` are the model structs, `cache` those published.  A frame looks into the
cache, builds the fields (an embedded struct is a call, after which its fields
are copied), publishes, and runs the deferred builders, last field first; a
relationship needs the model of its type, which is a call, and sets the foreign
key's mark there or here.  Nothing is locked: two goroutines build one model
twice, and the later publication stays.

| run | instance | shows |
|---|---|---|
| `models` | 2 goroutines, 3 uses; users have posts, posts a user, users embed a struct with a late column and a many-to-many field | `FirstUseIsComplete`, `CacheSettles` |

These four types have a cycle, an embedded model with a relationship, and a leaf.
The two exceptions stand for faults of the code.  A model that embeds another,
published but not finished by a second goroutine, copies fields that are not
complete and keeps them for ever.  And a second publication replaces a model in
which the first one's has_many has marked the foreign key.  A use that races may
get a model without its relationships, and SetJoinTableHandler panics on one; the
properties ask completeness of undisturbed uses and of what stays.

### HandleChains and HandleValues

`HandleChains` is the promise: a handle is its chain of calls, a value.
`HandleValues` is the memory: handles with searches, whose lists are slices
(array, length), and maps of settings; `Clone` copies as `search.clone` and
`DB.clone` do, `Appended` is Go's append, in place where there is room.
Statements (scopes) clone the handle they start from, may run inside one
another, and keep "I began the transaction" in the settings under a name made
of their address; addresses are used again.

| run | instance | shows |
|---|---|---|
| `handles` | 4 handles, 3 statements, 2 conditions, 1 setting, 2 addresses | `HandlesAreValues`: `HandleValues` implements `HandleChains`; `FlagIsOwn` |

Four handles are the least with two derived from one and one from a derived one,
three statements have one after, and one inside, another.  `FlagIsOwn` excepts a
scope that lies where an earlier one lay: the garbage collector may give the
address again, and `InstanceID` (scope.go:402) then finds the flag on a handle
derived from that one's result.  SetOnConflict, OnConflictDoUpdate and
OnConflictUpdateAll store in the receiver (`InstantSet`), so they stay on a
shared handle; First and Last, Scan and UpdateColumn leave settings of their own
in the handle they return, which is not modelled.

### PreloadQuery

A Find or First with `Preload("Rel.Leaves")` is three statements, with other
clients' writes between them (`Write`: relate or unrelate, delete or put back a
row, move a leaf).  The query reads users, with a foreign key if they belong to
a row; the first level reads the rows of those keys, in any order, and each
handler assigns them by key; the second level runs over the row objects.
`objs` are those objects: with pointers, users share them, without, each user
has copies.  `Call(TRUE)` is Preloads over what an earlier query filled, and
First over a struct used before.

| run | instance | shows |
|---|---|---|
| `preload` | 2 users, 2 rows, 1 leaf, 2 calls, 2 writes; 4 kinds, slices and structs, values and pointers; joins that return a user twice | `NothingWrong`, `NothingMissing`, `OnceEach` |

Two writes fit between the three statements in every way.  `ever` and `stable`
are history: what was related at some time, or all the time, since the call
began.  The error of a nested level is told to nobody (its scope's handle is
dropped), so `NothingMissing` asks for leaves only if that statement did not
fail.  What a destination held before is kept in part (callback_query_preload.go
:402 for many-to-many; has_one and belongs_to keep a stale object when nothing
is found; has_many appends to a filled slice of structs), so the last two
properties speak of fresh destinations.  A join that returns a user twice into
a slice of pointers gives its rows their leaves twice.

Not in the model: conditions and custom queries of preloads, composite keys
(`toString` joins them with an underscore, so strings may collide), hooks
(AfterFind runs while the rows of a many-to-many preload are open, which needs a
second connection), row queries.

### DmGroup and DmReadWrite

`DmGroup` is how a connection finds a server (dm/x.go, y.go, z.go): a selector
takes the endpoints in the configured order, or turned by one for each attempt;
each walk dials (`SetHost`, then `Login`: the address passes through a field of
the connector that all connections share), notes what the server said of itself,
and keeps the session if the mode is the preferred one, or if this is the last
walk and the login mode takes others too; walks after the first are sorted by
the notes, in any order among equals (a comment at dm/z.go:25 says that equal ones
keep their order; `sort.Slice` does not promise it, and no property needs it).  `mu` is the connector's mutex, which Connect holds and a
reconnecting connection does not.  `World` is the servers: one goes down, comes
back as a standby, takes over as primary.

`DmReadWrite` composes it with the connections: `ses` is a connection with its
session on the primary, the one on the standby, its flags (`trx` is the code's
trxFinish, negated; `distribute`; `auto`; `stale`, that lastExecInfo of the
standby tells of a setting).  A call is the whole of `executeByConn` or
`executeByStmt` inside the reconnect filter: what it may do is a set of records
(`Executed`), each with the state after it and the answer, since all of it runs
under one goroutine's call and only the servers could come in between; a lost
message is part of the record, before or after the server has run the
statement.  BeginTx, Commit and Rollback send to the standby first and mind its
answer only if the line broke.  `pend` is what the open transaction of each
session has written, `done` what is committed, `mine` what calls of the
transaction have reported as done, `spoiled` the exceptions.

| run | instance | shows |
|---|---|---|
| `dm_rw` | 2 connections, a primary and a standby, 4 sockets, one fault (a server down or a message lost), up to 3 calls; with and without reconnect, separation, HA, a schema, both selectors, three login modes | `PreferredFound`, `AtMostOnce`, `SocketsHeld`, `ReadsOwnWrites`, `CommitTrue` |

One fault is enough for a session to fail, a server to swap and a second server
to be needed; three calls let a statement follow a write and a setting.  The
second connection connects and closes, to meet the first at the connector.  The
configurations bound what each does (`opens`, `calls`).

What the code does and the properties make room for, each by name in `spoiled`:

- "standby": when the standby cannot be reached, `RWUtil.connect` (zx.go:48)
  returns its connection with an error; database/sql drops it unclosed, socket
  and watcher stay.  In a reconnect the same error marks the connection closed
  while its new session is open, and Close then returns early.
- "stale": after a statement failed on the standby the kind of statement is read
  from lastExecInfo, which is that of an earlier one; if that was a setting
  (a session's `set schema` is one) the statement runs twice on the primary.
- "switched": after a reconnect inside a transaction the rest of it runs in
  automatic commit and Commit returns nil; the caller has seen only the error
  that the connection was switched.

Beyond these: recoverStandby's error (a standby that cannot be reached) is taken
by the filter outside for the primary's and closes a healthy connection
(`StandbyNotRecovered`); checkStatusValid reads the primary's rows twice
(`rs.next(dest2)`) and never the standby's, so a standby that has come back is
never kept; the error of the second execution of a setting is ignored; BeginTx
turns automatic commit off before it can fail; autoReconnect marks the
connection closed before Close, whose watcher then never ends.

Not in the model: checkAndRecover (`DO_SWITCH_WHEN_EP_RECOVER`), the percentage
of reads (`rwCounter` gives either side), results kept open, statements prepared
on the standby (told apart by `plain` only), server status and DSC control,
the filters that log and count.

## What is proved

`OpTransaction_proofs` proves, for any set of clients, any pool and any bounds
and with every quirk of user code allowed:

| theorem | statement |
|---|---|
| `Types` | `Spec => []TypeOK` |
| `Atomicity` | `Spec => []AllOrNothing` |
| `ConnectionsReturn` | `Spec => []NoLeak` |
| `NoBareWrites` | `Spec => []WritesInTx` |

They rest on the assumptions of the module (a finite set of clients, bounds that
are natural numbers) and on one inductive invariant, `IInv`.  `AllOrNothing` is
not inductive by itself: a step that commits adds all rows of a unit to the
store, but it must be known that none of them is there already and that no
later step writes another one.  `IInv` says, for each client: the rows of a
unit are all in the store once its transaction is committed and none is while
it is open; a frame on the transaction has the frames above it on the
transaction as well, and only the lowest one of them can be its owner; a
statement can run only on a transaction (`BeginFails` leaves an error that
blocks it); past units are settled; a client that is idle holds an open
transaction only if it skipped.  The proof has one lemma per group of actions
with the same effect (advance the frame, begin, end, nest, return, user's
steps), one for the frames below the top, one for the other clients, whose rows
and stack a step leaves alone, and `NextInv` puts them together.

The second half of the module goes on from `IInv`:

| theorem | statement | assumes |
|---|---|---|
| `ErrorsArrive` | `Spec => []ErrorsReachCaller` | |
| `EndedByStarter` | `Spec => StarterEnds` | |
| `Refinement` | `Spec => ImplementsAtomicStore` | `PlainCode`: `Quirks = {}` |

For `ErrorsArrive` what has to be added (`Answered`) is that no unit is answered
before it ends and that a committed operation is done and has no error: then an
error can neither turn up after the commit nor be told over an earlier answer.
`ErrorsStay` goes through the callbacks that leave the operation under way; a
scope above another never commits (`CommitsAlone`), because one that owns a
transaction there has inherited the error its parent has since a failed Begin.

`PlainCode` says that user code neither calls SkipLeft nor marks a transaction's
handle with an error; with either of them the refinement is false (see
OpTransaction above), and `op_core`, the run that checks it, leaves them out as
well.  The refinement mapping is that of the run: the rows of the store, and for
each unit what its caller has been told.  Each callback is shown to be a step of
`AtomicStore` or to change neither; a step that publishes is the end of a unit
whose rows are all in the log by then, which is what `IInv` and `Answered` say.
What must be added is a unit's fate (`FateInv`): an operation has written
nothing before its outermost scope began; one that was rolled back over rows is
at its end, with an error; a handle that began with an error writes nothing,
because every scope on it inherits the error; and a caller is answered when its
transaction ends.  Then a unit that has written is answered "ok" when its rows
were published and "fail" when they were not.

`AssociationMode_proofs` proves, for any clients, sources, targets, links to
begin with and lists of values:

| theorem | statement |
|---|---|
| `LinkedRowsExist` | `Spec => []LinksHaveRows` |
| `OthersUntouched` | `Spec => OthersKeepLinks` |
| `CallsInvariance` | `Spec => [](AInv /\ DInv)` |
| `CallsAreDone` | `Spec => []AskedIsDone` |
| `ErrorsAreTold` | `Spec => []ErrorTold` |

The invariant of the first two, `AInv`, adds to `LinksHaveRows` what is true between two steps of
a call: keys not yet handled are keys of rows that were there at the start, and
a client about to link (`pc = "link"`) has the key of a row, or its source is
known to have an unsaved value.  `LinksStay` says what a step must do to keep
links on rows, and each action is shown to do so; `Moves` and `Removes` say who
takes a link away.  The assumptions are those of the module: keys of the old
targets and links, and that passed keys are among them.

`AskedIsDone` is about a call that is over, so `DInv` says how far one that is
under way has come, as long as no step of it has failed and no other client has
changed links.  `Appending`: what the source had before and what was given so
far is linked, except the key a client at `link` is about to link, and what is
linked is from before or in the field.  `Replacing`: the field shows exactly the
keys given so far (`Shown`; a struct field the last), and they are linked, so
that taking all other links away leaves what was asked for.  `Deleting`: nothing
has changed yet.  `Placed` relates `pc` to what is left to be saved.  The lemma on
`Without` says that any way to keep a sequence without some keys keeps the rest.

`SliceLoops_proofs` proves about `Batch`, for any calls, slices, limits and
rows of others:

| theorem | statement | assumes |
|---|---|---|
| `BatchesAreAtomic` | `Spec => []AllOrNothing` | |
| `OwnTransactionsEnd` | `Spec => []OwnTxEnds` | `FailedIsShared`: a handle with an error is in a caller's transaction, or the call is CreateInBatchesOnConflict |
| `AnswersAreTrue` | `Spec => []AnswerTrue` | `FreshHandles`: a handle with an error is in a caller's transaction |
| `ElementsAreWritten` | `Spec => []EveryElementWritten` | |
| `KeysAreTheirRows` | `Spec => []KeysMatch` | `NoUpsertingCreate`: CreateInBatches is given no conflict clause that updates |
| `StaleKeysAreHarmless` | `Spec => []StaleKeysHarmless` | |

`FailedIsShared` excludes exactly the handles for which createInBatches leaves
its transaction open, and `NoUpsertingCreate` the calls for which
batch_create.go:440 is not what the code does (see Batch above).
`BatchAssumption` says that rows there before the call have keys and unique
values of their own, that their keys were handed out by the generator, and that
a struct holds a key handed out before, or none; without the last, a row that
another writer is given by the generator could have the key a struct brings.

The invariant `TxKnown` says where in a call it can have which transaction;
`NoErrorYet` that a call with a transaction of its own has no error on its way
to the commit, except one whose Begin failed and which will find no rows it
could write.

The other three rest on `WrittenInv`.  `LoopPlaces` says where the two loops are:
`rows` are places of the chunk in ascending order, those before them and
those of earlier chunks are `Done`, that is, were in a statement.  `TableHolds`
says of the table that keys and unique values are unique, that no key is above
the generator's, that a row has the value of an element that is done and that
element's unique value (`Sound`, `Known`), and that every element that is done
is there or a later one for the same row is (`Covered`); and that as many rows
were counted as are done if no clause updates.  `KeysHold`: a key that was put
into a struct is that of the element's row.  None of these survives a statement
by itself.  A statement is a fold over its rows, and what is true of the state
between two rows must be shown row by row: a row that is inserted must not have
the place of one that is there (`InsertSound`, `InsertGood`), a row that is
updated must not take away the only row of an element that has no later one
(`UpdateGood`; this is where MySQL's updates for any unique key are excepted), and
the keys generated by one statement are consecutive as long as all rows are
inserted and none brings its key (`PutInserts`), so that counting from
LastInsertId, forwards or backwards, meets the right rows (`AssignedMatch`).
`StaleKeysHarmless` follows because a save by another key writes no primary key
(`PutSaves`): what clashes then is the unique value, which is the target.

And about `PreloadQuery`, for any users, rows, leaves, reads and bounds:

| theorem | statement |
|---|---|
| `PreloadsAreRight` | `QuerySpec => []NothingWrong` |
| `PreloadsAreComplete` | `QuerySpec => []NothingMissing` |
| `PreloadsComeOnce` | `QuerySpec => []OnceEach` |

`PreloadAssumption` asks for finite sets of users, rows and leaves.  The
invariant `PreloadInv` follows the three statements.  `Tied` relates the objects
to one another: with pointers the users read refer to shared row objects, one
per row found, without them each to copies of its own, and every object has been
read.  `Right`: what an object refers to was related at some time since the call
began (`ever`).  `Filled`, for fresh destinations: what was related all the time
(`stable`) is there as soon as its statement was made, and once.  The
statement that reads rows sees what is related at that moment, which is in
`ever` and has `stable` in it; but the users it assigns them to, with their
foreign keys, were read by an earlier one, so it must also be known that a user's
key in the object is that of a relation in `ever`, and is the one of `stable` if
there is one.

And about `CallbackRegistry`, for any callbacks of the package, any free slots,
handles, requests and bounds:

| theorem | statement | assumes |
|---|---|---|
| `RegistryTypesHold` | `RegistrySpec => []RegistryInv` | |
| `PackageOrderHolds` | `RegistrySpec => []PackageOrder` | |
| `SimplePlacedHolds` | `RegistrySpec => []SimplePlaced` | one user registers: `Writers \subseteq {w}` |

`RegistryAssumption` says that the init functions register different names, and
that nobody asks to run before a callback with a smaller name, or after one with a
larger (otherwise wishes can contradict one another and the code recurses for
ever).  The one user of `SimplePlacedHolds` may be any, with any number of requests
and of clones made by all; two would write each other's entries over, as said
under CallbackRegistry above.

`PackageOrder` needs no such hypothesis.  The package's processors come first in
every slice, whoever appends to the shared array, and sorting never gives them a
wish (`RegistryInv`): in each sort they are met first and appended in their
order (`Packaged`), what is put in later leaves the order of those before it
(`InsertedKeeps`), and so does the removal of names at the end (`ChainFacts`).
This holds however deep the recursion may go; for `SimplePlaced` it is enough
that a turn can call itself twice, which `DepthIs` says.

For `SimplePlaced` one sort is followed turn by turn (`SortedTo`): after k
processors, all names met are in the list, once, with every callback they wish a
place for, if it is known, and all wishes between those in the list are met.
`WishesStayMet` says which places keep that (`Fits`), and there is a lemma for
each kind of turn: nothing to heed (`PlainTurn`), a wish for a callback that is
sorted already (`SortedTurn`), for a place before one that is not
(`BeforeNextTurn`) or after it (`AfterNextTurn`), and a name met again
(`RepeatTurn`).  A wish for a place after a callback that is not sorted yet leaves
a mark in the `before` field of that one, and the next sort starts with it.
`Link` says what such a mark can be: the callback that, before this one was registered, was
the first to wish a place relative to it, and wished to come after it; so to
honour the mark is to meet a wish there is.  `LinksOk` says that every `before`
field holds the request's own wish or such a mark; it is kept by a sort
(`ChainServes`) and by one request more (`LinksMore`).  `PlacedInv` says so of
the container that is sorted next (`ReadyAt`), that its processors are distinct
objects, and that no other container has more of the same array, so that an
append in place changes no entry another container reads (`OthersKept`); it was
checked by TLC on the run's instance first.

An induction over data is needed in all three, over the rows of a statement, the
results of a query and the processors of a container.  The theorems of the
library on induction take the property as a parameter, which none of the provers
can instantiate, but that the natural numbers are well founded is stated there
of sets: `Steps` says of a set of numbers with 0 and with every successor up to
n that it has n, and each use of it states the set of the numbers for which its
property holds.

`DamengConnection_proofs` proves, for any number of connections, names, dials
and calls:

| theorem | statement |
|---|---|
| `NamesReachTheirOwn` | `Spec => []OwnDial` |
| `NamesAreBounded` | `Spec => []NamesBounded` |
| `SocketsAreClosed` | `Spec => []NoSocketLeft` |
| `IdleIsNotInvalidated` | `Spec => IdleStaysValid` |

The invariant has a part for each of the adapter's records.  `NamesKept`: a name
that was made is free or held by one connection, which holds it from its taking
to its release.  `NamesCounted`: a name is made only when none is free, that is
when as many are held as were made, so there are never more names than were held
at one time; this is about cardinalities of finite sets.  `SocketsKept`: where no
handshake and no call can be, no socket is open.  `WatchersKept`: an armed watcher
is that of the handshake or call under way, and none outlives it (`end` stops it
or waits for it).

`HandleValues_proofs` proves, for any number of handles, statements,
conditions, settings and addresses:

| theorem | statement |
|---|---|
| `Invariance` | `Spec => []Inv` |
| `FlagsAreOwn` | `Spec => []FlagIsOwn` |
| `HandleChainsRefined` | `Spec => HandlesAreValues` |

The danger is an append in place, into an array that another slice reads.  An
array from an append does have room, but every appender appends to a clone of
its search, and `search.clone` copies to an array without room (`Prefix`,
`Room`): so arrays are only ever added (`Grows`), and what a slice reads it will
always read.  The invariant says that every slice lies in an array that is at
least as long, that the settings of a handle are a map of its own, that a
statement has a handle of its own, and that the flag of a begun transaction is
in the settings of a statement's handle only if the statement began one or lies
where another lay.  The refinement mapping reads the conditions and settings
through the slice and the map; a step that makes a handle appends one chain and
leaves the others, an InstantSet changes the receiver's, and steps of a
statement on its own handle change that handle's transaction.

`LookThenCreate_proofs` proves, for any programs, models, indexes, rows and
bounds, in MySQL and SQLite:

| theorem | statement |
|---|---|
| `MigrationInvariance` | `Spec => []MInv` |
| `NoErrorIsComplete` | `Spec => []MigratedIsComplete` |
| `RerunsRepair` | `Spec => []RerunRepairs` |
| `CallInvariance` | `Spec => [](MInv /\ RInv)` |
| `CallsLand` | `Spec => []CallLands` |
| `ProgramsAgree` | `Spec => []AgreeOnRow` |

`MigrationAssumption` asks that a program has a model, that its fields are
columns and join tables, that indexes are finitely many, and that no model's own
table is one of its join tables: with the last, a run that finds its join table
made by itself would take its columns for there.  `RowAssumption` asks that old
rows are rows with chosen keys and that the generator starts after those.

`MInv` has two parts for each program.  `Sound`: as long as no error was
reported, what it is through with is there (the fields handled, or all of a
table that is to be created; join tables; indexes).  The schema never shrinks,
so this survives the steps of the others.  `Quiet`: while nobody disturbs the
program, what it is about to make is not there, so that no statement of its own
is refused; another's step that makes something ends the quiet.  `RerunRepairs`
needs both: without an error the schema is complete, and there can be no error.
`RInv` adds the rows.  `Lands`: a call alone with its row either still has its
way to go with the struct as it was given, or the row is there.  `Traces`: a
unique index has no two rows with one name, a row FirstOrCreate returned is
there under its name or the name is noted as moved, and one that was returned
to a program that migrated without an error means that the index is there.
Both invariants were checked by TLC on the run's instance first.

`ModelCache_proofs` proves, for any goroutines, models, embedding one level deep
and relationships:

| theorem | statement |
|---|---|
| `CacheInvariance` | `Spec => []CInv` |
| `FirstUsesComplete` | `Spec => []FirstUseIsComplete` |
| `CachesSettle` | `Spec => []CacheSettles` |

They rest on the two assumptions of the module: the second passes of a type
name fields of it, and an embedded struct embeds nothing itself.  What makes the
invariant long is that a goroutine is inside several calls of GetModelStruct at
once, and that a model struct is published before it is complete.  So `CInv`
says what each frame of a goroutine's stack has done to its model struct
(`Through`, `Embedded_`) and still has to do (`Left`), that a frame waits for
the one above it with the type that one was called for (`Waits`), and that every
model struct is complete (`Finished`) or some call is still building it
(`Built`).  Steps only make model structs more complete (`Grows`), so what is
finished stays finished, whichever goroutine steps.  `Published` relates a call
to the cache: the model struct it has published is the one in the cache, unless
its type was stored twice.  A use that nobody disturbed has the only stack
(`Apart`), so no call of another goroutine is building what it returns.

`DmReadWrite_proofs` proves, for any connections, servers, sockets,
configurations, orders of endpoints and number of faults:

| theorem | statement |
|---|---|
| `ReadWriteInvariance` | `Spec => []RInv` |
| `NoSocketLost` | `Spec => []SocketsHeld` |
| `WalksFindPreferred` | `Spec => []PreferredFound` |
| `CommittedOnce` | `Spec => []AtMostOnce` |
| `CommitsAreTrue` | `Spec => CommitTrue` |
| `ReadsSeeWrites` | `Spec => ReadsOwnWrites` |

They rest on `GroupAssumption`: the configuration lists each server once, has the
login modes there are, and separates reads from writes only with the login mode
`primaryOnly`, which `RWUtil.connect` sets (zx.go:41).  A call is a set of records,
and so the proof has two layers.  The lemmas from `RanIs` to `EndsIs` say what a
record can have become after a statement, after the standby failed and the
primary took over (`Turned`), after a message, after the end of a transaction:
sessions are only dropped with their socket shut (`Effect`), what is written is
added and never twice under one number (`Adds`), nothing is taken back.  Then one
lemma for each action shows that the connection that steps satisfies the invariant
again and that it leaves the others alone but for what they share (`Beside`,
`Moves`).  `OthersKeep` is what all actions need of the others, and `WorldKeeps`
is for the servers.

What `RInv` adds to the properties: sockets belong to one connection (`Held`), or
one could shut another's session.  `Roles`: with separation a primary session that
answers is with a primary, and then the standby's is with a standby, so a
statement that writes is refused by the standby and goes to the primary.  `Tx` is
about an open transaction that was not switched: its writes are with the primary,
where `distribute` and `trx` send its reads, as long as the primary's session
lives.  That last part is no formality: when the primary's session is dead
and reconnecting is off, the standby may have become the primary and take the
writes; then they are all with the standby, and Commit cannot return nil, because
it ends on the primary's session.  `Walks`, for an attempt nobody disturbs: the
servers of the preferred mode that were up all the while (`steady`) are still
before it in this walk, the first, in whatever order; hence it does not get to a
walk that is sorted by what others have noted, nor to the last, which takes
anything.  `RInv` was checked by TLC on the run's instance first.

What these proofs changed in the models: overlapping guards of CASE in
`AtomicStore`, `OpTransaction`, `DmGroup` and `DmReadWrite` (TLC takes the first
that is true, the language any) are now disjoint; the field loop of a table to
be created is steps of its own (`CollectColumn`), as in createTable; `Sorted` of
`DmGroup` is the set of orders `sort.Slice` may leave, where it was one of them, and
`GroupAssumption` says what a configuration consists of.  In `Batch` the
generator's last key is a constant of its own (`LastOldId`), where it was the
largest key of the rows there: the code may be given the key of a row that was
deleted; a statement is a recursive function of its rows; and another writer
can insert neither a unique value the transaction under way has written nor,
now, one that it has taken from a row and not committed.  In `PreloadQuery` the
places of repeated results are given by arithmetic.  In `CallbackRegistry` sorting, which was
a recursive operator, is a recursive function of its depth, which TLC found equal
to it on all lists of up to four requests of four names; and `Simple` is narrower:
a replacement with a wish of its own was simple if it was not the last request for its
name, and the proof failed on register 5; register 3 after 1; replace 3 before 5;
register 1, where the second request for 3 is the one that is put.

## Only model-checked

- Liveness, `EveryUnitEnds` and `CanceledReturns`: fairness and ENABLED are out of
  the prover's reach.

## Not modelled

- `naming.go`, `utils.go`, `errors.go`, `field.go`, `logger.go`: functions of
  names and of reflection values without state, and a name cache behind a lock.
- The dialects: text of SQL and types.  Where what a statement does differs by
  database (HasTable, LastInsertId, upserts) the modules that use it say so.
- The DM protocol: `src/dm` is a relocated third-party driver, most of the
  repository's lines, and most of it is the encoding of messages and values, a
  generated parser and LOBs, with identifiers that tell nothing.  Its state that
  decides something, endpoints, sessions, transactions and reconnects, is in
  `DmGroup` and `DmReadWrite`; of the rest nothing is modelled, and so only
  a small share of the repository's lines have a definition here.
- `database/sql`, the databases and the peers of connections are external; the
  modules state what the code relies on.

## Plan

The plan of the first version is done: `OpTransaction` and `AtomicStore`,
`DamengConnection`, `CallbackRegistry`, `Batch`, `AssociationMode`, the races of
look-then-create with `Migration`, `ModelCache`, `HandleValues`, `PreloadQuery`,
and the DM driver's groups and read-write separation.  What would come next:

1. The DM driver's `checkAndRecover`, and results kept open over a reconnect.
2. Registration of callbacks by two goroutines, step by step.
