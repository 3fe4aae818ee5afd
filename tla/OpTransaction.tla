--------------------------- MODULE OpTransaction ---------------------------
(***************************************************************************)
(* The transaction around every create, update, save and delete, and the   *)
(* transactions a caller opens (scope.go Begin, CommitOrRollback and       *)
(* callCallbacks; the default callback chains; main.go Save, FirstOrCreate,*)
(* Begin, Commit, Rollback, Transaction).                                  *)
(*                                                                         *)
(* Clients are goroutines that share one *gorm.DB over a pool of MaxOpen   *)
(* connections.  A client works in units: an operation on the shared       *)
(* handle, or a transaction of its own with operations inside.  Running an *)
(* operation pushes a frame (a Scope in callCallbacks); saving an          *)
(* association pushes another on top of it.  A row is abstracted to the    *)
(* triple <<client, unit, frame key>> of the statement that wrote it.      *)
(***************************************************************************)
EXTENDS Naturals, FiniteSets

CONSTANTS
  Clients,    \* goroutines using the shared handle
  MaxOpen,    \* sql.DB.SetMaxOpenConns
  MaxUnits,   \* bound: units per client
  MaxDepth,   \* bound: frames on one client's stack
  MaxFrames,  \* bound: frames one unit may push
  Ops,        \* operations the callers use, out of Kinds
  Quirks      \* what user code does: "skip", "addError"

ASSUME ClientsAssumption == IsFiniteSet(Clients)
ASSUME BoundsAssumption  == /\ MaxOpen \in Nat \ {0}
                            /\ MaxUnits \in Nat
                            /\ MaxDepth \in Nat \ {0}
                            /\ MaxFrames \in Nat \ {0}
ASSUME OpsAssumption     == Ops \subseteq {"create", "update", "save", "delete"}
ASSUME QuirksAssumption  == Quirks \subseteq {"skip", "addError"}

VARIABLES
  mode,      \* what the client is in: idle, an operation, its own transaction
  unit,      \* how many units the client has begun
  tx,        \* the unit's *sql.Tx: none, nil after a failed BeginTx, or its fate
  handleErr, \* Error of the handle the unit's operations are called on
  stack,     \* frames, by depth
  depth,     \* frames in use
  frames,    \* frames pushed in this unit
  log,       \* every row some statement wrote, committed or not
  store,     \* rows that are committed
  verdict,   \* what each unit reported to its caller
  leaked,    \* units whose open transaction nobody can reach any more
  skipped    \* units in which a hook called SkipLeft

vars == <<mode, unit, tx, handleErr, stack, depth, frames, log, store,
          verdict, leaked, skipped>>

Units == 1 .. MaxUnits
Rows  == Clients \X Units \X (1 .. MaxFrames)
Kinds == {"create", "update", "save", "delete"}
Steps == {"assign", "begin", "before", "assocBefore", "write", "assocAfter",
          "after", "end", "done"}
Frame == [kind : Kinds, pc : Steps, err : BOOLEAN, onTx : BOOLEAN,
          own : BOOLEAN, key : 1 .. MaxFrames]
Blank == [kind |-> "create", pc |-> "done", err |-> FALSE, onTx |-> FALSE,
          own |-> FALSE, key |-> 1]

Written(c, u) == {r \in log : r[1] = c /\ r[2] = u}
InPool == {c \in Clients : tx[c] = "open"}
\* database/sql makes Begin wait, without a limit, while every connection is
\* in use: it neither succeeds nor fails before its turn.
FreeConn == Cardinality(InPool) + Cardinality(leaked) < MaxOpen

-----------------------------------------------------------------------------
(* The callback chains: the order in which the init functions register.    *)

FirstStep(kind) == IF kind \in {"update", "save"} THEN "assign" ELSE "begin"

NextStep(kind, pc) ==
  CASE pc = "assign"      -> "begin"
    [] pc = "begin"       -> "before"
    [] pc = "before"      -> IF kind = "delete" THEN "write" ELSE "assocBefore"
    [] pc = "assocBefore" -> "write"
    [] pc = "write"       -> IF kind = "delete" THEN "after" ELSE "assocAfter"
    [] pc = "assocAfter"  -> "after"
    [] pc = "after"       -> "end"
    [] OTHER              -> "done"

\* NewDB and NewScope clone the handle: Error and connection are inherited.
NewFrame(kind, err, onTx, key) ==
  [kind |-> kind, pc |-> FirstStep(kind), err |-> err, onTx |-> onTx,
   own |-> FALSE, key |-> key]

Top(c) == stack[c][depth[c]]
At(c, pc) == depth[c] > 0 /\ Top(c).pc = pc
Advance(f) == [f EXCEPT !.pc = NextStep(f.kind, f.pc)]
AddErr(f, err) == [f EXCEPT !.err = f.err \/ err]
SetTop(c, f) == stack' = [stack EXCEPT ![c][depth[c]] = f]

Push(c, kind, err, onTx) ==
  /\ depth[c] < MaxDepth /\ frames[c] < MaxFrames
  /\ frames' = [frames EXCEPT ![c] = @ + 1]
  /\ depth' = [depth EXCEPT ![c] = @ + 1]
  /\ stack' = [stack EXCEPT ![c][depth[c] + 1] =
                 NewFrame(kind, err, onTx, frames[c] + 1)]

userVars == <<mode, unit, handleErr, verdict, leaked>>

-----------------------------------------------------------------------------
(* One callback of the chain per action, on the client's top frame.        *)

\* assign_updating_attributes: an Updates with nothing to set skips the rest.
Assign(c) ==
  /\ At(c, "assign")
  /\ \/ SetTop(c, Advance(Top(c)))
     \/ Top(c).kind = "update" /\ SetTop(c, [Top(c) EXCEPT !.pc = "done"])
  /\ UNCHANGED <<userVars, tx, depth, frames, log, store, skipped>>

\* scope.Begin on a handle that already is a transaction.
JoinTx(c) ==
  /\ At(c, "begin") /\ Top(c).onTx
  /\ SetTop(c, Advance(Top(c)))
  /\ UNCHANGED <<userVars, tx, depth, frames, log, store, skipped>>

\* scope.Begin on a sql.DB: it begins whether or not the scope has an error.
BeginOwn(c) ==
  /\ At(c, "begin") /\ ~Top(c).onTx /\ FreeConn
  /\ SetTop(c, Advance([Top(c) EXCEPT !.onTx = TRUE, !.own = TRUE]))
  /\ tx' = [tx EXCEPT ![c] = "open"]
  /\ UNCHANGED <<userVars, depth, frames, log, store, skipped>>

\* Faulty variant: the error of a failed Begin is dropped.
BeginFails_NoError(c) ==
  /\ At(c, "begin") /\ ~Top(c).onTx /\ FreeConn
  /\ SetTop(c, Advance(Top(c)))
  /\ UNCHANGED <<userVars, tx, depth, frames, log, store, skipped>>

BeginFails(c) ==
  /\ At(c, "begin") /\ ~Top(c).onTx /\ FreeConn
  /\ SetTop(c, Advance([Top(c) EXCEPT !.err = TRUE]))
  /\ UNCHANGED <<userVars, tx, depth, frames, log, store, skipped>>

\* BeforeSave/BeforeCreate/... and the After hooks: not called after an error.
Hook(c) ==
  /\ At(c, "before") \/ At(c, "after")
  /\ \/ SetTop(c, Advance(Top(c)))
     \/ ~Top(c).err /\ SetTop(c, Advance([Top(c) EXCEPT !.err = TRUE]))
  /\ UNCHANGED <<userVars, tx, depth, frames, log, store, skipped>>

\* A hook that takes the *Scope may call SkipLeft, and may report an error.
HookSkips(c) ==
  /\ "skip" \in Quirks
  /\ At(c, "before") \/ At(c, "after")
  /\ ~Top(c).err
  /\ \E e \in BOOLEAN : SetTop(c, [Top(c) EXCEPT !.err = e, !.pc = "done"])
  /\ skipped' = skipped \cup {<<c, unit[c]>>}
  /\ UNCHANGED <<userVars, tx, depth, frames, log, store>>

\* save_before_associations and save_after_associations do not look at the
\* scope's error: they save the next association all the same, or move on.
SaveAssociation(c) ==
  /\ At(c, "assocBefore") \/ At(c, "assocAfter")
  /\ \E kind \in {"create", "save"} \cap Ops : Push(c, kind, Top(c).err, Top(c).onTx)
  /\ UNCHANGED <<userVars, tx, log, store, skipped>>

AssociationsDone(c) ==
  /\ At(c, "assocBefore") \/ At(c, "assocAfter")
  /\ SetTop(c, Advance(Top(c)))
  /\ UNCHANGED <<userVars, tx, depth, frames, log, store, skipped>>

\* gorm:create, gorm:update, gorm:delete.  On a finished sql.Tx the statement
\* fails with ErrTxDone; on the sql.DB itself it would commit by itself.
Write(c) ==
  /\ At(c, "write") /\ ~Top(c).err
  /\ LET row == <<c, unit[c], Top(c).key>> IN
     /\ Top(c).onTx => tx[c] = "open"
     /\ log' = log \cup {row}
     /\ store' = IF Top(c).onTx THEN store ELSE store \cup {row}
  /\ SetTop(c, Advance(Top(c)))
  /\ UNCHANGED <<userVars, tx, depth, frames, skipped>>

WriteFails(c) ==
  /\ At(c, "write") /\ ~Top(c).err
  /\ SetTop(c, Advance([Top(c) EXCEPT !.err = TRUE]))
  /\ UNCHANGED <<userVars, tx, depth, frames, log, store, skipped>>

\* No statement after an error; none for an update with nothing to change;
\* and a statement may match no row.
WriteSkipped(c) ==
  /\ At(c, "write")
  /\ SetTop(c, Advance(Top(c)))
  /\ UNCHANGED <<userVars, tx, depth, frames, log, store, skipped>>

\* scope.CommitOrRollback, on the scope that began the transaction: it then
\* puts the shared sql.DB back into the scope's handle.
CommitOwn(c) ==
  /\ At(c, "end") /\ Top(c).own /\ ~Top(c).err /\ tx[c] = "open"
  /\ store' = store \cup Written(c, unit[c])
  /\ tx' = [tx EXCEPT ![c] = "committed"]
  /\ SetTop(c, Advance([Top(c) EXCEPT !.onTx = FALSE, !.own = FALSE]))
  /\ UNCHANGED <<userVars, depth, frames, log, skipped>>

\* The database refuses the commit, or the sql.Tx is already finished.
CommitOwnFails(c) ==
  /\ At(c, "end") /\ Top(c).own /\ ~Top(c).err
  /\ tx' = [tx EXCEPT ![c] = IF @ = "open" THEN "rolledback" ELSE @]
  /\ SetTop(c, Advance([Top(c) EXCEPT !.onTx = FALSE, !.own = FALSE, !.err = TRUE]))
  /\ UNCHANGED <<userVars, depth, frames, log, store, skipped>>

\* Faulty variant: a scope with an error ends nothing.
RollbackOwn_KeepsTx(c) ==
  /\ At(c, "end") /\ Top(c).own /\ Top(c).err
  /\ SetTop(c, Advance([Top(c) EXCEPT !.onTx = FALSE, !.own = FALSE]))
  /\ UNCHANGED <<userVars, tx, depth, frames, log, store, skipped>>

RollbackOwn(c) ==
  /\ At(c, "end") /\ Top(c).own /\ Top(c).err
  /\ tx' = [tx EXCEPT ![c] = IF @ = "open" THEN "rolledback" ELSE @]
  /\ SetTop(c, Advance([Top(c) EXCEPT !.onTx = FALSE, !.own = FALSE]))
  /\ UNCHANGED <<userVars, depth, frames, log, store, skipped>>

\* Faulty variant: a scope commits any transaction its handle is in.
LeaveTx_Commits(c) ==
  /\ At(c, "end") /\ ~Top(c).own
  /\ SetTop(c, Advance(Top(c)))
  /\ IF Top(c).onTx /\ ~Top(c).err /\ tx[c] = "open"
     THEN /\ store' = store \cup Written(c, unit[c])
          /\ tx' = [tx EXCEPT ![c] = "committed"]
     ELSE UNCHANGED <<store, tx>>
  /\ UNCHANGED <<userVars, depth, frames, log, skipped>>

\* Without the scope's own gorm:started_transaction there is nothing to end.
LeaveTx(c) ==
  /\ At(c, "end") /\ ~Top(c).own
  /\ SetTop(c, Advance(Top(c)))
  /\ UNCHANGED <<userVars, tx, depth, frames, log, store, skipped>>

-----------------------------------------------------------------------------
(* Leaving an operation.                                                   *)

InUserTx(c) == mode[c] \in {"manual", "block"}

Report(c, v) == verdict' = [verdict EXCEPT ![c][unit[c]] = IF @ = "none" THEN v ELSE @]
Verdict(err) == IF err THEN "fail" ELSE "ok"

\* Faulty variant: the saved association's error is dropped.
ReturnNested_DropsError(c) ==
  /\ depth[c] > 1 /\ At(c, "done")
  /\ SetTop(c, Blank)
  /\ depth' = [depth EXCEPT ![c] = @ - 1]
  /\ UNCHANGED <<userVars, tx, frames, log, store, skipped>>

\* The saved association's error is added to the scope that saved it.
ReturnNested(c) ==
  /\ depth[c] > 1 /\ At(c, "done")
  /\ stack' = [stack EXCEPT ![c] =
                 [@ EXCEPT ![depth[c]] = Blank,
                           ![depth[c] - 1] = AddErr(stack[c][depth[c] - 1], Top(c).err)]]
  /\ depth' = [depth EXCEPT ![c] = @ - 1]
  /\ UNCHANGED <<userVars, tx, frames, log, store, skipped>>

\* An operation on a transaction returns its result; the handle keeps its own.
ReturnToUserTx(c) ==
  /\ depth[c] = 1 /\ At(c, "done") /\ InUserTx(c)
  /\ SetTop(c, Blank)
  /\ depth' = [depth EXCEPT ![c] = 0]
  /\ UNCHANGED <<userVars, tx, frames, log, store, skipped>>

ReturnOp(c) ==
  /\ depth[c] = 1 /\ At(c, "done") /\ ~InUserTx(c)
  /\ Report(c, Verdict(Top(c).err))
  /\ SetTop(c, Blank)
  /\ depth' = [depth EXCEPT ![c] = 0]
  /\ mode' = [mode EXCEPT ![c] = "idle"]
  /\ UNCHANGED <<unit, tx, handleErr, frames, log, store, leaked, skipped>>

\* A new unit: a transaction left open by the last one can no longer be ended.
NewUnit(c) ==
  /\ unit[c] < MaxUnits
  /\ unit' = [unit EXCEPT ![c] = @ + 1]
  /\ leaked' = leaked \cup (IF tx[c] = "open" THEN {<<c, unit[c]>>} ELSE {})

\* Save: the update touched no row, so First looks the record up and, when it
\* is missing, the create chain runs on the handle Save was called on.
Fallback(f, firstFails, key, onTx) ==
  IF firstFails THEN [f EXCEPT !.kind = "create", !.err = TRUE, !.own = FALSE, !.onTx = onTx]
  ELSE NewFrame("create", FALSE, onTx, key)

NoRowsAffected(c) ==
  At(c, "done") /\ Top(c).kind = "save" /\ ~Top(c).err /\ <<c, unit[c], Top(c).key>> \notin log

SaveFallbackInTx(c) ==
  /\ NoRowsAffected(c)
  /\ depth[c] > 1 \/ InUserTx(c)
  /\ frames[c] < MaxFrames
  /\ LET onTx == IF depth[c] > 1 THEN stack[c][depth[c] - 1].onTx ELSE TRUE IN
     \E ff \in BOOLEAN : SetTop(c, Fallback(Top(c), ff, frames[c] + 1, onTx))
  /\ frames' = [frames EXCEPT ![c] = @ + 1]
  /\ UNCHANGED <<userVars, tx, depth, log, store, skipped>>

\* On the shared handle the update's transaction is over: the lookup and the
\* create are a unit of their own.
SaveFallbackOp(c) ==
  /\ NoRowsAffected(c)
  /\ depth[c] = 1 /\ ~InUserTx(c) /\ FreeConn
  /\ NewUnit(c)
  /\ Report(c, "ok")
  /\ \E ff \in BOOLEAN : SetTop(c, Fallback(Top(c), ff, 1, FALSE))
  /\ frames' = [frames EXCEPT ![c] = 1]
  /\ tx' = [tx EXCEPT ![c] = "none"]
  /\ UNCHANGED <<mode, handleErr, depth, log, store, skipped>>

\* Faulty variant: a panic passes through callCallbacks with no rollback.
Panic_KeepsTx(c) ==
  /\ At(c, "before") \/ At(c, "after")
  /\ ~Top(c).err
  /\ stack' = [stack EXCEPT ![c] = [d \in 1 .. MaxDepth |-> Blank]]
  /\ depth' = [depth EXCEPT ![c] = 0]
  /\ IF mode[c] = "manual" THEN UNCHANGED <<mode, verdict>>
     ELSE /\ Report(c, "fail")
          /\ mode' = [mode EXCEPT ![c] = "idle"]
  /\ UNCHANGED <<unit, tx, handleErr, frames, log, store, leaked, skipped>>

\* A hook panics: callCallbacks rolls back at every level and panics again.
\* Transaction lets it through; a caller with a handle of its own recovers.
Panic(c) ==
  /\ At(c, "before") \/ At(c, "after")
  /\ ~Top(c).err
  /\ tx' = [tx EXCEPT ![c] = IF @ = "open" /\ Top(c).onTx THEN "rolledback" ELSE @]
  /\ stack' = [stack EXCEPT ![c] = [d \in 1 .. MaxDepth |-> Blank]]
  /\ depth' = [depth EXCEPT ![c] = 0]
  /\ IF mode[c] = "manual" THEN UNCHANGED <<mode, verdict>>
     ELSE /\ Report(c, "fail")
          /\ mode' = [mode EXCEPT ![c] = "idle"]
  /\ UNCHANGED <<unit, handleErr, frames, log, store, leaked, skipped>>

-----------------------------------------------------------------------------
(* The caller: operations on the shared handle and its own transactions.   *)

\* The handle may carry an error already: every clone inherits it.
StartOp(c) ==
  /\ mode[c] = "idle" /\ NewUnit(c)
  /\ \E kind \in Ops, err \in BOOLEAN :
       stack' = [stack EXCEPT ![c][1] = NewFrame(kind, err, FALSE, 1)]
  /\ mode' = [mode EXCEPT ![c] = "op"]
  /\ tx' = [tx EXCEPT ![c] = "none"]
  /\ depth' = [depth EXCEPT ![c] = 1]
  /\ frames' = [frames EXCEPT ![c] = 1]
  /\ UNCHANGED <<handleErr, log, store, verdict, skipped>>

\* BeginTx, called directly ("manual") or by Transaction ("block"); neither
\* looks at the error, so after a failure the handle holds a nil *sql.Tx.
UserBegin(c) ==
  /\ mode[c] = "idle" /\ NewUnit(c)
  /\ \E m \in {"manual", "block"} : mode' = [mode EXCEPT ![c] = m]
  /\ FreeConn
  /\ \/ /\ tx' = [tx EXCEPT ![c] = "open"]
        /\ \E err \in BOOLEAN : handleErr' = [handleErr EXCEPT ![c] = err]
     \/ /\ tx' = [tx EXCEPT ![c] = "nil"]
        /\ handleErr' = [handleErr EXCEPT ![c] = TRUE]
  /\ frames' = [frames EXCEPT ![c] = 0]
  /\ UNCHANGED <<stack, depth, log, store, verdict, skipped>>

UserIdle(c) == InUserTx(c) /\ depth[c] = 0

\* DB.Transaction called on a transaction only calls its function, on the same
\* handle, and has no step of its own.
UserOp(c) ==
  /\ UserIdle(c)
  /\ \E kind \in Ops : Push(c, kind, handleErr[c], TRUE)
  /\ UNCHANGED <<userVars, tx, log, store, skipped>>

\* DB.AddError is public: the caller may mark the transaction's handle.
UserAddError(c) ==
  /\ "addError" \in Quirks /\ UserIdle(c) /\ ~handleErr[c]
  /\ handleErr' = [handleErr EXCEPT ![c] = TRUE]
  /\ UNCHANGED <<mode, unit, tx, stack, depth, frames, log, store, verdict,
                 leaked, skipped>>

\* DB.Commit: the handle's Error decides what the caller is told, but not
\* whether the sql.Tx is committed.
CommitTx(c) ==
  \/ /\ tx[c] = "open"
     /\ store' = store \cup Written(c, unit[c])
     /\ tx' = [tx EXCEPT ![c] = "committed"]
     /\ Report(c, Verdict(handleErr[c]))
     /\ UNCHANGED handleErr
  \/ /\ tx' = [tx EXCEPT ![c] = IF @ = "open" THEN "rolledback" ELSE @]
     /\ handleErr' = [handleErr EXCEPT ![c] = TRUE]
     /\ Report(c, "fail")
     /\ UNCHANGED store

\* DB.Rollback and DB.RollbackUnlessCommitted: ErrTxDone is not an error, but
\* one the driver returns is; the transaction is over all the same.
RollbackTx(c) ==
  /\ tx' = [tx EXCEPT ![c] = IF @ = "open" THEN "rolledback" ELSE @]
  /\ \E e \in {FALSE, tx[c] = "open"} :
       handleErr' = [handleErr EXCEPT ![c] = @ \/ tx[c] = "nil" \/ e]
  /\ Report(c, "fail")
  /\ UNCHANGED store

UserCommit(c) ==
  /\ mode[c] = "manual" /\ UserIdle(c)
  /\ CommitTx(c)
  /\ UNCHANGED <<mode, unit, stack, depth, frames, log, leaked, skipped>>

\* Afterwards the caller may go on using the handle, or drop it.
UserRollback(c) ==
  /\ mode[c] = "manual" /\ UserIdle(c)
  /\ RollbackTx(c)
  /\ \E m \in {"manual", "idle"} : mode' = [mode EXCEPT ![c] = m]
  /\ UNCHANGED <<unit, stack, depth, frames, log, leaked, skipped>>

\* The end of DB.Transaction: its function returned nil; or an error or a panic.
BlockReturns(c) ==
  /\ mode[c] = "block" /\ UserIdle(c)
  /\ CommitTx(c) \/ RollbackTx(c)
  /\ mode' = [mode EXCEPT ![c] = "idle"]
  /\ UNCHANGED <<unit, stack, depth, frames, log, leaked, skipped>>

-----------------------------------------------------------------------------
Init ==
  /\ mode = [c \in Clients |-> "idle"]
  /\ unit = [c \in Clients |-> 0]
  /\ tx = [c \in Clients |-> "none"]
  /\ handleErr = [c \in Clients |-> FALSE]
  /\ stack = [c \in Clients |-> [d \in 1 .. MaxDepth |-> Blank]]
  /\ depth = [c \in Clients |-> 0]
  /\ frames = [c \in Clients |-> 0]
  /\ log = {} /\ store = {}
  /\ verdict = [c \in Clients |-> [u \in Units |-> "none"]]
  /\ leaked = {} /\ skipped = {}

Callback(c) ==
  \/ Assign(c) \/ JoinTx(c) \/ BeginOwn(c) \/ BeginFails(c)
  \/ Hook(c) \/ HookSkips(c) \/ Panic(c)
  \/ SaveAssociation(c) \/ AssociationsDone(c)
  \/ Write(c) \/ WriteFails(c) \/ WriteSkipped(c)
  \/ CommitOwn(c) \/ CommitOwnFails(c) \/ RollbackOwn(c) \/ LeaveTx(c)
  \/ ReturnNested(c) \/ ReturnToUserTx(c) \/ ReturnOp(c)
  \/ SaveFallbackInTx(c) \/ SaveFallbackOp(c)

UserEnds(c) == UserRollback(c) \/ BlockReturns(c)

User(c) ==
  \/ StartOp(c) \/ UserBegin(c) \/ UserOp(c) \/ UserAddError(c)
  \/ UserCommit(c) \/ UserEnds(c)

Next == \E c \in Clients : Callback(c) \/ User(c)

\* A goroutine inside an operation is scheduled, its statements are answered,
\* and a caller that opened a transaction ends it (its function returns).
Fairness == \A c \in Clients : WF_vars(Callback(c)) /\ WF_vars(UserEnds(c))

Spec == Init /\ [][Next]_vars /\ Fairness

-----------------------------------------------------------------------------
(* Properties.                                                             *)

\* The types of the variables.
TypeOK ==
  /\ mode \in [Clients -> {"idle", "op", "manual", "block"}]
  /\ unit \in [Clients -> 0 .. MaxUnits]
  /\ tx \in [Clients -> {"none", "nil", "open", "committed", "rolledback"}]
  /\ handleErr \in [Clients -> BOOLEAN]
  /\ stack \in [Clients -> [1 .. MaxDepth -> Frame]]
  /\ depth \in [Clients -> 0 .. MaxDepth]
  /\ frames \in [Clients -> 0 .. MaxFrames]
  /\ log \subseteq Rows /\ store \subseteq log
  /\ verdict \in [Clients -> [Units -> {"none", "ok", "fail"}]]
  /\ leaked \subseteq Clients \X Units /\ skipped \subseteq Clients \X Units

\* The rows of one operation, its associations' included, or of one caller
\* transaction, are visible together or not at all (scope.CommitOrRollback).
AllOrNothing ==
  \A c \in Clients, u \in Units :
    Written(c, u) \subseteq store \/ Written(c, u) \cap store = {}

\* When a unit is over its connection is back in the pool, whatever failed or
\* panicked at whatever depth; only a hook's SkipLeft can lose it.
NoLeak ==
  /\ leaked \subseteq skipped
  /\ \A c \in Clients : mode[c] = "idle" /\ tx[c] = "open" => <<c, unit[c]>> \in skipped

\* No statement of a chain ever runs outside a transaction, where it would
\* commit by itself: a Begin that failed leaves an error that blocks them all.
WritesInTx ==
  \A c \in Clients : At(c, "write") /\ ~Top(c).err => Top(c).onTx

\* A transaction is ended by whoever began it: while it is open an operation
\* inside a caller's transaction, and an association saved inside an
\* operation's, go on to their end without ending it.  Only a panic, which
\* empties the stack, ends it from inside.
StarterEnds ==
  [][\A c \in Clients :
       tx[c] = "open" /\ tx'[c] # "open" /\ depth[c] > 0 /\ depth'[c] > 0 =>
         \/ unit'[c] # unit[c]
         \/ ~InUserTx(c) /\ \A d \in 1 .. depth[c] - 1 : ~stack[c][d].onTx]_vars

HasError(c) == \E d \in 1 .. depth[c] : stack[c][d].err

\* An error of any callback, or of an association saved at any depth, stays with
\* the operation on its way down to the scope that began the transaction, until
\* the caller is told; nothing of the operation is published then (scope.Err,
\* CommitOrRollback).
ErrorsReachCaller ==
  [][\A c \in Clients : mode[c] = "op" /\ HasError(c) =>
       \/ HasError(c)' /\ mode'[c] = "op" /\ unit'[c] = unit[c]
       \/ /\ mode'[c] = "idle" /\ verdict'[c][unit[c]] = "fail"
          /\ Written(c, unit[c]) \cap store' = {}]_vars

\* Every operation and every transaction that began comes to its end: nobody
\* waits forever for a connection of the pool, unless a hook skipped the end of
\* a transaction.
EveryUnitEnds == \A c \in Clients : mode[c] # "idle" ~> mode[c] = "idle" \/ skipped # {}

-----------------------------------------------------------------------------
(* OpTransaction implements AtomicStore.                                   *)

Work(c) == IF mode[c] = "idle" THEN {} ELSE Written(c, unit[c])

Status(c) ==
  IF mode[c] = "idle" THEN "idle"
  ELSE IF Work(c) = {} THEN "busy"
  ELSE CASE tx[c] = "committed"  -> "applied"
         [] tx[c] = "rolledback" -> "dropped"
         [] OTHER                -> "busy"

Told(c) == IF unit[c] = 0 THEN "none" ELSE verdict[c][unit[c]]

Abstract == INSTANCE AtomicStore WITH
  work   <- [c \in Clients |-> Work(c)],
  status <- [c \in Clients |-> Status(c)],
  told   <- [c \in Clients |-> Told(c)]

\* Every step of the callback machinery is a step of the atomic store, or none
\* that its callers can tell.
ImplementsAtomicStore == Abstract!Spec
=============================================================================
