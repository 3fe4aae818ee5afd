------------------------ MODULE OpTransaction_proofs ------------------------
(***************************************************************************)
(* Proofs about OpTransaction, for any number of clients and connections   *)
(* and any bounds: its invariants, and then that an error of a callback    *)
(* reaches the caller of the operation, that a transaction is ended by     *)
(* whoever began it, and that the callback chains implement AtomicStore    *)
(* when no user code skips them or marks a handle.                         *)
(***************************************************************************)
EXTENDS OpTransaction, TLAPS

\* Every chain of callbacks stays within the listed steps.
LEMMA StepTypes ==
  ASSUME NEW kind \in Kinds, NEW pc \in Steps
  PROVE  /\ NextStep(kind, pc) \in Steps
         /\ FirstStep(kind) \in Steps
  BY DEF NextStep, FirstStep, Kinds, Steps

\* Scopes are well formed when they are made, advance or change a field.
LEMMA BlankType == Blank \in Frame
  BY BoundsAssumption DEF Blank, Frame, Kinds, Steps

LEMMA AdvanceType ==
  ASSUME NEW f \in Frame
  PROVE  Advance(f) \in Frame
  BY StepTypes DEF Advance, Frame

LEMMA NewFrameType ==
  ASSUME NEW kind \in Kinds, NEW err \in BOOLEAN, NEW onTx \in BOOLEAN,
         NEW key \in 1 .. MaxFrames
  PROVE  NewFrame(kind, err, onTx, key) \in Frame
  BY StepTypes DEF NewFrame, Frame, Steps, Kinds, FirstStep

LEMMA FieldTypes ==
  ASSUME NEW f \in Frame, NEW e \in BOOLEAN, NEW t \in BOOLEAN, NEW o \in BOOLEAN
  PROVE  /\ [f EXCEPT !.err = e] \in Frame
         /\ [f EXCEPT !.pc = "done"] \in Frame
         /\ [f EXCEPT !.err = e, !.pc = "done"] \in Frame
         /\ [f EXCEPT !.onTx = t, !.own = o] \in Frame
         /\ [f EXCEPT !.onTx = t, !.own = o, !.err = e] \in Frame
  BY DEF Frame, Steps

LEMMA FallbackType ==
  ASSUME NEW f \in Frame, NEW ff \in BOOLEAN, NEW t \in BOOLEAN,
         NEW key \in 1 .. MaxFrames
  PROVE  Fallback(f, ff, key, t) \in Frame
<1>1. CASE ff
  BY <1>1 DEF Fallback, Frame, Kinds
<1>2. CASE ~ff
  BY <1>2, NewFrameType DEF Fallback, Kinds
<1> QED BY <1>1, <1>2

\* The running scope of a client is a frame.
LEMMA TopType ==
  ASSUME TypeOK, NEW c \in Clients, depth[c] > 0
  PROVE  Top(c) \in Frame /\ Advance(Top(c)) \in Frame
<1>1. Top(c) \in Frame
  BY BoundsAssumption DEF TypeOK, Top
<1> QED BY <1>1, AdvanceType

\* Putting a frame on top keeps the stacks well formed.
LEMMA SetTopType ==
  ASSUME TypeOK, NEW c \in Clients, depth[c] > 0, NEW f \in Frame, SetTop(c, f)
  PROVE  stack' \in [Clients -> [1 .. MaxDepth -> Frame]]
  BY BoundsAssumption DEF TypeOK, SetTop

\* Every callback that changes only the running scope puts a frame in its place.
LEMMA TopChanges ==
  ASSUME TypeOK, NEW c \in Clients,
         \/ Assign(c) \/ JoinTx(c) \/ BeginOwn(c) \/ BeginFails(c) \/ Hook(c)
         \/ HookSkips(c) \/ AssociationsDone(c) \/ Write(c) \/ WriteFails(c)
         \/ WriteSkipped(c) \/ CommitOwn(c) \/ CommitOwnFails(c)
         \/ RollbackOwn(c) \/ LeaveTx(c) \/ ReturnToUserTx(c) \/ ReturnOp(c)
         \/ SaveFallbackInTx(c) \/ SaveFallbackOp(c)
  PROVE  depth[c] > 0 /\ \E f \in Frame : SetTop(c, f)
<1>1. depth[c] > 0
  BY DEF Assign, JoinTx, BeginOwn, BeginFails, Hook, HookSkips, AssociationsDone,
         Write, WriteFails, WriteSkipped, CommitOwn, CommitOwnFails, RollbackOwn,
         LeaveTx, ReturnToUserTx, ReturnOp, SaveFallbackInTx, SaveFallbackOp, NoRowsAffected, At
<1>2. Top(c) \in Frame /\ Advance(Top(c)) \in Frame
  BY <1>1, TopType
<1>3. TRUE \in BOOLEAN /\ FALSE \in BOOLEAN
  OBVIOUS
<1>4. CASE Assign(c)
  BY <1>4, <1>1, <1>2, <1>3, FieldTypes DEF Assign
<1>5. CASE JoinTx(c)
  BY <1>5, <1>1, <1>2, <1>3 DEF JoinTx
<1>6. CASE BeginOwn(c)
  BY <1>6, <1>1, <1>2, <1>3, FieldTypes, AdvanceType DEF BeginOwn
<1>7. CASE BeginFails(c)
  BY <1>7, <1>1, <1>2, <1>3, FieldTypes, AdvanceType DEF BeginFails
<1>8. CASE Hook(c)
  BY <1>8, <1>1, <1>2, <1>3, FieldTypes, AdvanceType DEF Hook
<1>9. CASE HookSkips(c)
  BY <1>9, <1>1, <1>2, <1>3, FieldTypes DEF HookSkips
<1>10. CASE AssociationsDone(c)
  BY <1>10, <1>1, <1>2, <1>3 DEF AssociationsDone
<1>11. CASE Write(c)
  BY <1>11, <1>1, <1>2, <1>3 DEF Write
<1>12. CASE WriteFails(c)
  BY <1>12, <1>1, <1>2, <1>3, FieldTypes, AdvanceType DEF WriteFails
<1>13. CASE WriteSkipped(c)
  BY <1>13, <1>1, <1>2, <1>3 DEF WriteSkipped
<1>14. CASE CommitOwn(c)
  BY <1>14, <1>1, <1>2, <1>3, FieldTypes, AdvanceType DEF CommitOwn
<1>15. CASE CommitOwnFails(c)
  BY <1>15, <1>1, <1>2, <1>3, FieldTypes, AdvanceType DEF CommitOwnFails
<1>16. CASE RollbackOwn(c)
  BY <1>16, <1>1, <1>2, <1>3, FieldTypes, AdvanceType DEF RollbackOwn
<1>17. CASE LeaveTx(c)
  BY <1>17, <1>1, <1>2, <1>3 DEF LeaveTx
<1>18. CASE ReturnToUserTx(c)
  BY <1>18, <1>1, <1>2, <1>3, BlankType DEF ReturnToUserTx
<1>19. CASE ReturnOp(c)
  BY <1>19, <1>1, <1>2, <1>3, BlankType DEF ReturnOp
<1>20. CASE SaveFallbackInTx(c)
  <2>1. frames[c] + 1 \in 1 .. MaxFrames
    BY <1>20, BoundsAssumption DEF SaveFallbackInTx, TypeOK
  <2>2. depth[c] > 1 => stack[c][depth[c] - 1].onTx \in BOOLEAN
    BY BoundsAssumption DEF TypeOK, Frame
  <2>3. PICK ff \in BOOLEAN, t \in BOOLEAN : SetTop(c, Fallback(Top(c), ff, frames[c] + 1, t))
    BY <1>20, <2>2 DEF SaveFallbackInTx
  <2> QED BY <1>1, <1>2, <2>1, <2>3, FallbackType
<1>21. CASE SaveFallbackOp(c)
  <2>1. 1 \in 1 .. MaxFrames
    BY BoundsAssumption
  <2>2. PICK ff \in BOOLEAN : SetTop(c, Fallback(Top(c), ff, 1, FALSE))
    BY <1>21 DEF SaveFallbackOp
  <2> QED BY <1>1, <1>2, <1>3, <2>1, <2>2, FallbackType
<1> QED BY <1>4, <1>5, <1>6, <1>7, <1>8, <1>9, <1>10, <1>11, <1>12, <1>13, <1>14, <1>15, <1>16, <1>17, <1>18, <1>19, <1>20, <1>21

\* A client has scopes only inside a unit, and units are counted from one.
Busy ==
  \A c \in Clients :
    /\ mode[c] = "idle" => depth[c] = 0
    /\ mode[c] # "idle" => unit[c] > 0
    /\ tx[c] = "open" => unit[c] > 0

\* A statement's row is one of the rows of the running unit.
LEMMA RowType ==
  ASSUME TypeOK, Busy, NEW c \in Clients, depth[c] > 0
  PROVE  /\ unit[c] \in Units
         /\ <<c, unit[c], Top(c).key>> \in Rows
<1>0. mode[c] # "idle" /\ unit[c] > 0
  BY DEF TypeOK, Busy
<1>1. unit[c] \in Units
  BY <1>0, BoundsAssumption DEF TypeOK, Units
<1>2. Top(c).key \in 1 .. MaxFrames
  BY TopType DEF Frame
<1> QED BY <1>1, <1>2 DEF Rows

\* Pushing a scope keeps the stacks well formed.
LEMMA PushTypes ==
  ASSUME TypeOK, NEW c \in Clients, NEW kind \in Kinds, NEW err \in BOOLEAN,
         NEW onTx \in BOOLEAN, Push(c, kind, err, onTx)
  PROVE  /\ stack' \in [Clients -> [1 .. MaxDepth -> Frame]]
         /\ frames' \in [Clients -> 0 .. MaxFrames]
         /\ depth' \in [Clients -> 0 .. MaxDepth]
<1> USE BoundsAssumption
<1>1. frames[c] + 1 \in 1 .. MaxFrames /\ depth[c] + 1 \in 1 .. MaxDepth
  BY DEF Push, TypeOK
<1>2. NewFrame(kind, err, onTx, frames[c] + 1) \in Frame
  BY <1>1, NewFrameType
<1>3. stack' \in [Clients -> [1 .. MaxDepth -> Frame]]
  BY <1>1, <1>2 DEF Push, TypeOK
<1>4. frames' \in [Clients -> 0 .. MaxFrames]
  BY <1>1 DEF Push, TypeOK
<1>5. depth' \in [Clients -> 0 .. MaxDepth]
  BY <1>1 DEF Push, TypeOK
<1> QED BY <1>3, <1>4, <1>5

LEMMA CallbackTypes ==
  ASSUME TypeOK, Busy, NEW c \in Clients, Callback(c)
  PROVE  TypeOK'
<1> USE BoundsAssumption
<1>1. CASE Assign(c)
  <2>1. depth[c] > 0 /\ stack' \in [Clients -> [1 .. MaxDepth -> Frame]]
    BY <1>1, TopChanges, SetTopType
  <2> QED BY <1>1, <2>1 DEF Assign, TypeOK, userVars
<1>2. CASE JoinTx(c)
  <2>1. depth[c] > 0 /\ stack' \in [Clients -> [1 .. MaxDepth -> Frame]]
    BY <1>2, TopChanges, SetTopType
  <2> QED BY <1>2, <2>1 DEF JoinTx, TypeOK, userVars
<1>3. CASE BeginOwn(c)
  <2>1. depth[c] > 0 /\ stack' \in [Clients -> [1 .. MaxDepth -> Frame]]
    BY <1>3, TopChanges, SetTopType
  <2> QED BY <1>3, <2>1 DEF BeginOwn, TypeOK, userVars
<1>4. CASE BeginFails(c)
  <2>1. depth[c] > 0 /\ stack' \in [Clients -> [1 .. MaxDepth -> Frame]]
    BY <1>4, TopChanges, SetTopType
  <2> QED BY <1>4, <2>1 DEF BeginFails, TypeOK, userVars
<1>5. CASE Hook(c)
  <2>1. depth[c] > 0 /\ stack' \in [Clients -> [1 .. MaxDepth -> Frame]]
    BY <1>5, TopChanges, SetTopType
  <2> QED BY <1>5, <2>1 DEF Hook, TypeOK, userVars
<1>6. CASE AssociationsDone(c)
  <2>1. depth[c] > 0 /\ stack' \in [Clients -> [1 .. MaxDepth -> Frame]]
    BY <1>6, TopChanges, SetTopType
  <2> QED BY <1>6, <2>1 DEF AssociationsDone, TypeOK, userVars
<1>7. CASE WriteFails(c)
  <2>1. depth[c] > 0 /\ stack' \in [Clients -> [1 .. MaxDepth -> Frame]]
    BY <1>7, TopChanges, SetTopType
  <2> QED BY <1>7, <2>1 DEF WriteFails, TypeOK, userVars
<1>8. CASE WriteSkipped(c)
  <2>1. depth[c] > 0 /\ stack' \in [Clients -> [1 .. MaxDepth -> Frame]]
    BY <1>8, TopChanges, SetTopType
  <2> QED BY <1>8, <2>1 DEF WriteSkipped, TypeOK, userVars
<1>9. CASE CommitOwnFails(c)
  <2>1. depth[c] > 0 /\ stack' \in [Clients -> [1 .. MaxDepth -> Frame]]
    BY <1>9, TopChanges, SetTopType
  <2> QED BY <1>9, <2>1 DEF CommitOwnFails, TypeOK, userVars
<1>10. CASE RollbackOwn(c)
  <2>1. depth[c] > 0 /\ stack' \in [Clients -> [1 .. MaxDepth -> Frame]]
    BY <1>10, TopChanges, SetTopType
  <2> QED BY <1>10, <2>1 DEF RollbackOwn, TypeOK, userVars
<1>11. CASE LeaveTx(c)
  <2>1. depth[c] > 0 /\ stack' \in [Clients -> [1 .. MaxDepth -> Frame]]
    BY <1>11, TopChanges, SetTopType
  <2> QED BY <1>11, <2>1 DEF LeaveTx, TypeOK, userVars
<1>12. CASE HookSkips(c)
  <2>1. depth[c] > 0 /\ stack' \in [Clients -> [1 .. MaxDepth -> Frame]]
    BY <1>12, TopChanges, SetTopType
  <2>0. unit[c] \in Units
    BY <2>1, RowType
  <2>2. skipped' \subseteq Clients \X Units
    BY <1>12, <2>0 DEF HookSkips, TypeOK
  <2> QED BY <1>12, <2>1, <2>2 DEF HookSkips, TypeOK, userVars
<1>13. CASE Write(c)
  <2>1. depth[c] > 0 /\ stack' \in [Clients -> [1 .. MaxDepth -> Frame]]
    BY <1>13, TopChanges, SetTopType
  <2>2. log' \subseteq Rows /\ store' \subseteq log' /\ log \subseteq log'
    BY <1>13, <2>1, RowType DEF Write, TypeOK
  <2> QED BY <1>13, <2>1, <2>2 DEF Write, TypeOK, userVars
<1>14. CASE CommitOwn(c)
  <2>1. depth[c] > 0 /\ stack' \in [Clients -> [1 .. MaxDepth -> Frame]]
    BY <1>14, TopChanges, SetTopType
  <2>2. store' \subseteq log
    BY <1>14 DEF CommitOwn, TypeOK, Written
  <2> QED BY <1>14, <2>1, <2>2 DEF CommitOwn, TypeOK, userVars
<1>15. CASE ReturnToUserTx(c)
  <2>1. depth[c] > 0 /\ stack' \in [Clients -> [1 .. MaxDepth -> Frame]]
    BY <1>15, TopChanges, SetTopType
  <2>2. depth' \in [Clients -> 0 .. MaxDepth]
    BY <1>15 DEF ReturnToUserTx, TypeOK
  <2> QED BY <1>15, <2>1, <2>2 DEF ReturnToUserTx, TypeOK, userVars
<1>16. CASE ReturnOp(c)
  <2>1. depth[c] > 0 /\ stack' \in [Clients -> [1 .. MaxDepth -> Frame]]
    BY <1>16, TopChanges, SetTopType
  <2>2. depth' \in [Clients -> 0 .. MaxDepth]
    BY <1>16 DEF ReturnOp, TypeOK
  <2>3. verdict' \in [Clients -> [Units -> {"none", "ok", "fail"}]]
    BY <1>16 DEF ReturnOp, TypeOK, Report, Verdict
  <2> QED BY <1>16, <2>1, <2>2, <2>3 DEF ReturnOp, TypeOK
<1>17. CASE SaveFallbackInTx(c)
  <2>1. depth[c] > 0 /\ stack' \in [Clients -> [1 .. MaxDepth -> Frame]]
    BY <1>17, TopChanges, SetTopType
  <2>2. frames' \in [Clients -> 0 .. MaxFrames]
    BY <1>17 DEF SaveFallbackInTx, TypeOK
  <2> QED BY <1>17, <2>1, <2>2 DEF SaveFallbackInTx, TypeOK, userVars
<1>18. CASE SaveFallbackOp(c)
  <2>1. depth[c] > 0 /\ stack' \in [Clients -> [1 .. MaxDepth -> Frame]]
    BY <1>18, TopChanges, SetTopType
  <2>2. frames' \in [Clients -> 0 .. MaxFrames]
    BY <1>18 DEF SaveFallbackOp, TypeOK
  <2>3. verdict' \in [Clients -> [Units -> {"none", "ok", "fail"}]]
    BY <1>18 DEF SaveFallbackOp, TypeOK, Report
  <2>4. unit' \in [Clients -> 0 .. MaxUnits]
    BY <1>18 DEF SaveFallbackOp, TypeOK, NewUnit
  <2>0. unit[c] \in Units
    BY <2>1, RowType
  <2>5. leaked' \subseteq Clients \X Units
    BY <1>18, <2>0 DEF SaveFallbackOp, TypeOK, NewUnit
  <2>6. tx' \in [Clients -> {"none", "nil", "open", "committed", "rolledback"}]
    BY <1>18 DEF SaveFallbackOp, TypeOK
  <2> QED BY <1>18, <2>1, <2>2, <2>3, <2>4, <2>5, <2>6 DEF SaveFallbackOp, TypeOK
<1>19. CASE Panic(c)
  <2>1. stack' \in [Clients -> [1 .. MaxDepth -> Frame]]
    BY <1>19, BlankType DEF Panic, TypeOK
  <2>2. depth' \in [Clients -> 0 .. MaxDepth]
    BY <1>19 DEF Panic, TypeOK
  <2>3. tx' \in [Clients -> {"none", "nil", "open", "committed", "rolledback"}]
    BY <1>19 DEF Panic, TypeOK
  <2>4. verdict' \in [Clients -> [Units -> {"none", "ok", "fail"}]]
    <3>1. CASE mode[c] = "manual"
      BY <1>19, <3>1 DEF Panic, TypeOK
    <3>2. CASE mode[c] # "manual"
      <4>1. Report(c, "fail")
        BY <1>19, <3>2 DEF Panic
      <4> QED BY <4>1 DEF Report, TypeOK
    <3> QED BY <3>1, <3>2
  <2>5. mode' \in [Clients -> {"idle", "op", "manual", "block"}]
    BY <1>19 DEF Panic, TypeOK
  <2> QED BY <1>19, <2>1, <2>2, <2>3, <2>4, <2>5 DEF Panic, TypeOK
<1>20. CASE SaveAssociation(c)
  <2>1. depth[c] > 0 /\ Top(c).err \in BOOLEAN /\ Top(c).onTx \in BOOLEAN
    BY <1>20, TopType DEF SaveAssociation, At, Frame
  <2>2. PICK kind \in Kinds : Push(c, kind, Top(c).err, Top(c).onTx)
    BY <1>20 DEF SaveAssociation, Kinds
  <2>3. /\ stack' \in [Clients -> [1 .. MaxDepth -> Frame]]
        /\ frames' \in [Clients -> 0 .. MaxFrames]
        /\ depth' \in [Clients -> 0 .. MaxDepth]
    BY <2>1, <2>2, PushTypes
  <2> QED BY <1>20, <2>3 DEF SaveAssociation, TypeOK, userVars
<1>21. CASE ReturnNested(c)
  <2>1. depth[c] \in 1 .. MaxDepth /\ depth[c] - 1 \in 1 .. MaxDepth
    BY <1>21 DEF ReturnNested, TypeOK
  <2>a. depth[c] > 0 /\ Top(c) \in Frame
    BY <2>1, TopType
  <2>2. /\ stack[c][depth[c] - 1] \in Frame
        /\ Top(c).err \in BOOLEAN
    BY <2>1, <2>a DEF TypeOK, Frame
  <2>3. AddErr(stack[c][depth[c] - 1], Top(c).err) \in Frame
    BY <2>2 DEF AddErr, Frame
  <2>4. stack' \in [Clients -> [1 .. MaxDepth -> Frame]]
    BY <1>21, <2>1, <2>3, BlankType DEF ReturnNested, TypeOK
  <2>5. depth' \in [Clients -> 0 .. MaxDepth]
    BY <1>21 DEF ReturnNested, TypeOK
  <2> QED BY <1>21, <2>4, <2>5 DEF ReturnNested, TypeOK, userVars
<1> QED BY <1>1, <1>2, <1>3, <1>4, <1>5, <1>6, <1>7, <1>8, <1>9, <1>10, <1>11, <1>12, <1>13, <1>14, <1>15, <1>16, <1>17, <1>18, <1>19, <1>20, <1>21 DEF Callback

\* How a caller's commit or rollback types the variables it changes.
LEMMA EndTypes ==
  ASSUME TypeOK, NEW c \in Clients, unit[c] \in Units, CommitTx(c) \/ RollbackTx(c)
  PROVE  /\ tx' \in [Clients -> {"none", "nil", "open", "committed", "rolledback"}]
         /\ handleErr' \in [Clients -> BOOLEAN]
         /\ verdict' \in [Clients -> [Units -> {"none", "ok", "fail"}]]
         /\ store' \subseteq log
<1>1. tx' \in [Clients -> {"none", "nil", "open", "committed", "rolledback"}]
  <2>1. CASE CommitTx(c)
    BY <2>1 DEF CommitTx, TypeOK
  <2>2. CASE RollbackTx(c)
    BY <2>2 DEF RollbackTx, TypeOK
  <2> QED BY <2>1, <2>2
<1>2. handleErr' \in [Clients -> BOOLEAN]
  BY DEF CommitTx, RollbackTx, TypeOK
<1>3. PICK v \in {"ok", "fail"} : Report(c, v)
  BY DEF CommitTx, RollbackTx, Verdict
<1>4. verdict' \in [Clients -> [Units -> {"none", "ok", "fail"}]]
  BY <1>3 DEF Report, TypeOK
<1>5. store' \subseteq log
  BY DEF CommitTx, RollbackTx, TypeOK, Written
<1> QED BY <1>1, <1>2, <1>4, <1>5

\* A new unit is counted, and may leave the last one's transaction behind.
LEMMA NewUnitTypes ==
  ASSUME TypeOK, Busy, NEW c \in Clients, NewUnit(c)
  PROVE  /\ unit' \in [Clients -> 0 .. MaxUnits]
         /\ leaked' \subseteq Clients \X Units
<1>1. unit' \in [Clients -> 0 .. MaxUnits]
  BY BoundsAssumption DEF NewUnit, TypeOK
<1>2. tx[c] = "open" => unit[c] \in Units
  BY BoundsAssumption DEF TypeOK, Units, Busy
<1>3. leaked' \subseteq Clients \X Units
  BY <1>2 DEF NewUnit, TypeOK
<1> QED BY <1>1, <1>3

LEMMA UserTypes ==
  ASSUME TypeOK, Busy, NEW c \in Clients, User(c)
  PROVE  TypeOK'
<1> USE BoundsAssumption
<1>0. mode[c] # "idle" => unit[c] \in Units
  BY DEF TypeOK, Busy, Units
<1>1. CASE StartOp(c)
  <2>1. PICK kind \in Kinds, err \in BOOLEAN :
          stack' = [stack EXCEPT ![c][1] = NewFrame(kind, err, FALSE, 1)]
    BY <1>1, OpsAssumption DEF StartOp, Kinds
  <2>0. FALSE \in BOOLEAN /\ 1 \in 1 .. MaxFrames
    OBVIOUS
  <2>2. NewFrame(kind, err, FALSE, 1) \in Frame
    BY <2>0, NewFrameType
  <2>3. stack' \in [Clients -> [1 .. MaxDepth -> Frame]]
    BY <2>1, <2>2 DEF TypeOK
  <2>4. unit' \in [Clients -> 0 .. MaxUnits] /\ leaked' \subseteq Clients \X Units
    BY <1>1, NewUnitTypes DEF StartOp
  <2>5. frames' \in [Clients -> 0 .. MaxFrames] /\ depth' \in [Clients -> 0 .. MaxDepth]
    BY <1>1 DEF StartOp, TypeOK
  <2> QED BY <1>1, <2>3, <2>4, <2>5 DEF StartOp, TypeOK
<1>2. CASE UserBegin(c)
  <2>1. unit' \in [Clients -> 0 .. MaxUnits] /\ leaked' \subseteq Clients \X Units
    BY <1>2, NewUnitTypes DEF UserBegin
  <2>2. frames' \in [Clients -> 0 .. MaxFrames]
    BY <1>2 DEF UserBegin, TypeOK
  <2>3. tx' \in [Clients -> {"none", "nil", "open", "committed", "rolledback"}]
    BY <1>2 DEF UserBegin, TypeOK
  <2>4. handleErr' \in [Clients -> BOOLEAN]
    BY <1>2 DEF UserBegin, TypeOK
  <2>5. mode' \in [Clients -> {"idle", "op", "manual", "block"}]
    BY <1>2 DEF UserBegin, TypeOK
  <2> QED BY <1>2, <2>1, <2>2, <2>3, <2>4, <2>5 DEF UserBegin, TypeOK
<1>3. CASE UserOp(c)
  <2>1. PICK kind \in Kinds : Push(c, kind, handleErr[c], TRUE)
    BY <1>3, OpsAssumption DEF UserOp, Kinds
  <2>2. handleErr[c] \in BOOLEAN /\ TRUE \in BOOLEAN
    BY DEF TypeOK
  <2>3. /\ stack' \in [Clients -> [1 .. MaxDepth -> Frame]]
        /\ frames' \in [Clients -> 0 .. MaxFrames]
        /\ depth' \in [Clients -> 0 .. MaxDepth]
    BY <2>1, <2>2, PushTypes
  <2> QED BY <1>3, <2>3 DEF UserOp, TypeOK, userVars
<1>4. CASE UserAddError(c)
  BY <1>4 DEF UserAddError, TypeOK
<1>5. CASE UserCommit(c)
  BY <1>0, <1>5, EndTypes DEF UserCommit, TypeOK
<1>6. CASE UserRollback(c)
  <2>1. mode' \in [Clients -> {"idle", "op", "manual", "block"}]
    BY <1>6 DEF UserRollback, TypeOK
  <2>2. unit[c] \in Units
    BY <1>0, <1>6 DEF UserRollback
  <2> QED BY <1>6, <2>1, <2>2, EndTypes DEF UserRollback, TypeOK
<1>7. CASE BlockReturns(c)
  <2>1. mode' \in [Clients -> {"idle", "op", "manual", "block"}]
    BY <1>7 DEF BlockReturns, TypeOK
  <2>2. unit[c] \in Units
    BY <1>0, <1>7 DEF BlockReturns
  <2> QED BY <1>7, <2>1, <2>2, EndTypes DEF BlockReturns, TypeOK
<1> QED BY <1>1, <1>2, <1>3, <1>4, <1>5, <1>6, <1>7 DEF User, UserEnds

-----------------------------------------------------------------------------
(* The inductive invariant.                                                *)

Saving == {"assocBefore", "assocAfter"}

\* One scope: it owns only an open transaction; without a transaction it
\* carries an error; an outermost scope is in the caller's transaction or in
\* its own; one that finished with its own still open was made to skip.
ScopeInv(c, d, f) ==
  /\ f.own => f.onTx /\ tx[c] = "open" /\ f.pc \notin {"assign", "begin"}
  /\ ~f.onTx /\ f.pc \notin {"assign", "begin", "done"} => f.err
  /\ d = 1 => /\ InUserTx(c) => f.onTx /\ ~f.own
              /\ ~InUserTx(c) /\ f.onTx => f.own
  /\ d = 1 /\ f.own /\ f.pc = "done" => <<c, unit[c]>> \in skipped
  /\ d > 1 /\ f.own => f.pc # "done"

\* A scope f above a scope g that is saving an association: it shares g's
\* transaction; if g has none, g's error has come down to f.
NestInv(g, f) ==
  /\ g.pc \in Saving
  /\ g.onTx => f.onTx /\ ~f.own
  /\ ~g.onTx => f.err

\* A scope in a transaction that the scope below it is not in began it.
BeganInv(g, f) == ~g.onTx /\ f.onTx => f.own

\* The running scope, when it is in no transaction: none is open.
TopInv(c, d, f) ==
  ~f.onTx => /\ tx[c] # "open"
             /\ d > 1 \/ f.pc # "done" => tx[c] \in {"none", "rolledback"}

StackInv(c) ==
  /\ \A d \in 1 .. MaxDepth : d <= depth[c] => ScopeInv(c, d, stack[c][d])
  /\ \A d, e \in 1 .. MaxDepth :
       e < d /\ d <= depth[c] => NestInv(stack[c][e], stack[c][d])
  /\ \A d \in 1 .. MaxDepth :
       1 < d /\ d <= depth[c] => BeganInv(stack[c][d - 1], stack[c][d])
  /\ depth[c] > 0 => TopInv(c, depth[c], Top(c))

\* The running unit's rows are where its transaction says they are.
RowsInv(c) ==
  /\ tx[c] \in {"none", "nil"} => Written(c, unit[c]) = {}
  /\ tx[c] \in {"open", "rolledback"} => Written(c, unit[c]) \cap store = {}
  /\ tx[c] = "committed" => Written(c, unit[c]) \subseteq store

OneOrNone(c) ==
  \A u \in Units : Written(c, u) \subseteq store \/ Written(c, u) \cap store = {}

Past(c) == \A r \in log : r[1] = c => r[2] <= unit[c]

LeakInv(c) ==
  /\ \A u \in Units : <<c, u>> \in leaked => <<c, u>> \in skipped
  /\ mode[c] = "idle" /\ tx[c] = "open" => <<c, unit[c]>> \in skipped

ClientInv(c) == StackInv(c) /\ RowsInv(c) /\ OneOrNone(c) /\ Past(c) /\ LeakInv(c)

IInv == TypeOK /\ Busy /\ \A c \in Clients : ClientInv(c)

-----------------------------------------------------------------------------
(* The stack of scopes.                                                    *)

LEMMA AdvanceFields ==
  ASSUME NEW f \in Frame
  PROVE  /\ Advance(f).err = f.err /\ Advance(f).onTx = f.onTx
         /\ Advance(f).own = f.own /\ Advance(f).kind = f.kind
         /\ Advance(f).pc = NextStep(f.kind, f.pc)
  BY DEF Advance, Frame

\* What SetTop leaves where it was.
LEMMA SetTopAt ==
  ASSUME TypeOK, NEW c \in Clients, depth[c] > 0, NEW f, SetTop(c, f)
  PROVE  /\ stack'[c][depth[c]] = f
         /\ \A d \in 1 .. MaxDepth : d # depth[c] => stack'[c][d] = stack[c][d]
         /\ \A x \in Clients : x # c => stack'[x] = stack[x]
  BY BoundsAssumption DEF TypeOK, SetTop

\* A callback that replaces the running scope by f keeps the stack in order
\* when f is in order and nobody below f owned what it ended.
LEMMA TopStep ==
  ASSUME TypeOK, NEW c \in Clients, depth[c] > 0, StackInv(c),
         NEW f \in Frame, SetTop(c, f),
         depth'[c] = depth[c], mode'[c] = mode[c], unit'[c] = unit[c],
         skipped \subseteq skipped',
         ScopeInv(c, depth[c], f)',
         \A e \in 1 .. MaxDepth : e < depth[c] => NestInv(stack[c][e], f),
         depth[c] > 1 => BeganInv(stack[c][depth[c] - 1], f),
         TopInv(c, depth[c], f)',
         \A e \in 1 .. MaxDepth : e < depth[c] /\ stack[c][e].own => tx'[c] = "open"
  PROVE  StackInv(c)'
<1> USE BoundsAssumption
<1>0. depth[c] \in 1 .. MaxDepth
  BY DEF TypeOK
<1>1. stack'[c][depth[c]] = f /\ \A d \in 1 .. MaxDepth : d # depth[c] => stack'[c][d] = stack[c][d]
  BY SetTopAt
<1>2. ASSUME NEW d \in 1 .. MaxDepth, d <= depth'[c]
      PROVE  ScopeInv(c, d, stack[c][d])'
  <2>1. CASE d = depth[c]
    BY <1>1, <2>1
  <2>2. CASE d # depth[c]
    <3>1. d < depth[c] /\ stack'[c][d] = stack[c][d]
      BY <1>0, <1>1, <1>2, <2>2
    <3>2. ScopeInv(c, d, stack[c][d])
      BY <3>1, <1>0 DEF StackInv
    <3>3. stack[c][d].own => tx'[c] = "open"
      BY <3>1
    <3> QED BY <3>1, <3>2, <3>3 DEF ScopeInv, InUserTx
  <2> QED BY <2>1, <2>2
<1>3. ASSUME NEW d \in 1 .. MaxDepth, NEW e \in 1 .. MaxDepth, e < d, d <= depth'[c]
      PROVE  NestInv(stack[c][e], stack[c][d])'
  <2>1. e # depth[c] /\ stack'[c][e] = stack[c][e]
    BY <1>0, <1>1, <1>3
  <2>2. CASE d = depth[c]
    BY <1>1, <1>3, <2>1, <2>2 DEF NestInv
  <2>3. CASE d # depth[c]
    BY <1>0, <1>1, <1>3, <2>1, <2>3 DEF NestInv, StackInv
  <2> QED BY <2>2, <2>3
<1>4. ASSUME NEW d \in 1 .. MaxDepth, 1 < d, d <= depth'[c]
      PROVE  BeganInv(stack[c][d - 1], stack[c][d])'
  <2>1. d - 1 \in 1 .. MaxDepth /\ d - 1 # depth[c] /\ stack'[c][d - 1] = stack[c][d - 1]
    BY <1>0, <1>1, <1>4
  <2>2. CASE d = depth[c]
    BY <1>1, <1>4, <2>1, <2>2 DEF BeganInv
  <2>3. CASE d # depth[c]
    BY <1>0, <1>1, <1>4, <2>1, <2>3 DEF BeganInv, StackInv
  <2> QED BY <2>2, <2>3
<1>5. TopInv(c, depth[c], Top(c))'
  BY <1>1 DEF Top, TopInv
<1> QED BY <1>2, <1>3, <1>4, <1>5 DEF StackInv

\* The running scope and its place on the stack, as the invariant has them.
LEMMA TopFacts ==
  ASSUME TypeOK, NEW c \in Clients, StackInv(c), depth[c] > 0
  PROVE  /\ Top(c) \in Frame
         /\ ScopeInv(c, depth[c], Top(c))
         /\ TopInv(c, depth[c], Top(c))
         /\ \A e \in 1 .. MaxDepth : e < depth[c] =>
              NestInv(stack[c][e], Top(c)) /\ ScopeInv(c, e, stack[c][e])
         /\ depth[c] > 1 => /\ BeganInv(stack[c][depth[c] - 1], Top(c))
                            /\ NestInv(stack[c][depth[c] - 1], Top(c))
                            /\ stack[c][depth[c] - 1] \in Frame
<1>1. depth[c] \in 1 .. MaxDepth /\ Top(c) = stack[c][depth[c]]
  BY BoundsAssumption DEF TypeOK, Top
<1>2. depth[c] > 1 => depth[c] - 1 \in 1 .. MaxDepth /\ depth[c] - 1 < depth[c]
  BY <1>1, BoundsAssumption
<1>3. Top(c) \in Frame
  BY TopType
<1>4. ScopeInv(c, depth[c], Top(c)) /\ TopInv(c, depth[c], Top(c))
  BY <1>1 DEF StackInv
<1>5. \A e \in 1 .. MaxDepth : e < depth[c] =>
        NestInv(stack[c][e], Top(c)) /\ ScopeInv(c, e, stack[c][e])
  BY <1>1, BoundsAssumption DEF StackInv
<1>6. depth[c] > 1 => BeganInv(stack[c][depth[c] - 1], Top(c))
  BY <1>1, <1>2 DEF StackInv
<1>7. depth[c] > 1 => stack[c][depth[c] - 1] \in Frame
  BY <1>2 DEF TypeOK
<1> QED BY <1>2, <1>3, <1>4, <1>5, <1>6, <1>7

\* Callbacks that go to the next one, with or without a new error, leaving
\* the scope's transaction as it is.
LEMMA AdvanceStep ==
  ASSUME TypeOK, NEW c \in Clients, StackInv(c), depth[c] > 0,
         Top(c).pc # "done",
         Top(c).pc = "end" => ~Top(c).own,
         UNCHANGED <<depth, mode, unit, skipped, tx>>,
         NEW err \in BOOLEAN, Top(c).err => err,
         Top(c).pc = "begin" => Top(c).onTx \/ err,
         SetTop(c, Advance([Top(c) EXCEPT !.err = err]))
  PROVE  StackInv(c)'
<1>1. /\ Top(c) \in Frame
      /\ ScopeInv(c, depth[c], Top(c))
      /\ TopInv(c, depth[c], Top(c))
      /\ \A e \in 1 .. MaxDepth : e < depth[c] =>
              NestInv(stack[c][e], Top(c)) /\ ScopeInv(c, e, stack[c][e])
      /\ depth[c] > 1 => BeganInv(stack[c][depth[c] - 1], Top(c))
  BY TopFacts
<1>2. PICK g \in Frame : /\ g = [Top(c) EXCEPT !.err = err]
                         /\ g.pc = Top(c).pc /\ g.onTx = Top(c).onTx
                         /\ g.own = Top(c).own /\ g.kind = Top(c).kind /\ g.err = err
  BY <1>1 DEF Frame
<1>3. PICK f \in Frame : /\ f = Advance(g)
                         /\ f.onTx = Top(c).onTx /\ f.own = Top(c).own /\ f.err = err
                         /\ f.pc = NextStep(Top(c).kind, Top(c).pc)
  <2>1. Advance(g) \in Frame
    BY AdvanceType
  <2>2. /\ Advance(g).onTx = g.onTx /\ Advance(g).own = g.own
        /\ Advance(g).err = g.err /\ Advance(g).pc = NextStep(g.kind, g.pc)
    BY AdvanceFields
  <2> QED BY <1>2, <2>1, <2>2
<1>4. /\ f.pc # "assign"
      /\ Top(c).pc = "assign" => f.pc = "begin"
      /\ f.pc = "begin" => Top(c).pc = "assign"
      /\ f.pc = "done" => Top(c).pc = "end"
  BY <1>1, <1>3 DEF NextStep, Frame, Steps
<1>0. SetTop(c, f)
  BY <1>2, <1>3
<1>5. ScopeInv(c, depth[c], f)'
  <2>1. f.own => f.onTx /\ tx[c] = "open" /\ f.pc \notin {"assign", "begin"}
    BY <1>1, <1>3, <1>4 DEF ScopeInv
  <2>2. ~f.onTx /\ f.pc \notin {"assign", "begin", "done"} => f.err
    BY <1>1, <1>3, <1>4 DEF ScopeInv
  <2>3. f.own => f.pc # "done"
    BY <1>3, <1>4
  <2>4. depth[c] = 1 => /\ InUserTx(c) => f.onTx /\ ~f.own
                        /\ ~InUserTx(c) /\ f.onTx => f.own
    BY <1>1, <1>3 DEF ScopeInv
  <2> QED BY <2>1, <2>2, <2>3, <2>4 DEF ScopeInv, InUserTx
<1>6. \A e \in 1 .. MaxDepth : e < depth[c] => NestInv(stack[c][e], f)
  BY <1>1, <1>3 DEF NestInv
<1>7. depth[c] > 1 => BeganInv(stack[c][depth[c] - 1], f)
  BY <1>1, <1>3 DEF BeganInv
<1>8. TopInv(c, depth[c], f)'
  BY <1>1, <1>3, <1>4 DEF TopInv
<1>9. \A e \in 1 .. MaxDepth : e < depth[c] /\ stack[c][e].own => tx'[c] = "open"
  BY <1>1 DEF ScopeInv
<1> QED BY <1>3, <1>5, <1>6, <1>7, <1>8, <1>9, <1>0, TopStep

\* Callbacks that advance the running scope and nothing else.
LEMMA AdvancingCallbacks ==
  ASSUME TypeOK, NEW c \in Clients, StackInv(c),
         \/ Assign(c) /\ SetTop(c, Advance(Top(c)))
         \/ JoinTx(c) \/ BeginFails(c) \/ Hook(c) \/ AssociationsDone(c)
         \/ Write(c) \/ WriteFails(c) \/ WriteSkipped(c) \/ LeaveTx(c)
  PROVE  StackInv(c)'
<1>0. depth[c] > 0 /\ UNCHANGED <<depth, mode, unit, skipped, tx>>
  BY DEF Assign, JoinTx, BeginFails, Hook, AssociationsDone, Write, WriteFails,
         WriteSkipped, LeaveTx, At, userVars
<1>1. Top(c) \in Frame /\ ScopeInv(c, depth[c], Top(c))
  BY <1>0, TopFacts
<1>2. [Top(c) EXCEPT !.err = Top(c).err] = Top(c) /\ Top(c).err \in BOOLEAN
  BY <1>1 DEF Frame
<1>3. /\ Top(c).pc # "done"
      /\ Top(c).pc = "end" => ~Top(c).own
      /\ Top(c).pc = "begin" => Top(c).onTx \/ BeginFails(c)
  BY DEF Assign, JoinTx, BeginFails, Hook, AssociationsDone, Write, WriteFails,
         WriteSkipped, LeaveTx, At
<1>4. \/ SetTop(c, Advance(Top(c))) /\ ~BeginFails(c)
      \/ SetTop(c, Advance([Top(c) EXCEPT !.err = TRUE]))
  BY DEF Assign, JoinTx, BeginFails, Hook, AssociationsDone, Write, WriteFails,
         WriteSkipped, LeaveTx, At
<1>5. CASE SetTop(c, Advance(Top(c))) /\ ~BeginFails(c)
  <2>1. SetTop(c, Advance([Top(c) EXCEPT !.err = Top(c).err]))
    BY <1>2, <1>5
  <2> QED BY <1>0, <1>2, <1>3, <1>5, <2>1, AdvanceStep
<1>6. CASE SetTop(c, Advance([Top(c) EXCEPT !.err = TRUE]))
  <2>1. TRUE \in BOOLEAN /\ (Top(c).err => TRUE)
    OBVIOUS
  <2> QED BY <1>0, <1>3, <1>6, <2>1, AdvanceStep
<1> QED BY <1>4, <1>5, <1>6

\* An update with nothing to set leaves its chain before it has begun.
LEMMA AssignSkipStep ==
  ASSUME TypeOK, NEW c \in Clients, StackInv(c), Assign(c),
         SetTop(c, [Top(c) EXCEPT !.pc = "done"])
  PROVE  StackInv(c)'
<1>0. depth[c] > 0 /\ Top(c).pc = "assign" /\ UNCHANGED <<depth, mode, unit, skipped, tx>>
  BY DEF Assign, At, userVars
<1>1. /\ Top(c) \in Frame
      /\ ScopeInv(c, depth[c], Top(c))
      /\ TopInv(c, depth[c], Top(c))
      /\ \A e \in 1 .. MaxDepth : e < depth[c] =>
              NestInv(stack[c][e], Top(c)) /\ ScopeInv(c, e, stack[c][e])
      /\ depth[c] > 1 => BeganInv(stack[c][depth[c] - 1], Top(c))
  BY <1>0, TopFacts
<1>2. PICK f \in Frame : /\ f = [Top(c) EXCEPT !.pc = "done"]
                         /\ f.onTx = Top(c).onTx /\ f.own = Top(c).own /\ f.err = Top(c).err
                         /\ f.pc = "done"
  <2>1. [Top(c) EXCEPT !.pc = "done"] \in Frame
    BY <1>1 DEF Frame, Steps
  <2> QED BY <1>1, <2>1 DEF Frame
<1>3. SetTop(c, f)
  BY <1>2
<1>4. ~f.own
  BY <1>0, <1>1, <1>2 DEF ScopeInv
<1>5. ScopeInv(c, depth[c], f)'
  BY <1>0, <1>1, <1>2, <1>4 DEF ScopeInv, InUserTx
<1>6. \A e \in 1 .. MaxDepth : e < depth[c] => NestInv(stack[c][e], f)
  BY <1>1, <1>2 DEF NestInv
<1>7. depth[c] > 1 => BeganInv(stack[c][depth[c] - 1], f)
  BY <1>1, <1>2 DEF BeganInv
<1>8. TopInv(c, depth[c], f)'
  BY <1>0, <1>1, <1>2 DEF TopInv
<1>9. \A e \in 1 .. MaxDepth : e < depth[c] /\ stack[c][e].own => tx'[c] = "open"
  BY <1>0, <1>1 DEF ScopeInv
<1> QED BY <1>0, <1>3, <1>5, <1>6, <1>7, <1>8, <1>9, TopStep

\* Begin gives the running scope a transaction of its own.
LEMMA BeginOwnStep ==
  ASSUME TypeOK, NEW c \in Clients, StackInv(c), BeginOwn(c)
  PROVE  StackInv(c)'
<1>0. /\ depth[c] > 0 /\ Top(c).pc = "begin" /\ ~Top(c).onTx
      /\ UNCHANGED <<depth, mode, unit, skipped>>
      /\ tx'[c] = "open"
  BY DEF BeginOwn, At, userVars, TypeOK
<1>1. /\ Top(c) \in Frame
      /\ ScopeInv(c, depth[c], Top(c))
      /\ \A e \in 1 .. MaxDepth : e < depth[c] => NestInv(stack[c][e], Top(c))
  BY <1>0, TopFacts
<1>2. PICK g \in Frame : /\ g = [Top(c) EXCEPT !.onTx = TRUE, !.own = TRUE]
                         /\ g.onTx /\ g.own /\ g.err = Top(c).err /\ g.pc = "begin"
  <2>1. [Top(c) EXCEPT !.onTx = TRUE, !.own = TRUE] \in Frame
    BY <1>1 DEF Frame
  <2> QED BY <1>0, <1>1, <2>1 DEF Frame
<1>3. PICK f \in Frame : /\ f = Advance(g)
                         /\ f.onTx /\ f.own /\ f.err = Top(c).err /\ f.pc = "before"
  <2>1. Advance(g) \in Frame
    BY AdvanceType
  <2>2. Advance(g).pc = "before"
    BY <1>2, AdvanceFields DEF NextStep
  <2>3. Advance(g).onTx /\ Advance(g).own /\ Advance(g).err = Top(c).err
    BY <1>2, AdvanceFields
  <2> QED BY <2>1, <2>2, <2>3
<1>4. SetTop(c, f)
  BY <1>2, <1>3 DEF BeginOwn
<1>5. \A e \in 1 .. MaxDepth : e < depth[c] => ~stack[c][e].onTx
  BY <1>0, <1>1 DEF NestInv
<1>6. ScopeInv(c, depth[c], f)'
  <2>1. depth[c] = 1 => ~InUserTx(c)
    BY <1>0, <1>1 DEF ScopeInv
  <2> QED BY <1>0, <1>3, <2>1 DEF ScopeInv, InUserTx
<1>7. \A e \in 1 .. MaxDepth : e < depth[c] => NestInv(stack[c][e], f)
  BY <1>1, <1>3, <1>5 DEF NestInv
<1>8. depth[c] > 1 => BeganInv(stack[c][depth[c] - 1], f)
  BY <1>3 DEF BeganInv
<1>9. TopInv(c, depth[c], f)'
  BY <1>3 DEF TopInv
<1> QED BY <1>0, <1>4, <1>6, <1>7, <1>8, <1>9, TopStep

\* A hook that skips the rest leaves its scope in the transaction.
LEMMA HookSkipsStep ==
  ASSUME TypeOK, NEW c \in Clients, StackInv(c), HookSkips(c)
  PROVE  StackInv(c)'
<1>0. /\ depth[c] > 0 /\ Top(c).pc \in {"before", "after"} /\ ~Top(c).err
      /\ UNCHANGED <<depth, mode, unit, tx>>
      /\ skipped \subseteq skipped' /\ <<c, unit[c]>> \in skipped'
  BY DEF HookSkips, At, userVars
<1>1. /\ Top(c) \in Frame
      /\ ScopeInv(c, depth[c], Top(c))
      /\ \A e \in 1 .. MaxDepth : e < depth[c] =>
              NestInv(stack[c][e], Top(c)) /\ ScopeInv(c, e, stack[c][e])
      /\ depth[c] > 1 => /\ BeganInv(stack[c][depth[c] - 1], Top(c))
                         /\ NestInv(stack[c][depth[c] - 1], Top(c))
  BY <1>0, TopFacts
<1>2. PICK e \in BOOLEAN : SetTop(c, [Top(c) EXCEPT !.err = e, !.pc = "done"])
  BY DEF HookSkips
<1>3. PICK f \in Frame : /\ f = [Top(c) EXCEPT !.err = e, !.pc = "done"]
                         /\ f.onTx = Top(c).onTx /\ f.own = Top(c).own
                         /\ f.pc = "done"
  <2>1. [Top(c) EXCEPT !.err = e, !.pc = "done"] \in Frame
    BY <1>1 DEF Frame, Steps
  <2> QED BY <1>1, <2>1 DEF Frame
<1>4. SetTop(c, f)
  BY <1>2, <1>3
<1>5. Top(c).onTx
  BY <1>0, <1>1 DEF ScopeInv
<1>6. depth[c] > 1 => ~f.own
  BY <1>0, <1>1, <1>3 DEF NestInv
<1>7. ScopeInv(c, depth[c], f)'
  <2>1. f.own => tx'[c] = "open"
    BY <1>0, <1>1, <1>3 DEF ScopeInv
  <2>2. depth[c] = 1 => /\ InUserTx(c) => f.onTx /\ ~f.own
                        /\ ~InUserTx(c) /\ f.onTx => f.own
    BY <1>1, <1>3 DEF ScopeInv
  <2> QED BY <1>0, <1>3, <1>5, <1>6, <2>1, <2>2 DEF ScopeInv, InUserTx
<1>8. \A d \in 1 .. MaxDepth : d < depth[c] => NestInv(stack[c][d], f)
  BY <1>0, <1>1, <1>3 DEF NestInv
<1>9. depth[c] > 1 => BeganInv(stack[c][depth[c] - 1], f)
  BY <1>1, <1>3 DEF BeganInv
<1>10. TopInv(c, depth[c], f)'
  BY <1>3, <1>5 DEF TopInv
<1>11. \A d \in 1 .. MaxDepth : d < depth[c] /\ stack[c][d].own => tx'[c] = "open"
  BY <1>0, <1>1 DEF ScopeInv
<1> QED BY <1>0, <1>4, <1>7, <1>8, <1>9, <1>10, <1>11, TopStep

\* The scope that began the transaction ends it: below it none has one.
LEMMA EndOwnStep ==
  ASSUME TypeOK, NEW c \in Clients, StackInv(c),
         CommitOwn(c) \/ CommitOwnFails(c) \/ RollbackOwn(c)
  PROVE  StackInv(c)'
<1>0. /\ depth[c] > 0 /\ Top(c).pc = "end" /\ Top(c).own
      /\ UNCHANGED <<depth, mode, unit, skipped>>
  BY DEF CommitOwn, CommitOwnFails, RollbackOwn, At, userVars
<1>1. /\ Top(c) \in Frame
      /\ ScopeInv(c, depth[c], Top(c))
      /\ \A e \in 1 .. MaxDepth : e < depth[c] => NestInv(stack[c][e], Top(c))
      /\ \A e \in 1 .. MaxDepth : e < depth[c] => ScopeInv(c, e, stack[c][e])
  BY <1>0, TopFacts
<1>2. depth[c] > 1 => NestInv(stack[c][depth[c] - 1], Top(c))
  BY <1>0, TopFacts
<1>3. tx[c] = "open" /\ tx'[c] \in {"committed", "rolledback"}
  BY <1>0, <1>1 DEF ScopeInv, CommitOwn, CommitOwnFails, RollbackOwn, TypeOK
<1>4. depth[c] > 1 => Top(c).err
  BY <1>0, <1>2 DEF NestInv
<1>5. depth[c] > 1 => tx'[c] = "rolledback"
  BY <1>3, <1>4 DEF CommitOwn, CommitOwnFails, RollbackOwn, TypeOK
<1>6. PICK g \in Frame : /\ SetTop(c, Advance(g)) /\ ~g.onTx /\ ~g.own
                         /\ Top(c).err => g.err
                         /\ g.pc = "end"
  <2>1. [Top(c) EXCEPT !.onTx = FALSE, !.own = FALSE] \in Frame
    BY <1>1 DEF Frame
  <2>2. [Top(c) EXCEPT !.onTx = FALSE, !.own = FALSE, !.err = TRUE] \in Frame
    BY <1>1 DEF Frame
  <2>3. CASE CommitOwnFails(c)
    <3>1. SetTop(c, Advance([Top(c) EXCEPT !.onTx = FALSE, !.own = FALSE, !.err = TRUE]))
      BY <2>3 DEF CommitOwnFails
    <3> QED BY <1>0, <1>1, <2>2, <3>1 DEF Frame
  <2>4. CASE CommitOwn(c) \/ RollbackOwn(c)
    <3>1. SetTop(c, Advance([Top(c) EXCEPT !.onTx = FALSE, !.own = FALSE]))
      BY <2>4 DEF CommitOwn, RollbackOwn
    <3> QED BY <1>0, <1>1, <2>1, <3>1 DEF Frame
  <2> QED BY <2>3, <2>4
<1>7. PICK f \in Frame : /\ f = Advance(g) /\ ~f.onTx /\ ~f.own
                         /\ Top(c).err => f.err
                         /\ f.pc = "done"
  <2>1. Advance(g) \in Frame
    BY AdvanceType
  <2>2. Advance(g).pc = "done"
    BY <1>6, AdvanceFields DEF NextStep
  <2> QED BY <1>6, <2>1, <2>2, AdvanceFields
<1>8. ScopeInv(c, depth[c], f)'
  <2>1. depth[c] = 1 => ~InUserTx(c)
    BY <1>0, <1>1 DEF ScopeInv
  <2> QED BY <1>0, <1>7, <2>1 DEF ScopeInv, InUserTx
<1>9. \A e \in 1 .. MaxDepth : e < depth[c] => NestInv(stack[c][e], f)
  BY <1>0, <1>1, <1>7 DEF NestInv
<1>10. depth[c] > 1 => BeganInv(stack[c][depth[c] - 1], f)
  BY <1>7 DEF BeganInv
<1>11. TopInv(c, depth[c], f)'
  <2>1. tx'[c] # "open"
    BY <1>3
  <2>2. depth[c] > 1 \/ f.pc # "done" => tx'[c] \in {"none", "rolledback"}
    BY <1>5, <1>7
  <2> QED BY <1>0, <2>1, <2>2 DEF TopInv
<1>12. \A e \in 1 .. MaxDepth : e < depth[c] => ~stack[c][e].own
  BY <1>0, <1>1 DEF NestInv, ScopeInv
<1>13. SetTop(c, f)
  BY <1>6, <1>7
<1> QED BY <1>0, <1>8, <1>9, <1>10, <1>11, <1>12, <1>13, TopStep

\* Save's lookup and create, inside a transaction, start from the handle Save
\* was called on: the saving scope's, or the caller's transaction.
LEMMA FallbackInTxStep ==
  ASSUME TypeOK, NEW c \in Clients, StackInv(c), SaveFallbackInTx(c)
  PROVE  StackInv(c)'
<1> USE BoundsAssumption
<1>0. /\ depth[c] > 0 /\ Top(c).pc = "done" /\ ~Top(c).err
      /\ UNCHANGED <<depth, mode, unit, skipped, tx>>
      /\ frames[c] + 1 \in 1 .. MaxFrames
      /\ depth[c] > 1 \/ InUserTx(c)
  BY DEF SaveFallbackInTx, NoRowsAffected, At, userVars, TypeOK
<1>1. /\ Top(c) \in Frame
      /\ ScopeInv(c, depth[c], Top(c))
      /\ \A e \in 1 .. MaxDepth : e < depth[c] => NestInv(stack[c][e], Top(c))
      /\ \A e \in 1 .. MaxDepth : e < depth[c] => ScopeInv(c, e, stack[c][e])
  BY <1>0, TopFacts
<1>2. depth[c] > 1 => NestInv(stack[c][depth[c] - 1], Top(c))
  BY <1>0, TopFacts
<1>3. depth[c] > 1 => stack[c][depth[c] - 1].onTx
  BY <1>0, <1>1, <1>2, TopFacts DEF NestInv, Frame
<1>4. PICK ff \in BOOLEAN : SetTop(c, Fallback(Top(c), ff, frames[c] + 1, TRUE))
  BY <1>3 DEF SaveFallbackInTx, TypeOK
<1>5. PICK f \in Frame : /\ f = Fallback(Top(c), ff, frames[c] + 1, TRUE)
                         /\ f.onTx /\ ~f.own
                         /\ f.pc = "done" \/ f.pc = "begin"
  <2>1. CASE ff
    <3>1. [Top(c) EXCEPT !.kind = "create", !.err = TRUE, !.own = FALSE, !.onTx = TRUE] \in Frame
      BY <1>1 DEF Frame, Kinds
    <3>2. Fallback(Top(c), ff, frames[c] + 1, TRUE)
            = [Top(c) EXCEPT !.kind = "create", !.err = TRUE, !.own = FALSE, !.onTx = TRUE]
      BY <2>1 DEF Fallback
    <3> QED BY <1>0, <1>1, <3>1, <3>2 DEF Frame
  <2>2. CASE ~ff
    <3>1. Fallback(Top(c), ff, frames[c] + 1, TRUE) = NewFrame("create", FALSE, TRUE, frames[c] + 1)
      BY <2>2 DEF Fallback
    <3>2. NewFrame("create", FALSE, TRUE, frames[c] + 1) \in Frame
      BY <1>0, NewFrameType DEF Kinds
    <3> QED BY <3>1, <3>2 DEF NewFrame, FirstStep
  <2> QED BY <2>1, <2>2
<1>6. SetTop(c, f)
  BY <1>4, <1>5
<1>7. ScopeInv(c, depth[c], f)'
  <2>1. depth[c] = 1 => InUserTx(c)
    BY <1>0
  <2>2. f.pc # "done" => f.pc = "begin"
    BY <1>5
  <2> QED BY <1>0, <1>5, <2>1, <2>2 DEF ScopeInv, InUserTx
<1>8. \A e \in 1 .. MaxDepth : e < depth[c] => NestInv(stack[c][e], f)
  <2>1. \A e \in 1 .. MaxDepth : e < depth[c] => stack[c][e].onTx
    BY <1>0, <1>1 DEF NestInv
  <2> QED BY <1>1, <1>5, <2>1 DEF NestInv
<1>9. depth[c] > 1 => BeganInv(stack[c][depth[c] - 1], f)
  BY <1>3 DEF BeganInv
<1>10. TopInv(c, depth[c], f)'
  BY <1>5 DEF TopInv
<1>11. \A e \in 1 .. MaxDepth : e < depth[c] /\ stack[c][e].own => tx'[c] = "open"
  BY <1>0, <1>1 DEF ScopeInv
<1> QED BY <1>0, <1>6, <1>7, <1>8, <1>9, <1>10, <1>11, TopStep

\* A stack of at most one scope is in order when that scope is.
LEMMA OneScope ==
  ASSUME NEW c \in Clients, depth'[c] \in {0, 1},
         depth'[c] = 1 => ScopeInv(c, 1, stack[c][1])' /\ TopInv(c, 1, stack[c][1])'
  PROVE  StackInv(c)'
<1> USE BoundsAssumption
<1>1. ASSUME NEW d \in 1 .. MaxDepth, d <= depth'[c]
      PROVE  ScopeInv(c, d, stack[c][d])'
  <2>1. d = 1 /\ depth'[c] = 1
    BY <1>1
  <2> QED BY <2>1
<1>2. ASSUME depth'[c] > 0
      PROVE  TopInv(c, depth[c], Top(c))'
  <2>1. depth'[c] = 1
    BY <1>2
  <2> QED BY <2>1 DEF Top
<1> QED BY <1>1, <1>2 DEF StackInv

\* The first scope of an operation on the shared handle, or of Save's create.
LEMMA FirstScopeStep ==
  ASSUME TypeOK, NEW c \in Clients, StackInv(c), StartOp(c) \/ SaveFallbackOp(c)
  PROVE  StackInv(c)'
<1> USE BoundsAssumption
<1>1. /\ depth'[c] = 1 /\ tx'[c] = "none" /\ mode'[c] \notin {"manual", "block"}
      /\ stack'[c][1].onTx = FALSE /\ stack'[c][1].own = FALSE
      /\ stack'[c][1].pc \in {"assign", "begin", "done"}
  <2>1. CASE StartOp(c)
    <3>1. PICK kind \in Ops, err \in BOOLEAN :
            stack' = [stack EXCEPT ![c][1] = NewFrame(kind, err, FALSE, 1)]
      BY <2>1 DEF StartOp
    <3>0. stack \in [Clients -> [1 .. MaxDepth -> Frame]] /\ 1 \in 1 .. MaxDepth
      BY DEF TypeOK
    <3>2. stack'[c][1] = NewFrame(kind, err, FALSE, 1)
      BY <3>0, <3>1
    <3>3. depth'[c] = 1 /\ tx'[c] = "none" /\ mode'[c] = "op"
      BY <2>1 DEF StartOp, TypeOK
    <3> QED BY <3>2, <3>3 DEF NewFrame, FirstStep
  <2>2. CASE SaveFallbackOp(c)
    <3>1. PICK ff \in BOOLEAN : SetTop(c, Fallback(Top(c), ff, 1, FALSE))
      BY <2>2 DEF SaveFallbackOp
    <3>2. /\ depth[c] = 1 /\ depth'[c] = 1 /\ tx'[c] = "none" /\ mode'[c] = mode[c]
          /\ ~InUserTx(c) /\ Top(c).pc = "done"
      BY <2>2 DEF SaveFallbackOp, NoRowsAffected, TypeOK, At
    <3>0. depth[c] > 0
      BY <3>2
    <3>a. stack'[c][depth[c]] = Fallback(Top(c), ff, 1, FALSE)
      BY <3>0, <3>1, SetTopAt
    <3>3. stack'[c][1] = Fallback(Top(c), ff, 1, FALSE)
      BY <3>2, <3>a
    <3>4. Top(c) \in Frame
      BY <3>2, TopType
    <3>5. CASE ff
      BY <3>2, <3>3, <3>4, <3>5 DEF Fallback, InUserTx, Frame
    <3>6. CASE ~ff
      BY <3>2, <3>3, <3>6 DEF Fallback, InUserTx, NewFrame, FirstStep
    <3> QED BY <3>5, <3>6
  <2> QED BY <2>1, <2>2
<1>2. ScopeInv(c, 1, stack[c][1])' /\ TopInv(c, 1, stack[c][1])'
  BY <1>1 DEF ScopeInv, TopInv, InUserTx
<1> QED BY <1>1, <1>2, OneScope

\* An operation on the caller's transaction.
LEMMA UserOpStep ==
  ASSUME TypeOK, NEW c \in Clients, UserOp(c)
  PROVE  StackInv(c)'
<1> USE BoundsAssumption
<1>1. PICK kind \in Ops : Push(c, kind, handleErr[c], TRUE)
  BY DEF UserOp
<1>0. /\ stack \in [Clients -> [1 .. MaxDepth -> Frame]] /\ 1 \in 1 .. MaxDepth
      /\ depth \in [Clients -> 0 .. MaxDepth] /\ depth[c] = 0 /\ InUserTx(c)'
  BY DEF UserOp, UserIdle, TypeOK, InUserTx, userVars
<1>2. depth'[c] = 1 /\ InUserTx(c)' /\ stack'[c][1] = NewFrame(kind, handleErr[c], TRUE, frames[c] + 1)
  <2>1. stack' = [stack EXCEPT ![c][1] = NewFrame(kind, handleErr[c], TRUE, frames[c] + 1)]
    BY <1>0, <1>1 DEF Push
  <2>2. depth'[c] = 1
    BY <1>0, <1>1 DEF Push
  <2> QED BY <1>0, <2>1, <2>2
<1>3. ScopeInv(c, 1, stack[c][1])' /\ TopInv(c, 1, stack[c][1])'
  BY <1>2 DEF ScopeInv, TopInv, NewFrame, FirstStep
<1> QED BY <1>2, <1>3, OneScope

\* The scope of a saved association starts on top of the scope that saves it.
LEMMA SaveAssociationStep ==
  ASSUME TypeOK, NEW c \in Clients, StackInv(c), SaveAssociation(c)
  PROVE  StackInv(c)'
<1> USE BoundsAssumption
<1>0. /\ depth[c] > 0 /\ Top(c).pc \in Saving
      /\ UNCHANGED <<mode, unit, skipped, tx>>
  BY DEF SaveAssociation, At, userVars, Saving
<1>1. /\ Top(c) \in Frame
      /\ ScopeInv(c, depth[c], Top(c))
      /\ TopInv(c, depth[c], Top(c))
      /\ \A e \in 1 .. MaxDepth : e < depth[c] => NestInv(stack[c][e], Top(c))
  BY <1>0, TopFacts
<1>2. PICK kind \in Kinds : Push(c, kind, Top(c).err, Top(c).onTx)
  BY DEF SaveAssociation, Kinds
<1>3. PICK f \in Frame : /\ f = NewFrame(kind, Top(c).err, Top(c).onTx, frames[c] + 1)
                         /\ f.err = Top(c).err /\ f.onTx = Top(c).onTx /\ f.own = FALSE
                         /\ f.pc \in {"assign", "begin"}
  <2>1. /\ frames[c] + 1 \in 1 .. MaxFrames
        /\ Top(c).err \in BOOLEAN /\ Top(c).onTx \in BOOLEAN
    BY <1>1, <1>2 DEF Push, TypeOK, Frame
  <2>2. NewFrame(kind, Top(c).err, Top(c).onTx, frames[c] + 1) \in Frame
    BY <2>1, NewFrameType
  <2> QED BY <2>2 DEF NewFrame, FirstStep
<1>4. /\ depth'[c] = depth[c] + 1 /\ depth'[c] \in 1 .. MaxDepth
      /\ stack'[c][depth[c] + 1] = f
      /\ \A d \in 1 .. MaxDepth : d # depth[c] + 1 => stack'[c][d] = stack[c][d]
  BY <1>2, <1>3 DEF Push, TypeOK
<1>5. Top(c) = stack[c][depth[c]] /\ depth[c] \in 1 .. MaxDepth /\ Top(c)' = f
  BY <1>0, <1>4 DEF Top, TypeOK
<1>6. ~Top(c).onTx => Top(c).err
  BY <1>0, <1>1 DEF ScopeInv, Saving
<1>7. ASSUME NEW d \in 1 .. MaxDepth, d <= depth'[c]
      PROVE  ScopeInv(c, d, stack[c][d])'
  <2>1. CASE d = depth[c] + 1
    <3>1. d # 1 /\ stack'[c][d] = f
      BY <1>4, <1>5, <2>1
    <3> QED BY <1>3, <3>1 DEF ScopeInv
  <2>2. CASE d # depth[c] + 1
    <3>1. d <= depth[c] /\ stack'[c][d] = stack[c][d]
      BY <1>4, <1>5, <1>7, <2>2
    <3> QED BY <1>0, <3>1 DEF StackInv, ScopeInv, InUserTx
  <2> QED BY <2>1, <2>2
<1>8. \A e \in 1 .. MaxDepth : e <= depth[c] => NestInv(stack[c][e], f)
  <2>1. NestInv(Top(c), f)
    BY <1>0, <1>3, <1>6 DEF NestInv
  <2>2. \A e \in 1 .. MaxDepth : e < depth[c] => NestInv(stack[c][e], f)
    BY <1>1, <1>3 DEF NestInv
  <2> QED BY <1>5, <2>1, <2>2
<1>9. ASSUME NEW d \in 1 .. MaxDepth, NEW e \in 1 .. MaxDepth, e < d, d <= depth'[c]
      PROVE  NestInv(stack[c][e], stack[c][d])'
  <2>1. e # depth[c] + 1 /\ stack'[c][e] = stack[c][e]
    BY <1>4, <1>5, <1>9
  <2>2. CASE d = depth[c] + 1
    <3>1. stack'[c][d] = f /\ NestInv(stack[c][e], f)
      BY <1>4, <1>5, <1>8, <1>9, <2>2
    <3> QED BY <2>1, <3>1 DEF NestInv
  <2>3. CASE d # depth[c] + 1
    <3>1. d <= depth[c] /\ stack'[c][d] = stack[c][d]
      BY <1>4, <1>5, <1>9, <2>3
    <3>2. NestInv(stack[c][e], stack[c][d])
      BY <1>9, <3>1 DEF StackInv
    <3> QED BY <2>1, <3>1, <3>2 DEF NestInv
  <2> QED BY <2>2, <2>3
<1>10. ASSUME NEW d \in 1 .. MaxDepth, 1 < d, d <= depth'[c]
       PROVE  BeganInv(stack[c][d - 1], stack[c][d])'
  <2>1. d - 1 \in 1 .. MaxDepth /\ d - 1 # depth[c] + 1 /\ stack'[c][d - 1] = stack[c][d - 1]
    BY <1>4, <1>5, <1>10
  <2>2. CASE d = depth[c] + 1
    <3>1. stack'[c][d] = f /\ stack'[c][d - 1] = Top(c)
      BY <1>4, <1>5, <2>1, <2>2
    <3> QED BY <1>3, <3>1 DEF BeganInv
  <2>3. CASE d # depth[c] + 1
    <3>1. d <= depth[c] /\ stack'[c][d] = stack[c][d]
      BY <1>4, <1>5, <1>10, <2>3
    <3>2. BeganInv(stack[c][d - 1], stack[c][d])
      BY <1>10, <3>1 DEF StackInv
    <3> QED BY <2>1, <3>1, <3>2 DEF BeganInv
  <2> QED BY <2>2, <2>3
<1>11. TopInv(c, depth[c], Top(c))'
  <2>1. ~f.onTx => tx[c] # "open" /\ tx[c] \in {"none", "rolledback"}
    BY <1>0, <1>1, <1>3 DEF TopInv, Saving
  <2> QED BY <1>0, <1>5, <2>1 DEF TopInv
<1> QED BY <1>7, <1>9, <1>10, <1>11 DEF StackInv

\* A saved association comes back: its scope was not left in a transaction
\* of its own, because only a scope without errors can be made to skip.
LEMMA ReturnNestedStep ==
  ASSUME TypeOK, NEW c \in Clients, StackInv(c), ReturnNested(c)
  PROVE  StackInv(c)'
<1> USE BoundsAssumption
<1>0. /\ depth[c] > 1 /\ Top(c).pc = "done" /\ depth[c] \in 1 .. MaxDepth
      /\ depth'[c] = depth[c] - 1 /\ depth'[c] \in 1 .. MaxDepth
      /\ UNCHANGED <<mode, unit, skipped, tx>>
  BY DEF ReturnNested, At, userVars, TypeOK
<1>1. /\ Top(c) \in Frame /\ stack[c][depth[c] - 1] \in Frame
      /\ ScopeInv(c, depth[c], Top(c))
      /\ TopInv(c, depth[c], Top(c))
      /\ BeganInv(stack[c][depth[c] - 1], Top(c))
  BY <1>0, TopFacts
<1>2. PICK f \in Frame : /\ f = AddErr(stack[c][depth[c] - 1], Top(c).err)
                         /\ f.pc = stack[c][depth[c] - 1].pc
                         /\ f.onTx = stack[c][depth[c] - 1].onTx
                         /\ f.own = stack[c][depth[c] - 1].own
                         /\ stack[c][depth[c] - 1].err => f.err
  <2>1. PICK g \in Frame : g = stack[c][depth[c] - 1]
    BY <1>1
  <2>2. AddErr(g, Top(c).err) \in Frame /\ g.err \in BOOLEAN
    BY <1>1 DEF AddErr, Frame
  <2>3. /\ AddErr(g, Top(c).err).pc = g.pc /\ AddErr(g, Top(c).err).onTx = g.onTx
        /\ AddErr(g, Top(c).err).own = g.own
    BY DEF AddErr, Frame
  <2>4. g.err => AddErr(g, Top(c).err).err
    BY DEF AddErr, Frame
  <2> QED BY <2>1, <2>2, <2>3, <2>4
<1>3. /\ stack'[c][depth[c] - 1] = f
      /\ \A d \in 1 .. MaxDepth : d < depth[c] - 1 => stack'[c][d] = stack[c][d]
  BY <1>0, <1>2 DEF ReturnNested, TypeOK
<1>4. ASSUME NEW d \in 1 .. MaxDepth, d <= depth'[c]
      PROVE  /\ stack'[c][d].pc = stack[c][d].pc /\ stack'[c][d].onTx = stack[c][d].onTx
             /\ stack'[c][d].own = stack[c][d].own
             /\ stack[c][d].err => stack'[c][d].err
  <2>1. CASE d = depth[c] - 1
    BY <1>2, <1>3, <2>1
  <2>2. CASE d < depth[c] - 1
    BY <1>3, <2>2
  <2> QED BY <1>0, <1>4, <2>1, <2>2
<1>5. ASSUME NEW d \in 1 .. MaxDepth, d <= depth'[c]
      PROVE  ScopeInv(c, d, stack[c][d])'
  <2>1. ScopeInv(c, d, stack[c][d])
    BY <1>0, <1>5 DEF StackInv
  <2> QED BY <1>0, <1>4, <1>5, <2>1 DEF ScopeInv, InUserTx
<1>6. ASSUME NEW d \in 1 .. MaxDepth, NEW e \in 1 .. MaxDepth, e < d, d <= depth'[c]
      PROVE  NestInv(stack[c][e], stack[c][d])'
  <2>1. NestInv(stack[c][e], stack[c][d]) /\ e <= depth'[c]
    BY <1>0, <1>6 DEF StackInv
  <2> QED BY <1>4, <1>6, <2>1 DEF NestInv
<1>7. ASSUME NEW d \in 1 .. MaxDepth, 1 < d, d <= depth'[c]
      PROVE  BeganInv(stack[c][d - 1], stack[c][d])'
  <2>1. BeganInv(stack[c][d - 1], stack[c][d]) /\ d - 1 <= depth'[c] /\ d - 1 \in 1 .. MaxDepth
    BY <1>0, <1>7 DEF StackInv
  <2> QED BY <1>4, <1>7, <2>1 DEF BeganInv
<1>8. TopInv(c, depth[c], Top(c))'
  <2>1. Top(c)' = f
    BY <1>0, <1>3 DEF Top
  <2>2. ~Top(c).own
    BY <1>0, <1>1 DEF ScopeInv
  <2>3. ~f.onTx => ~Top(c).onTx
    BY <1>1, <1>2, <2>2 DEF BeganInv
  <2>4. ~f.onTx => tx[c] # "open" /\ tx[c] \in {"none", "rolledback"}
    BY <1>0, <1>1, <2>3 DEF TopInv
  <2> QED BY <1>0, <2>1, <2>4 DEF TopInv
<1> QED BY <1>5, <1>6, <1>7, <1>8 DEF StackInv

-----------------------------------------------------------------------------
(* Every action keeps the stack of its client in order.                    *)

LEMMA CallbackStack ==
  ASSUME TypeOK, NEW c \in Clients, StackInv(c), Callback(c)
  PROVE  StackInv(c)'
<1>1. CASE Assign(c)
  BY <1>1, AdvancingCallbacks, AssignSkipStep DEF Assign
<1>2. CASE JoinTx(c) \/ BeginFails(c) \/ Hook(c) \/ AssociationsDone(c)
  BY <1>2, AdvancingCallbacks
<1>3. CASE Write(c) \/ WriteFails(c) \/ WriteSkipped(c) \/ LeaveTx(c)
  BY <1>3, AdvancingCallbacks
<1>4. CASE CommitOwn(c) \/ CommitOwnFails(c) \/ RollbackOwn(c)
  BY <1>4, EndOwnStep
<1>5. CASE BeginOwn(c) \/ HookSkips(c)
  BY <1>5, BeginOwnStep, HookSkipsStep
<1>6. CASE SaveAssociation(c) \/ ReturnNested(c)
  BY <1>6, SaveAssociationStep, ReturnNestedStep
<1>7. CASE SaveFallbackInTx(c) \/ SaveFallbackOp(c)
  BY <1>7, FallbackInTxStep, FirstScopeStep
<1>8. CASE ReturnToUserTx(c) \/ ReturnOp(c) \/ Panic(c)
  <2>1. depth'[c] = 0
    BY <1>8 DEF ReturnToUserTx, ReturnOp, Panic, TypeOK
  <2> QED BY <2>1, OneScope
<1> QED BY <1>1, <1>2, <1>3, <1>4, <1>5, <1>6, <1>7, <1>8 DEF Callback

LEMMA UserStack ==
  ASSUME TypeOK, Busy, NEW c \in Clients, StackInv(c), User(c)
  PROVE  StackInv(c)'
<1>1. CASE StartOp(c)
  BY <1>1, FirstScopeStep
<1>2. CASE UserOp(c)
  BY <1>2, UserOpStep
<1>3. CASE UserBegin(c)
  <2>1. depth'[c] = 0
    BY <1>3 DEF UserBegin, Busy
  <2> QED BY <2>1, OneScope
<1>4. CASE UserAddError(c)
  <2>1. depth'[c] = 0
    BY <1>4 DEF UserAddError, UserIdle
  <2> QED BY <2>1, OneScope
<1>5. CASE UserCommit(c) \/ UserRollback(c) \/ BlockReturns(c)
  <2>1. depth'[c] = 0
    BY <1>5 DEF UserCommit, UserRollback, BlockReturns, UserIdle
  <2> QED BY <2>1, OneScope
<1> QED BY <1>1, <1>2, <1>3, <1>4, <1>5 DEF User, UserEnds

-----------------------------------------------------------------------------
(* What a client's step leaves to the others.                              *)

\* The other clients' part of the state.
OthersKeep(c) ==
  \A x \in Clients : x # c =>
    /\ mode'[x] = mode[x] /\ unit'[x] = unit[x] /\ tx'[x] = tx[x]
    /\ stack'[x] = stack[x] /\ depth'[x] = depth[x]

\* Rows and connections a step adds belong to the running unit.
OwnRows(c) ==
  /\ log \subseteq log' /\ store \subseteq store' /\ skipped \subseteq skipped'
  /\ \A r \in log' \ log : r[1] = c /\ r[2] = unit[c]
  /\ \A r \in store' \ store : r[1] = c /\ r[2] = unit[c]
  /\ \A l \in leaked' \ leaked : l = <<c, unit[c]>> /\ tx[c] = "open"

LEMMA CallbackOthers ==
  ASSUME TypeOK, NEW c \in Clients, Callback(c)
  PROVE  OthersKeep(c)
<1>1. CASE Assign(c)
  BY <1>1 DEF Assign, SetTop, userVars, OthersKeep, TypeOK
<1>2. CASE JoinTx(c)
  BY <1>2 DEF JoinTx, SetTop, userVars, OthersKeep, TypeOK
<1>3. CASE BeginOwn(c)
  BY <1>3 DEF BeginOwn, SetTop, userVars, OthersKeep, TypeOK
<1>4. CASE BeginFails(c)
  BY <1>4 DEF BeginFails, SetTop, userVars, OthersKeep, TypeOK
<1>5. CASE Hook(c)
  BY <1>5 DEF Hook, SetTop, userVars, OthersKeep, TypeOK
<1>6. CASE HookSkips(c)
  BY <1>6 DEF HookSkips, SetTop, userVars, OthersKeep, TypeOK
<1>7. CASE SaveAssociation(c)
  BY <1>7 DEF SaveAssociation, Push, userVars, OthersKeep, TypeOK
<1>8. CASE AssociationsDone(c)
  BY <1>8 DEF AssociationsDone, SetTop, userVars, OthersKeep, TypeOK
<1>9. CASE Write(c)
  BY <1>9 DEF Write, SetTop, userVars, OthersKeep, TypeOK
<1>10. CASE WriteFails(c)
  BY <1>10 DEF WriteFails, SetTop, userVars, OthersKeep, TypeOK
<1>11. CASE WriteSkipped(c)
  BY <1>11 DEF WriteSkipped, SetTop, userVars, OthersKeep, TypeOK
<1>12. CASE CommitOwn(c)
  BY <1>12 DEF CommitOwn, SetTop, userVars, OthersKeep, TypeOK
<1>13. CASE CommitOwnFails(c)
  BY <1>13 DEF CommitOwnFails, SetTop, userVars, OthersKeep, TypeOK
<1>14. CASE RollbackOwn(c)
  BY <1>14 DEF RollbackOwn, SetTop, userVars, OthersKeep, TypeOK
<1>15. CASE LeaveTx(c)
  BY <1>15 DEF LeaveTx, SetTop, userVars, OthersKeep, TypeOK
<1>16. CASE ReturnNested(c)
  BY <1>16 DEF ReturnNested, userVars, OthersKeep, TypeOK
<1>17. CASE ReturnToUserTx(c)
  BY <1>17 DEF ReturnToUserTx, SetTop, userVars, OthersKeep, TypeOK
<1>18. CASE ReturnOp(c)
  BY <1>18 DEF ReturnOp, SetTop, OthersKeep, TypeOK
<1>19. CASE SaveFallbackInTx(c)
  BY <1>19 DEF SaveFallbackInTx, SetTop, userVars, OthersKeep, TypeOK
<1>20. CASE SaveFallbackOp(c)
  BY <1>20 DEF SaveFallbackOp, SetTop, NewUnit, OthersKeep, TypeOK
<1>21. CASE Panic(c)
  BY <1>21 DEF Panic, OthersKeep, TypeOK
<1> QED BY <1>1, <1>2, <1>3, <1>4, <1>5, <1>6, <1>7, <1>8, <1>9, <1>10, <1>11, <1>12, <1>13, <1>14, <1>15, <1>16, <1>17, <1>18, <1>19, <1>20, <1>21 DEF Callback

LEMMA UserOthers ==
  ASSUME TypeOK, NEW c \in Clients, User(c)
  PROVE  OthersKeep(c)
<1>1. CASE StartOp(c)
  BY <1>1 DEF StartOp, NewUnit, OthersKeep, TypeOK
<1>2. CASE UserBegin(c)
  BY <1>2 DEF UserBegin, NewUnit, OthersKeep, TypeOK
<1>3. CASE UserOp(c)
  BY <1>3 DEF UserOp, Push, userVars, OthersKeep, TypeOK
<1>4. CASE UserAddError(c)
  BY <1>4 DEF UserAddError, OthersKeep, TypeOK
<1>5. CASE UserCommit(c)
  BY <1>5 DEF UserCommit, CommitTx, OthersKeep, TypeOK
<1>6. CASE UserRollback(c)
  BY <1>6 DEF UserRollback, RollbackTx, OthersKeep, TypeOK
<1>7. CASE BlockReturns(c)
  BY <1>7 DEF BlockReturns, CommitTx, RollbackTx, OthersKeep, TypeOK
<1> QED BY <1>1, <1>2, <1>3, <1>4, <1>5, <1>6, <1>7 DEF User, UserEnds

LEMMA CallbackRows ==
  ASSUME TypeOK, NEW c \in Clients, Callback(c)
  PROVE  OwnRows(c)
<1>1. CASE Assign(c)
  BY <1>1 DEF Assign, userVars, OwnRows
<1>2. CASE JoinTx(c)
  BY <1>2 DEF JoinTx, userVars, OwnRows
<1>3. CASE BeginOwn(c)
  BY <1>3 DEF BeginOwn, userVars, OwnRows
<1>4. CASE BeginFails(c)
  BY <1>4 DEF BeginFails, userVars, OwnRows
<1>5. CASE Hook(c)
  BY <1>5 DEF Hook, userVars, OwnRows
<1>6. CASE HookSkips(c)
  BY <1>6 DEF HookSkips, userVars, OwnRows
<1>7. CASE SaveAssociation(c)
  BY <1>7 DEF SaveAssociation, userVars, OwnRows
<1>8. CASE AssociationsDone(c)
  BY <1>8 DEF AssociationsDone, userVars, OwnRows
<1>9. CASE Write(c)
  BY <1>9 DEF Write, userVars, OwnRows
<1>10. CASE WriteFails(c)
  BY <1>10 DEF WriteFails, userVars, OwnRows
<1>11. CASE WriteSkipped(c)
  BY <1>11 DEF WriteSkipped, userVars, OwnRows
<1>12. CASE CommitOwn(c)
  BY <1>12 DEF CommitOwn, userVars, OwnRows, Written
<1>13. CASE CommitOwnFails(c)
  BY <1>13 DEF CommitOwnFails, userVars, OwnRows
<1>14. CASE RollbackOwn(c)
  BY <1>14 DEF RollbackOwn, userVars, OwnRows
<1>15. CASE LeaveTx(c)
  BY <1>15 DEF LeaveTx, userVars, OwnRows
<1>16. CASE ReturnNested(c)
  BY <1>16 DEF ReturnNested, userVars, OwnRows
<1>17. CASE ReturnToUserTx(c)
  BY <1>17 DEF ReturnToUserTx, userVars, OwnRows
<1>18. CASE ReturnOp(c)
  BY <1>18 DEF ReturnOp, OwnRows
<1>19. CASE SaveFallbackInTx(c)
  BY <1>19 DEF SaveFallbackInTx, userVars, OwnRows
<1>20. CASE SaveFallbackOp(c)
  BY <1>20 DEF SaveFallbackOp, NewUnit, OwnRows
<1>21. CASE Panic(c)
  BY <1>21 DEF Panic, OwnRows
<1> QED BY <1>1, <1>2, <1>3, <1>4, <1>5, <1>6, <1>7, <1>8, <1>9, <1>10, <1>11, <1>12, <1>13, <1>14, <1>15, <1>16, <1>17, <1>18, <1>19, <1>20, <1>21 DEF Callback

LEMMA UserRows ==
  ASSUME TypeOK, NEW c \in Clients, User(c)
  PROVE  OwnRows(c)
<1>1. CASE StartOp(c)
  BY <1>1 DEF StartOp, NewUnit, OwnRows
<1>2. CASE UserBegin(c)
  BY <1>2 DEF UserBegin, NewUnit, OwnRows
<1>3. CASE UserOp(c)
  BY <1>3 DEF UserOp, userVars, OwnRows
<1>4. CASE UserAddError(c)
  BY <1>4 DEF UserAddError, OwnRows
<1>5. CASE UserCommit(c)
  BY <1>5 DEF UserCommit, CommitTx, OwnRows, Written
<1>6. CASE UserRollback(c)
  BY <1>6 DEF UserRollback, RollbackTx, OwnRows
<1>7. CASE BlockReturns(c)
  BY <1>7 DEF BlockReturns, CommitTx, RollbackTx, OwnRows, Written
<1> QED BY <1>1, <1>2, <1>3, <1>4, <1>5, <1>6, <1>7 DEF User, UserEnds

\* The invariant of a client survives the steps of the others.
LEMMA OthersInv ==
  ASSUME TypeOK, NEW c \in Clients, OthersKeep(c), OwnRows(c),
         NEW x \in Clients, x # c, ClientInv(x)
  PROVE  ClientInv(x)'
<1>1. /\ mode'[x] = mode[x] /\ unit'[x] = unit[x] /\ tx'[x] = tx[x]
      /\ stack'[x] = stack[x] /\ depth'[x] = depth[x]
      /\ skipped \subseteq skipped'
  BY DEF OthersKeep, OwnRows
<1>2. \A u : Written(x, u)' = Written(x, u)
  BY DEF OwnRows, Written
<1>3. \A u : Written(x, u) \cap store' = Written(x, u) \cap store
  BY DEF OwnRows, Written
<1>4. StackInv(x)'
  <2>1. \A d \in 1 .. MaxDepth : ScopeInv(x, d, stack[x][d]) => ScopeInv(x, d, stack[x][d])'
    BY <1>1 DEF ScopeInv, InUserTx
  <2>2. \A d, e \in 1 .. MaxDepth : NestInv(stack[x][e], stack[x][d]) => NestInv(stack[x][e], stack[x][d])'
    BY <1>1 DEF NestInv
  <2>3. \A d \in 1 .. MaxDepth :
          BeganInv(stack[x][d - 1], stack[x][d]) => BeganInv(stack[x][d - 1], stack[x][d])'
    BY <1>1 DEF BeganInv
  <2>4. TopInv(x, depth[x], Top(x)) => TopInv(x, depth[x], Top(x))'
    BY <1>1 DEF TopInv, Top
  <2>5. StackInv(x)
    BY DEF ClientInv
  <2> QED BY <1>1, <2>1, <2>2, <2>3, <2>4, <2>5 DEF StackInv
<1>5. RowsInv(x)'
  <2>1. RowsInv(x)
    BY DEF ClientInv
  <2>2. Written(x, unit[x])' = Written(x, unit[x])
    BY <1>1, <1>2
  <2>3. Written(x, unit[x]) \cap store' = Written(x, unit[x]) \cap store
    BY <1>3
  <2>4. Written(x, unit[x]) \subseteq store => Written(x, unit[x]) \subseteq store'
    BY DEF OwnRows
  <2> QED BY <1>1, <2>1, <2>2, <2>3, <2>4 DEF RowsInv
<1>6. OneOrNone(x)'
  <2>1. \A u \in Units : Written(x, u) \subseteq store => Written(x, u) \subseteq store'
    BY DEF OwnRows
  <2> QED BY <1>2, <1>3, <2>1 DEF OneOrNone, ClientInv
<1>7. Past(x)'
  BY <1>1 DEF OwnRows, Past, ClientInv
<1>8. LeakInv(x)'
  BY <1>1 DEF OwnRows, LeakInv, ClientInv
<1> QED BY <1>4, <1>5, <1>6, <1>7, <1>8 DEF ClientInv

\* A new unit has written nothing yet.
LEMMA NothingWritten ==
  ASSUME TypeOK, NEW c \in Clients, Past(c), NewUnit(c), log' = log
  PROVE  unit'[c] = unit[c] + 1 /\ Written(c, unit[c])' = {}
<1>1. unit'[c] = unit[c] + 1 /\ unit[c] \in Nat
  BY DEF NewUnit, TypeOK
<1>2. \A r \in log : r[1] = c => r[2] # unit[c] + 1
  <2>1. ASSUME NEW r \in log, r[1] = c
        PROVE  r[2] # unit[c] + 1
    <3>1. r[2] <= unit[c]
      BY <2>1 DEF Past
    <3> QED BY <1>1, <3>1
  <2> QED BY <2>1
<1> QED BY <1>1, <1>2 DEF Written

-----------------------------------------------------------------------------
(* The rows of the running unit.                                           *)

\* A transaction that comes to its end takes its rows along.
LEMMA EndRows ==
  ASSUME TypeOK, NEW c \in Clients, RowsInv(c), log' = log, unit'[c] = unit[c],
         \/ /\ tx[c] = "open" /\ tx'[c] = "committed"
            /\ store' = store \cup Written(c, unit[c])
         \/ /\ tx'[c] = IF tx[c] = "open" THEN "rolledback" ELSE tx[c]
            /\ store' = store
  PROVE  RowsInv(c)'
  BY DEF RowsInv, Written, TypeOK

LEMMA CallbackRowsInv ==
  ASSUME TypeOK, Busy, NEW c \in Clients, StackInv(c), RowsInv(c), Past(c), Callback(c)
  PROVE  RowsInv(c)'
<1>0. depth[c] > 0 => /\ Top(c) \in Frame
                      /\ ScopeInv(c, depth[c], Top(c))
                      /\ TopInv(c, depth[c], Top(c))
  BY TopFacts
<1>1. CASE Write(c)
  <2>1. Top(c).onTx /\ tx[c] = "open"
    BY <1>0, <1>1 DEF Write, At, ScopeInv
  <2>2. store' = store /\ unit' = unit /\ tx' = tx
    BY <1>1, <2>1 DEF Write, userVars
  <2>3. PICK row : row = <<c, unit[c], Top(c).key>> /\ log' = log \cup {row}
    BY <1>1 DEF Write
  <2>4. row \notin store
    BY <2>1, <2>3 DEF RowsInv, Written, TypeOK
  <2>5. Written(c, unit[c])' \cap store' = {}
    BY <2>1, <2>2, <2>3, <2>4 DEF RowsInv, Written
  <2> QED BY <2>1, <2>2, <2>5 DEF RowsInv
<1>2. CASE BeginOwn(c)
  <2>1. /\ tx'[c] = "open" /\ store' = store /\ unit' = unit /\ log' = log
        /\ depth[c] > 0 /\ Top(c).pc = "begin" /\ ~Top(c).onTx
    BY <1>2 DEF BeginOwn, userVars, At, TypeOK
  <2>2. tx[c] \in {"none", "rolledback"}
    BY <1>0, <2>1 DEF TopInv
  <2>3. Written(c, unit[c]) \cap store = {}
    BY <2>2 DEF RowsInv
  <2> QED BY <2>1, <2>3 DEF RowsInv, Written
<1>3. CASE CommitOwn(c)
  BY <1>3, EndRows DEF CommitOwn, userVars, TypeOK
<1>4. CASE CommitOwnFails(c) \/ RollbackOwn(c)
  BY <1>4, EndRows DEF CommitOwnFails, RollbackOwn, userVars, TypeOK
<1>5. CASE Panic(c)
  <2>1. depth[c] > 0 /\ store' = store /\ unit' = unit /\ log' = log
    BY <1>5 DEF Panic, At
  <2>2. tx[c] = "open" => Top(c).onTx
    BY <1>0, <2>1 DEF TopInv
  <2>3. tx'[c] = IF tx[c] = "open" THEN "rolledback" ELSE tx[c]
    BY <1>5, <2>2 DEF Panic, TypeOK
  <2> QED BY <2>1, <2>3, EndRows
<1>6. CASE SaveFallbackOp(c)
  <2>1. Written(c, unit[c])' = {}
    BY <1>6, NothingWritten DEF SaveFallbackOp
  <2> QED BY <2>1 DEF RowsInv
<1>7. CASE UNCHANGED <<log, store, tx, unit>>
  BY <1>7 DEF RowsInv, Written
<1>8. \/ UNCHANGED <<log, store, tx, unit>>
      \/ Write(c) \/ BeginOwn(c) \/ CommitOwn(c) \/ CommitOwnFails(c)
      \/ RollbackOwn(c) \/ Panic(c) \/ SaveFallbackOp(c)
  BY DEF Callback, userVars, Assign, JoinTx, BeginFails, Hook, HookSkips,
         SaveAssociation, AssociationsDone, WriteFails, WriteSkipped, LeaveTx,
         ReturnNested, ReturnToUserTx, ReturnOp, SaveFallbackInTx
<1> QED BY <1>1, <1>2, <1>3, <1>4, <1>5, <1>6, <1>7, <1>8

LEMMA UserRowsInv ==
  ASSUME TypeOK, NEW c \in Clients, RowsInv(c), Past(c), User(c)
  PROVE  RowsInv(c)'
<1>1. CASE StartOp(c) \/ UserBegin(c)
  <2>1. Written(c, unit[c])' = {}
    BY <1>1, NothingWritten DEF StartOp, UserBegin
  <2> QED BY <2>1 DEF RowsInv
<1>2. CASE UserCommit(c) \/ UserRollback(c) \/ BlockReturns(c)
  <2>1. CommitTx(c) \/ RollbackTx(c)
    BY <1>2 DEF UserCommit, UserRollback, BlockReturns
  <2>2. log' = log /\ unit' = unit
    BY <1>2 DEF UserCommit, UserRollback, BlockReturns
  <2> QED BY <2>1, <2>2, EndRows DEF CommitTx, RollbackTx, TypeOK
<1>3. CASE UserOp(c) \/ UserAddError(c)
  <2>1. UNCHANGED <<log, store, tx, unit>>
    BY <1>3 DEF UserOp, UserAddError, userVars
  <2> QED BY <2>1 DEF RowsInv, Written
<1> QED BY <1>1, <1>2, <1>3 DEF User, UserEnds

-----------------------------------------------------------------------------
(* Units, and the transactions they leave behind.                          *)

LEMMA UnitCounts ==
  ASSUME TypeOK, NEW c \in Clients, Callback(c) \/ User(c)
  PROVE  \/ unit' = unit /\ leaked' = leaked
         \/ NewUnit(c) /\ log' = log /\ store' = store
<1>1. CASE Callback(c)
  BY <1>1 DEF Callback, userVars, Assign, JoinTx, BeginOwn, BeginFails, Hook, HookSkips,
        SaveAssociation, AssociationsDone, Write, WriteFails, WriteSkipped, CommitOwn,
        CommitOwnFails, RollbackOwn, LeaveTx, ReturnNested, ReturnToUserTx, ReturnOp,
        SaveFallbackInTx, SaveFallbackOp, Panic
<1>2. CASE User(c)
  BY <1>2 DEF User, UserEnds, userVars, StartOp, UserBegin, UserOp, UserAddError,
        UserCommit, UserRollback, BlockReturns
<1> QED BY <1>1, <1>2

LEMMA PastStep ==
  ASSUME TypeOK, NEW c \in Clients, Past(c), OwnRows(c), Callback(c) \/ User(c)
  PROVE  Past(c)'
<1>1. unit'[c] \in {unit[c], unit[c] + 1} /\ unit[c] \in Nat
  BY UnitCounts DEF NewUnit, TypeOK
<1>2. ASSUME NEW r \in log', r[1] = c
      PROVE  r[2] <= unit'[c]
  <2>1. CASE r \in log
    <3>1. r[2] <= unit[c] /\ r[2] \in Nat
      BY <1>2, <2>1 DEF Past, TypeOK, Rows, Units
    <3> QED BY <1>1, <3>1
  <2>2. CASE r \notin log
    <3>1. r[2] = unit[c]
      BY <1>2, <2>2 DEF OwnRows
    <3> QED BY <1>1, <3>1
  <2> QED BY <2>1, <2>2
<1> QED BY <1>2 DEF Past

\* Units that are over keep their rows as they are.
LEMMA OneOrNoneStep ==
  ASSUME TypeOK, TypeOK', NEW c \in Clients, OneOrNone(c), RowsInv(c)', OwnRows(c),
         Callback(c) \/ User(c)
  PROVE  OneOrNone(c)'
<1>1. CASE NewUnit(c) /\ log' = log /\ store' = store
  BY <1>1 DEF OneOrNone, Written
<1>2. CASE unit' = unit
  <2>1. ASSUME NEW u \in Units
        PROVE  Written(c, u)' \subseteq store' \/ Written(c, u)' \cap store' = {}
    <3>1. CASE u = unit[c]
      <4>1. tx'[c] \in {"none", "nil", "open", "committed", "rolledback"}
        BY DEF TypeOK
      <4> QED BY <1>2, <3>1, <4>1 DEF RowsInv
    <3>2. CASE u # unit[c]
      <4>1. Written(c, u)' = Written(c, u) /\ Written(c, u) \cap store' = Written(c, u) \cap store
        BY <3>2 DEF OwnRows, Written
      <4> QED BY <4>1 DEF OneOrNone
    <3> QED BY <3>1, <3>2
  <2> QED BY <2>1 DEF OneOrNone
<1> QED BY <1>1, <1>2, UnitCounts

\* An operation that is over on the shared handle holds a transaction only
\* if a hook made it skip the rest of its chain.
LEMMA DoneHoldsNothing ==
  ASSUME TypeOK, NEW c \in Clients, StackInv(c), At(c, "done"), depth[c] = 1,
         ~InUserTx(c), tx[c] = "open"
  PROVE  <<c, unit[c]>> \in skipped
<1>1. ScopeInv(c, 1, Top(c)) /\ TopInv(c, 1, Top(c)) /\ Top(c) \in Frame
  BY TopFacts
<1>2. Top(c).onTx
  BY <1>1 DEF TopInv
<1> QED BY <1>1, <1>2 DEF ScopeInv, At

\* Callbacks run on a scope, and scopes belong to a unit.
LEMMA CallbackRuns ==
  ASSUME TypeOK, Busy, NEW c \in Clients, Callback(c)
  PROVE  depth[c] > 0 /\ mode[c] # "idle"
<1>1. depth[c] > 0
  BY DEF Callback, Assign, JoinTx, BeginOwn, BeginFails, Hook, HookSkips,
        SaveAssociation, AssociationsDone, Write, WriteFails, WriteSkipped, CommitOwn,
        CommitOwnFails, RollbackOwn, LeaveTx, ReturnNested, ReturnToUserTx, ReturnOp,
        SaveFallbackInTx, SaveFallbackOp, NoRowsAffected, Panic, At, TypeOK
<1>2. depth[c] # 0
  BY <1>1 DEF TypeOK
<1> QED BY <1>1, <1>2 DEF Busy

\* How a client comes to be idle, or to begin a new unit.
LEMMA CallbackLeaks ==
  ASSUME TypeOK, Busy, NEW c \in Clients, StackInv(c), LeakInv(c), OwnRows(c), Callback(c)
  PROVE  LeakInv(c)'
<1>0. mode[c] # "idle" /\ depth[c] > 0
  BY CallbackRuns
<1>1. CASE ReturnOp(c)
  <2>1. tx[c] = "open" => <<c, unit[c]>> \in skipped
    BY <1>1, DoneHoldsNothing DEF ReturnOp
  <2>2. leaked' = leaked /\ skipped' = skipped /\ tx' = tx /\ unit' = unit
    BY <1>1 DEF ReturnOp
  <2> QED BY <2>1, <2>2 DEF LeakInv
<1>2. CASE SaveFallbackOp(c)
  <2>1. tx[c] = "open" => <<c, unit[c]>> \in skipped
    BY <1>2, DoneHoldsNothing DEF SaveFallbackOp, NoRowsAffected
  <2>2. mode'[c] # "idle" /\ skipped' = skipped
    BY <1>0, <1>2 DEF SaveFallbackOp
  <2> QED BY <2>1, <2>2 DEF LeakInv, OwnRows
<1>3. CASE Panic(c)
  <2>1. TopInv(c, depth[c], Top(c))
    BY <1>0, TopFacts
  <2>2. tx'[c] # "open" /\ leaked' = leaked /\ skipped' = skipped
    BY <1>3, <2>1 DEF Panic, TopInv, TypeOK
  <2> QED BY <2>2 DEF LeakInv
<1>4. CASE mode' = mode /\ leaked' = leaked
  BY <1>0, <1>4 DEF LeakInv, OwnRows
<1>5. \/ mode' = mode /\ leaked' = leaked
      \/ ReturnOp(c) \/ SaveFallbackOp(c) \/ Panic(c)
  BY DEF Callback, userVars, Assign, JoinTx, BeginOwn, BeginFails, Hook, HookSkips,
        SaveAssociation, AssociationsDone, Write, WriteFails, WriteSkipped, CommitOwn,
        CommitOwnFails, RollbackOwn, LeaveTx, ReturnNested, ReturnToUserTx,
        SaveFallbackInTx
<1> QED BY <1>1, <1>2, <1>3, <1>4, <1>5

LEMMA UserLeaks ==
  ASSUME TypeOK, NEW c \in Clients, LeakInv(c), OwnRows(c), User(c)
  PROVE  LeakInv(c)'
<1>1. CASE StartOp(c) \/ UserBegin(c)
  <2>1. mode[c] = "idle" /\ mode'[c] # "idle" /\ skipped' = skipped
    BY <1>1 DEF StartOp, UserBegin, TypeOK
  <2> QED BY <2>1 DEF LeakInv, OwnRows
<1>2. CASE UserCommit(c) \/ UserRollback(c) \/ BlockReturns(c)
  <2>1. tx'[c] # "open" /\ leaked' = leaked /\ skipped' = skipped
    BY <1>2 DEF UserCommit, UserRollback, BlockReturns, CommitTx, RollbackTx, TypeOK
  <2> QED BY <2>1 DEF LeakInv
<1>3. CASE UserOp(c) \/ UserAddError(c)
  <2>1. mode[c] # "idle" /\ mode' = mode /\ leaked' = leaked /\ skipped' = skipped
    BY <1>3 DEF UserOp, UserAddError, UserIdle, InUserTx, userVars
  <2> QED BY <2>1 DEF LeakInv
<1> QED BY <1>1, <1>2, <1>3 DEF User, UserEnds

\* Scopes exist only inside units.
LEMMA BusyStep ==
  ASSUME TypeOK, Busy, NEW c \in Clients, Callback(c) \/ User(c)
  PROVE  Busy'
<1>1. OthersKeep(c)
  BY CallbackOthers, UserOthers
<1>2. mode[c] = "idle" => NewUnit(c)
  <2>1. CASE Callback(c)
    BY <2>1, CallbackRuns
  <2>2. CASE User(c)
    BY <2>2 DEF User, UserEnds, StartOp, UserBegin, UserOp, UserAddError,
         UserCommit, UserRollback, BlockReturns, UserIdle, InUserTx
  <2> QED BY <2>1, <2>2
<1>3. unit'[c] > 0
  <2>1. unit[c] \in Nat
    BY DEF TypeOK
  <2>2. CASE NewUnit(c)
    BY <2>1, <2>2 DEF NewUnit, TypeOK
  <2>3. CASE ~NewUnit(c)
    <3>1. unit' = unit /\ mode[c] # "idle"
      BY <1>2, <2>3, UnitCounts
    <3> QED BY <2>1, <3>1 DEF Busy
  <2> QED BY <2>2, <2>3
<1>4. mode'[c] = "idle" => depth'[c] = 0
  <2>1. CASE Callback(c)
    <3>1. mode[c] # "idle"
      BY <2>1, CallbackRuns
    <3>2. CASE ReturnOp(c) \/ Panic(c)
      BY <3>2 DEF ReturnOp, Panic, TypeOK
    <3>3. CASE ~(ReturnOp(c) \/ Panic(c))
      <4>1. mode' = mode
        BY <2>1, <3>3 DEF Callback, userVars, Assign, JoinTx, BeginOwn, BeginFails, Hook,
          HookSkips, SaveAssociation, AssociationsDone, Write, WriteFails, WriteSkipped,
          CommitOwn, CommitOwnFails, RollbackOwn, LeaveTx, ReturnNested, ReturnToUserTx,
          SaveFallbackInTx, SaveFallbackOp
      <4> QED BY <3>1, <4>1
    <3> QED BY <3>2, <3>3
  <2>2. CASE StartOp(c) \/ UserBegin(c)
    BY <2>2 DEF StartOp, UserBegin, TypeOK
  <2>3. CASE UserOp(c)
    BY <2>3 DEF UserOp, UserIdle, InUserTx, userVars
  <2>4. CASE UserAddError(c)
    BY <2>4 DEF UserAddError, UserIdle
  <2>5. CASE UserCommit(c) \/ UserRollback(c) \/ BlockReturns(c)
    BY <2>5 DEF UserCommit, UserRollback, BlockReturns, UserIdle
  <2> QED BY <2>1, <2>2, <2>3, <2>4, <2>5 DEF User, UserEnds
<1> QED BY <1>1, <1>3, <1>4 DEF Busy, OthersKeep

-----------------------------------------------------------------------------
(* The invariant, and what it says to the callers.                         *)

LEMMA InitInv == Init => IInv
<1> SUFFICES ASSUME Init PROVE IInv
  OBVIOUS
<1> USE BoundsAssumption
<1>1. TypeOK
  <2>1. Blank \in Frame
    BY BlankType
  <2> QED BY <2>1 DEF Init, TypeOK
<1>2. Busy
  BY DEF Init, Busy
<1>3. ASSUME NEW c \in Clients
      PROVE  ClientInv(c)
  <2>1. StackInv(c)
    BY DEF Init, StackInv
  <2>2. \A u : Written(c, u) = {}
    BY DEF Init, Written
  <2> QED BY <2>1, <2>2 DEF Init, ClientInv, RowsInv, OneOrNone, Past, LeakInv
<1> QED BY <1>1, <1>2, <1>3 DEF IInv

LEMMA NextInv == IInv /\ [Next]_vars => IInv'
<1> SUFFICES ASSUME IInv, [Next]_vars PROVE IInv'
  OBVIOUS
<1>1. TypeOK /\ Busy /\ \A c \in Clients : ClientInv(c)
  BY DEF IInv
<1>2. CASE UNCHANGED vars
  <2>1. TypeOK' /\ Busy'
    BY <1>1, <1>2 DEF vars, TypeOK, Busy
  <2>2. ASSUME NEW c \in Clients
        PROVE  ClientInv(c)'
    <3>1. ClientInv(c)
      BY <1>1
    <3> QED BY <1>2, <3>1 DEF vars, ClientInv, StackInv, ScopeInv, NestInv, BeganInv, TopInv,
          InUserTx, Top, RowsInv, OneOrNone, Past, LeakInv, Written
  <2> QED BY <2>1, <2>2 DEF IInv
<1>3. ASSUME NEW c \in Clients, Callback(c) \/ User(c)
      PROVE  IInv'
  <2>1. ClientInv(c) /\ StackInv(c) /\ RowsInv(c) /\ OneOrNone(c) /\ Past(c) /\ LeakInv(c)
    BY <1>1 DEF ClientInv
  <2>2. TypeOK'
    BY <1>1, <1>3, CallbackTypes, UserTypes
  <2>3. Busy'
    BY <1>1, <1>3, BusyStep
  <2>4. OthersKeep(c) /\ OwnRows(c)
    BY <1>1, <1>3, CallbackOthers, UserOthers, CallbackRows, UserRows
  <2>5. StackInv(c)'
    BY <1>1, <1>3, <2>1, CallbackStack, UserStack
  <2>6. RowsInv(c)'
    BY <1>1, <1>3, <2>1, CallbackRowsInv, UserRowsInv
  <2>7. OneOrNone(c)'
    BY <1>1, <1>3, <2>1, <2>2, <2>4, <2>6, OneOrNoneStep
  <2>8. Past(c)'
    BY <1>1, <1>3, <2>1, <2>4, PastStep
  <2>9. LeakInv(c)'
    BY <1>1, <1>3, <2>1, <2>4, CallbackLeaks, UserLeaks
  <2>10. ClientInv(c)'
    BY <2>5, <2>6, <2>7, <2>8, <2>9 DEF ClientInv
  <2>11. ASSUME NEW x \in Clients, x # c
         PROVE  ClientInv(x)'
    BY <1>1, <2>4, <2>11, OthersInv
  <2> QED BY <2>2, <2>3, <2>10, <2>11 DEF IInv
<1> QED BY <1>2, <1>3 DEF Next

LEMMA Invariance == Spec => []IInv
<1> QED BY InitInv, NextInv, PTL DEF Spec

\* Every variable keeps its type.
THEOREM Types == Spec => []TypeOK
<1>1. IInv => TypeOK
  BY DEF IInv
<1> QED BY <1>1, Invariance, PTL

\* The rows of one operation, its associations' included, or of one caller
\* transaction, show together or not at all, whatever fails, skips or panics
\* (scope.CommitOrRollback, DB.Commit, DB.Rollback).
THEOREM Atomicity == Spec => []AllOrNothing
<1>1. IInv => AllOrNothing
  BY DEF IInv, ClientInv, OneOrNone, AllOrNothing
<1> QED BY <1>1, Invariance, PTL

\* Unless a hook called SkipLeft, a unit that is over has given its connection
\* back to the pool (scope.CommitOrRollback, the recover in callCallbacks).
THEOREM ConnectionsReturn == Spec => []NoLeak
<1>1. IInv => NoLeak
  <2> SUFFICES ASSUME IInv PROVE NoLeak
    OBVIOUS
  <2>1. \A c \in Clients : LeakInv(c)
    BY DEF IInv, ClientInv
  <2>2. leaked \subseteq skipped
    <3>1. ASSUME NEW l \in leaked
          PROVE  l \in skipped
      <4>1. PICK c \in Clients, u \in Units : l = <<c, u>>
        BY <3>1 DEF IInv, TypeOK
      <4> QED BY <2>1, <3>1, <4>1 DEF LeakInv
    <3> QED BY <3>1
  <2> QED BY <2>1, <2>2 DEF LeakInv, NoLeak
<1> QED BY <1>1, Invariance, PTL

\* No statement of a chain runs outside a transaction (scope.Begin adds the
\* error that keeps the write callbacks from running).
THEOREM NoBareWrites == Spec => []WritesInTx
<1>1. IInv => WritesInTx
  <2> SUFFICES ASSUME IInv, NEW c \in Clients, At(c, "write"), ~Top(c).err
               PROVE  Top(c).onTx
    BY DEF WritesInTx
  <2>1. TypeOK /\ StackInv(c) /\ depth[c] > 0 /\ Top(c).pc = "write"
    BY DEF IInv, ClientInv, At
  <2>2. ScopeInv(c, depth[c], Top(c)) /\ Top(c) \in Frame
    BY <2>1, TopFacts
  <2> QED BY <2>1, <2>2 DEF ScopeInv
<1> QED BY <1>1, Invariance, PTL

-----------------------------------------------------------------------------
(* Errors reach the caller.                                                *)

\* What an operation on the shared handle is answered: nothing while it runs; when
\* its transaction is committed its last scope is done and has no error.
Answered(c) ==
  /\ \A u \in Units : u > unit[c] => verdict[c][u] = "none"
  /\ mode[c] = "op" => unit[c] \in Units /\ verdict[c][unit[c]] = "none"
  /\ mode[c] = "op" /\ tx[c] = "committed" =>
       depth[c] = 1 /\ Top(c).pc = "done" /\ ~Top(c).err

AnswerInv == IInv /\ \A c \in Clients : Answered(c)

-----------------------------------------------------------------------------
\* Only the running unit of the client that takes the step is answered.
LEMMA VerdictKept ==
  ASSUME TypeOK, NEW c \in Clients, Callback(c) \/ User(c)
  PROVE  /\ \A x \in Clients : x # c => verdict'[x] = verdict[x]
         /\ \A u \in Units : u # unit[c] => verdict'[c][u] = verdict[c][u]
<1>1. verdict' = verdict \/ \E v : Report(c, v)
  BY DEF Callback, userVars, Assign, JoinTx, BeginOwn, BeginFails, Hook, HookSkips,
     SaveAssociation, AssociationsDone, Write, WriteFails, WriteSkipped, CommitOwn,
     CommitOwnFails, RollbackOwn, LeaveTx, ReturnNested, ReturnToUserTx, ReturnOp,
     SaveFallbackInTx, SaveFallbackOp, Panic, User, UserEnds, StartOp, UserBegin, UserOp,
     UserAddError, UserCommit, UserRollback, BlockReturns, CommitTx, RollbackTx
<1> QED BY <1>1 DEF Report, TypeOK

\* A scope above another never commits: one that owns a transaction there has the
\* error that came down to it.
LEMMA CommitsAlone ==
  ASSUME TypeOK, NEW c \in Clients, StackInv(c), CommitOwn(c)
  PROVE  /\ depth[c] = 1 /\ depth'[c] = 1
         /\ Top(c)'.pc = "done" /\ ~Top(c)'.err
<1> USE BoundsAssumption
<1>1. /\ depth[c] > 0 /\ Top(c).pc = "end" /\ Top(c).own /\ ~Top(c).err /\ depth' = depth
      /\ SetTop(c, Advance([Top(c) EXCEPT !.onTx = FALSE, !.own = FALSE]))
  BY DEF CommitOwn, At
<1>2. /\ Top(c) \in Frame /\ ScopeInv(c, depth[c], Top(c))
      /\ depth[c] > 1 => NestInv(stack[c][depth[c] - 1], Top(c))
  BY <1>1, TopFacts
<1>3. ~(depth[c] > 1) BY <1>1, <1>2 DEF NestInv
<1>4. depth[c] = 1 BY <1>1, <1>3 DEF TypeOK
<1>5. PICK f : f = [Top(c) EXCEPT !.onTx = FALSE, !.own = FALSE] OBVIOUS
<1>6. f \in Frame /\ f.pc = "end" /\ ~f.err
  <2>1. f \in Frame BY <1>2, <1>5 DEF Frame
  <2>2. f.pc = Top(c).pc /\ f.err = Top(c).err BY <1>2, <1>5 DEF Frame
  <2> QED BY <1>1, <2>1, <2>2
<1>7. Advance(f).pc = "done" /\ ~Advance(f).err
  BY <1>6, AdvanceFields DEF NextStep
<1>8. stack'[c][depth[c]] = Advance(f) BY <1>1, <1>5, SetTopAt
<1> QED BY <1>1, <1>4, <1>7, <1>8 DEF Top

\* The callbacks of an operation on the shared handle.
LEMMA OpCallbacks ==
  ASSUME TypeOK, Busy, NEW c \in Clients, mode[c] = "op", Callback(c)
  PROVE  \/ CommitOwn(c) /\ UNCHANGED <<mode, unit, verdict>>
         \/ ReturnOp(c) \/ Panic(c) \/ SaveFallbackOp(c)
         \/ /\ UNCHANGED <<mode, unit, verdict>>
            /\ tx'[c] = tx[c] \/ tx'[c] # "committed"
            /\ depth[c] = 1 => Top(c).pc # "done"
<1>1. ~InUserTx(c) BY DEF InUserTx
<1>2. UNCHANGED <<mode, unit, verdict>> \/ ReturnOp(c) \/ Panic(c) \/ SaveFallbackOp(c)
  BY DEF Callback, userVars, Assign, JoinTx, BeginOwn, BeginFails, Hook, HookSkips,
     SaveAssociation, AssociationsDone, Write, WriteFails, WriteSkipped, CommitOwn,
     CommitOwnFails, RollbackOwn, LeaveTx, ReturnNested, ReturnToUserTx, SaveFallbackInTx
<1>3. \/ CommitOwn(c) \/ ReturnOp(c) \/ Panic(c) \/ SaveFallbackOp(c)
      \/ tx'[c] = tx[c] \/ tx'[c] # "committed"
  BY DEF Callback, Assign, JoinTx, BeginOwn, BeginFails, Hook, HookSkips,
     SaveAssociation, AssociationsDone, Write, WriteFails, WriteSkipped,
     CommitOwnFails, RollbackOwn, LeaveTx, ReturnNested, ReturnToUserTx, SaveFallbackInTx,
     TypeOK
<1>4. CASE ReturnNested(c) \/ ReturnToUserTx(c) \/ SaveFallbackInTx(c)
  <2>1. depth[c] > 1 BY <1>1, <1>4 DEF ReturnNested, ReturnToUserTx, SaveFallbackInTx
  <2>2. ~(depth[c] = 1) BY <2>1
  <2> QED BY <1>2, <1>3, <2>2
<1>5. CASE \E pc \in {"assign", "begin", "before", "assocBefore", "write", "assocAfter",
                     "after", "end"} : At(c, pc)
  <2>1. Top(c).pc # "done" BY <1>5 DEF At
  <2> QED BY <1>2, <1>3, <2>1
<1>6. \/ ReturnNested(c) \/ ReturnToUserTx(c) \/ SaveFallbackInTx(c)
      \/ ReturnOp(c) \/ Panic(c) \/ SaveFallbackOp(c)
      \/ \E pc \in {"assign", "begin", "before", "assocBefore", "write", "assocAfter",
                   "after", "end"} : At(c, pc)
  BY DEF Callback, Assign, JoinTx, BeginOwn, BeginFails, Hook, HookSkips,
     SaveAssociation, AssociationsDone, Write, WriteFails, WriteSkipped, CommitOwn,
     CommitOwnFails, RollbackOwn, LeaveTx
<1> QED BY <1>4, <1>5, <1>6

\* A step after which no operation runs answers at most the unit that ran.
LEMMA UnitAnswers ==
  ASSUME TypeOK, NEW c \in Clients, Answered(c), Callback(c) \/ User(c),
         mode'[c] # "op", unit'[c] = unit[c] \/ unit'[c] = unit[c] + 1
  PROVE  Answered(c)'
<1>0. \A u \in Units : u # unit[c] => verdict'[c][u] = verdict[c][u]
  BY VerdictKept
<1>1. unit[c] \in Nat BY DEF TypeOK
<1>2. \A u \in Units : u > unit'[c] => u > unit[c] /\ u # unit[c]
  BY <1>1 DEF Units
<1> QED BY <1>0, <1>2 DEF Answered

\* What the client was answered stays right in each of its steps.
LEMMA AnsweredStep ==
  ASSUME TypeOK, Busy, NEW c \in Clients, StackInv(c), Answered(c), Callback(c) \/ User(c)
  PROVE  Answered(c)'
<1>0. \A u \in Units : u # unit[c] => verdict'[c][u] = verdict[c][u]
  BY VerdictKept
<1>1. CASE User(c)
  <2>1. CASE StartOp(c)
    <3>1. /\ unit'[c] = unit[c] + 1 /\ unit[c] < MaxUnits /\ unit[c] \in Nat
          /\ tx'[c] = "none" /\ verdict' = verdict
      BY <2>1 DEF StartOp, NewUnit, TypeOK
    <3>2. unit'[c] \in Units BY <3>1, BoundsAssumption DEF Units
    <3> QED BY <3>1, <3>2 DEF Answered, Units
  <2>2. CASE ~StartOp(c)
    <3>1. mode'[c] # "op" /\ (unit'[c] = unit[c] \/ unit'[c] = unit[c] + 1)
      BY <1>1, <2>2 DEF User, UserEnds, UserBegin, UserOp, UserAddError, UserCommit,
         UserRollback, BlockReturns, UserIdle, InUserTx, userVars, NewUnit, TypeOK
    <3> QED BY <3>1, UnitAnswers
  <2> QED BY <2>1, <2>2
<1>2. CASE Callback(c) /\ mode[c] # "op"
  <2>1. ~SaveFallbackOp(c)
    <3>1. SaveFallbackOp(c) => depth[c] = 1 /\ mode[c] \notin {"manual", "block"}
      BY DEF SaveFallbackOp, InUserTx
    <3>2. mode[c] \in {"idle", "op", "manual", "block"} BY DEF TypeOK
    <3> QED BY <1>2, <3>1, <3>2 DEF Busy
  <2>2. CASE UNCHANGED <<mode, unit>> BY <1>2, <2>2, UnitAnswers
  <2>3. CASE ReturnOp(c) \/ Panic(c)
    <3>1. unit' = unit /\ (mode' = mode \/ mode'[c] = "idle")
      BY <2>3 DEF ReturnOp, Panic, TypeOK
    <3>2. mode'[c] # "op" BY <1>2, <3>1
    <3> QED BY <3>1, <3>2, UnitAnswers
  <2>4. UNCHANGED <<mode, unit>> \/ ReturnOp(c) \/ Panic(c) \/ SaveFallbackOp(c)
    BY <1>2 DEF Callback, userVars, Assign, JoinTx, BeginOwn, BeginFails, Hook, HookSkips,
     SaveAssociation, AssociationsDone, Write, WriteFails, WriteSkipped, CommitOwn,
     CommitOwnFails, RollbackOwn, LeaveTx, ReturnNested, ReturnToUserTx, SaveFallbackInTx
  <2> QED BY <2>1, <2>2, <2>3, <2>4
<1>3. CASE Callback(c) /\ mode[c] = "op"
  <2>1. CASE CommitOwn(c) /\ UNCHANGED <<mode, unit, verdict>>
    BY <2>1, CommitsAlone DEF Answered
  <2>2. CASE ReturnOp(c) \/ Panic(c)
    <3>1. mode'[c] = "idle" /\ unit' = unit BY <1>3, <2>2 DEF ReturnOp, Panic, TypeOK
    <3> QED BY <3>1, UnitAnswers
  <2>3. CASE SaveFallbackOp(c)
    <3>1. /\ unit'[c] = unit[c] + 1 /\ unit[c] < MaxUnits /\ unit[c] \in Nat
          /\ tx'[c] = "none"
      BY <2>3 DEF SaveFallbackOp, NewUnit, TypeOK
    <3>2. unit'[c] \in Units BY <3>1, BoundsAssumption DEF Units
    <3> QED BY <1>0, <3>1, <3>2 DEF Answered, Units
  <2>4. CASE /\ UNCHANGED <<mode, unit, verdict>>
             /\ tx'[c] = tx[c] \/ tx'[c] # "committed"
             /\ depth[c] = 1 => Top(c).pc # "done"
    BY <1>3, <2>4 DEF Answered
  <2> QED BY <1>3, <2>1, <2>2, <2>3, <2>4, OpCallbacks
<1> QED BY <1>1, <1>2, <1>3

LEMMA AnswersInvariant == Spec => []AnswerInv
<1>1. Init => \A c \in Clients : Answered(c)
  BY BoundsAssumption DEF Init, Answered, Units
<1>2. IInv /\ (\A c \in Clients : Answered(c)) /\ [Next]_vars
        => (\A c \in Clients : Answered(c))'
  <2> SUFFICES ASSUME IInv, \A c \in Clients : Answered(c), [Next]_vars, NEW x \in Clients
               PROVE  Answered(x)'
      OBVIOUS
  <2>0. TypeOK /\ Busy /\ Answered(x) /\ \A c \in Clients : StackInv(c)
    BY DEF IInv, ClientInv
  <2>1. CASE UNCHANGED vars BY <2>0, <2>1 DEF vars, Answered, Top
  <2>2. ASSUME NEW c \in Clients, Callback(c) \/ User(c) PROVE Answered(x)'
    <3>1. CASE x = c BY <2>0, <2>2, <3>1, AnsweredStep
    <3>2. CASE x # c
      <4>1. OthersKeep(c) /\ verdict'[x] = verdict[x]
        BY <2>0, <2>2, <3>2, CallbackOthers, UserOthers, VerdictKept
      <4> QED BY <2>0, <3>2, <4>1 DEF OthersKeep, Answered, Top
    <3> QED BY <3>1, <3>2
  <2> QED BY <2>1, <2>2 DEF Next
<1>3. IInv /\ (\A c \in Clients : Answered(c)) <=> AnswerInv BY DEF AnswerInv
<1> QED BY <1>1, <1>2, <1>3, Invariance, PTL DEF Spec

-----------------------------------------------------------------------------
\* A callback that stays in its scope keeps the scope's error.
LEMMA TopKeepsError ==
  ASSUME TypeOK, NEW c \in Clients, depth[c] > 0, Top(c).err,
         \/ Assign(c) \/ JoinTx(c) \/ BeginOwn(c) \/ BeginFails(c) \/ Hook(c)
         \/ HookSkips(c) \/ AssociationsDone(c) \/ Write(c) \/ WriteFails(c)
         \/ WriteSkipped(c) \/ CommitOwn(c) \/ CommitOwnFails(c)
         \/ RollbackOwn(c) \/ LeaveTx(c)
  PROVE  \E f : SetTop(c, f) /\ f.err
<1> DEFINE F == Top(c)
<1>0. F \in Frame BY TopType
<1>1. /\ [F EXCEPT !.err = TRUE] \in Frame /\ [F EXCEPT !.err = TRUE].err
      /\ [F EXCEPT !.onTx = TRUE, !.own = TRUE] \in Frame
      /\ [F EXCEPT !.onTx = TRUE, !.own = TRUE].err = F.err
      /\ [F EXCEPT !.onTx = FALSE, !.own = FALSE] \in Frame
      /\ [F EXCEPT !.onTx = FALSE, !.own = FALSE].err = F.err
      /\ [F EXCEPT !.onTx = FALSE, !.own = FALSE, !.err = TRUE] \in Frame
      /\ [F EXCEPT !.onTx = FALSE, !.own = FALSE, !.err = TRUE].err
      /\ [F EXCEPT !.pc = "done"].err = F.err
  BY <1>0 DEF Frame
<1>2. \A g \in Frame : Advance(g).err = g.err BY AdvanceFields
<1>3. CASE Assign(c) BY <1>0, <1>1, <1>2, <1>3 DEF Assign
<1>4. CASE JoinTx(c) \/ AssociationsDone(c) \/ WriteSkipped(c) \/ LeaveTx(c)
  BY <1>0, <1>2, <1>4 DEF JoinTx, AssociationsDone, WriteSkipped, LeaveTx
<1>5. CASE BeginOwn(c) \/ RollbackOwn(c) BY <1>1, <1>2, <1>5 DEF BeginOwn, RollbackOwn
<1>6. CASE BeginFails(c) \/ Hook(c)
  BY <1>0, <1>1, <1>2, <1>6 DEF BeginFails, Hook
<1>7. ~HookSkips(c) /\ ~Write(c) /\ ~WriteFails(c) /\ ~CommitOwn(c) /\ ~CommitOwnFails(c)
  BY DEF HookSkips, Write, WriteFails, CommitOwn, CommitOwnFails
<1> QED BY <1>3, <1>4, <1>5, <1>6, <1>7

\* A callback that leaves an operation under way keeps every error in its scope, or
\* hands it to the scope below.
LEMMA ErrorsStay ==
  ASSUME TypeOK, NEW c \in Clients, HasError(c), mode[c] = "op", Callback(c),
         ~ReturnOp(c), ~Panic(c), ~SaveFallbackOp(c)
  PROVE  HasError(c)' /\ UNCHANGED <<mode, unit>>
<1> USE BoundsAssumption
<1>0. UNCHANGED <<mode, unit>>
  BY DEF Callback, userVars, Assign, JoinTx, BeginOwn, BeginFails, Hook, HookSkips,
     SaveAssociation, AssociationsDone, Write, WriteFails, WriteSkipped, CommitOwn,
     CommitOwnFails, RollbackOwn, LeaveTx, ReturnNested, ReturnToUserTx, SaveFallbackInTx
<1>1. PICK d \in 1 .. depth[c] : stack[c][d].err BY DEF HasError
<1>2. depth[c] \in 1 .. MaxDepth /\ d \in 1 .. MaxDepth /\ depth[c] > 0
  BY <1>1 DEF TypeOK
<1>3. Top(c) \in Frame /\ Top(c) = stack[c][depth[c]]
  BY <1>2, TopType DEF Top
<1>4. CASE SaveAssociation(c)
  <2>1. /\ depth'[c] = depth[c] + 1
        /\ \E f : stack' = [stack EXCEPT ![c][depth[c] + 1] = f]
    BY <1>4 DEF SaveAssociation, Push, TypeOK
  <2>2. stack'[c][d] = stack[c][d] BY <1>1, <1>2, <2>1 DEF TypeOK
  <2> QED BY <1>0, <1>1, <1>2, <2>1, <2>2 DEF HasError
<1>5. CASE ReturnNested(c)
  <2>1. /\ depth[c] > 1 /\ depth'[c] = depth[c] - 1
        /\ stack'[c] = [stack[c] EXCEPT ![depth[c]] = Blank,
                          ![depth[c] - 1] = AddErr(stack[c][depth[c] - 1], Top(c).err)]
    BY <1>5 DEF ReturnNested, TypeOK
  <2>2. depth[c] - 1 \in 1 .. MaxDepth /\ depth[c] - 1 \in 1 .. depth'[c]
    BY <1>2, <2>1
  <2>3. CASE d \in 1 .. depth[c] - 2
    <3>1. stack'[c][d] = stack[c][d] BY <1>2, <2>1, <2>3 DEF TypeOK
    <3> QED BY <1>0, <1>1, <1>2, <2>1, <2>3, <3>1 DEF HasError
  <2>4. CASE d \in {depth[c] - 1, depth[c]}
    <3>1. PICK g \in Frame : g = stack[c][depth[c] - 1] BY <2>2 DEF TypeOK
    <3>2. stack'[c][depth[c] - 1] = AddErr(g, Top(c).err)
      BY <1>2, <2>1, <2>2, <3>1 DEF TypeOK
    <3>3. AddErr(g, Top(c).err).err BY <1>1, <1>3, <2>4, <3>1 DEF AddErr, Frame
    <3> QED BY <1>0, <2>2, <3>2, <3>3 DEF HasError
  <2> QED BY <1>2, <2>3, <2>4
<1>6. ASSUME NEW f, SetTop(c, f), depth' = depth,
             ~(\E e \in 1 .. depth[c] - 1 : stack[c][e].err) => f.err
      PROVE  HasError(c)'
  <2>1. /\ stack'[c][depth[c]] = f
        /\ \A e \in 1 .. MaxDepth : e # depth[c] => stack'[c][e] = stack[c][e]
    BY <1>2, <1>6, SetTopAt
  <2>2. CASE f.err BY <1>2, <1>6, <2>1, <2>2 DEF HasError
  <2>3. CASE \E e \in 1 .. depth[c] - 1 : stack[c][e].err
    <3>1. PICK e \in 1 .. depth[c] - 1 : stack[c][e].err BY <2>3
    <3>2. e \in 1 .. MaxDepth /\ e # depth[c] /\ e \in 1 .. depth[c] BY <1>2, <3>1
    <3> QED BY <1>6, <2>1, <3>1, <3>2 DEF HasError
  <2> QED BY <1>6, <2>2, <2>3
<1>7. ~(\E e \in 1 .. depth[c] - 1 : stack[c][e].err) => Top(c).err
  BY <1>1, <1>2, <1>3
<1>8. CASE SaveFallbackInTx(c)
  <2>1. PICK f : SetTop(c, f) BY <1>8 DEF SaveFallbackInTx
  <2>2. depth' = depth /\ ~Top(c).err BY <1>8 DEF SaveFallbackInTx, NoRowsAffected
  <2> QED BY <1>0, <1>6, <1>7, <2>1, <2>2
<1>9. CASE \/ Assign(c) \/ JoinTx(c) \/ BeginOwn(c) \/ BeginFails(c) \/ Hook(c)
           \/ HookSkips(c) \/ AssociationsDone(c) \/ Write(c) \/ WriteFails(c)
           \/ WriteSkipped(c) \/ CommitOwn(c) \/ CommitOwnFails(c)
           \/ RollbackOwn(c) \/ LeaveTx(c)
  <2>1. depth' = depth
    BY <1>9 DEF Assign, JoinTx, BeginOwn, BeginFails, Hook, HookSkips, AssociationsDone,
       Write, WriteFails, WriteSkipped, CommitOwn, CommitOwnFails, RollbackOwn, LeaveTx
  <2>2. \E f : SetTop(c, f) /\ (Top(c).err => f.err)
    <3>1. CASE Top(c).err BY <1>2, <1>9, <3>1, TopKeepsError
    <3>2. CASE ~Top(c).err
      <4>1. \E f : SetTop(c, f) BY <1>9, TopChanges
      <4> QED BY <3>2, <4>1
    <3> QED BY <3>1, <3>2
  <2> QED BY <1>0, <1>6, <1>7, <2>1, <2>2
<1>10. ~ReturnToUserTx(c) BY DEF ReturnToUserTx, InUserTx
<1> QED BY <1>4, <1>5, <1>8, <1>9, <1>10, <1>0 DEF Callback

\* Where the operation ends with an error it has published nothing.
LEMMA ErrorIsTold ==
  ASSUME AnswerInv, NEW c \in Clients, HasError(c), mode[c] = "op",
         ReturnOp(c) \/ Panic(c)
  PROVE  /\ mode'[c] = "idle" /\ verdict'[c][unit[c]] = "fail"
         /\ Written(c, unit[c]) \cap store' = {}
<1>0. /\ TypeOK /\ Busy /\ StackInv(c) /\ RowsInv(c) /\ Answered(c)
      /\ unit[c] \in Units /\ verdict[c][unit[c]] = "none"
  BY DEF AnswerInv, IInv, ClientInv, Answered
<1>1. mode'[c] = "idle" /\ store' = store BY <1>0 DEF ReturnOp, Panic, TypeOK
<1>2. ReturnOp(c) => Top(c).err
  <2>1. ReturnOp(c) => depth[c] = 1 BY DEF ReturnOp
  <2> QED BY <2>1 DEF HasError, Top
<1>3. verdict'[c][unit[c]] = "fail"
  <2>1. Report(c, "fail") BY <1>2 DEF ReturnOp, Panic, Verdict
  <2> QED BY <1>0, <2>1 DEF Report, TypeOK
<1>4. tx[c] # "committed"
  <2>1. SUFFICES ASSUME tx[c] = "committed" PROVE FALSE OBVIOUS
  <2>2. Top(c).pc = "done" /\ ~Top(c).err BY <1>0, <2>1 DEF Answered
  <2>3. Panic(c) => Top(c).pc # "done" BY DEF Panic, At
  <2> QED BY <1>2, <2>2, <2>3
<1>5. Written(c, unit[c]) \cap store = {} BY <1>0, <1>4 DEF RowsInv, TypeOK
<1> QED BY <1>1, <1>3, <1>5

\* An error of any callback, or of an association saved at any depth, stays with the
\* operation until its caller is told, and nothing of the operation is published
\* then (scope.Err, NewDB, CommitOrRollback, the recover in callCallbacks).
THEOREM ErrorsArrive == Spec => ErrorsReachCaller
<1>1. AnswerInv /\ [Next]_vars =>
       [\A c \in Clients : mode[c] = "op" /\ HasError(c) =>
          \/ HasError(c)' /\ mode'[c] = "op" /\ unit'[c] = unit[c]
          \/ /\ mode'[c] = "idle" /\ verdict'[c][unit[c]] = "fail"
             /\ Written(c, unit[c]) \cap store' = {}]_vars
  <2> SUFFICES ASSUME AnswerInv, Next, NEW c \in Clients, mode[c] = "op", HasError(c)
               PROVE  \/ HasError(c)' /\ mode'[c] = "op" /\ unit'[c] = unit[c]
                      \/ /\ mode'[c] = "idle" /\ verdict'[c][unit[c]] = "fail"
                         /\ Written(c, unit[c]) \cap store' = {}
      BY DEF vars
  <2>0. TypeOK /\ Busy BY DEF AnswerInv, IInv
  <2>1. PICK x \in Clients : Callback(x) \/ User(x) BY DEF Next
  <2>2. CASE x # c
    <3>1. OthersKeep(x) BY <2>0, <2>1, CallbackOthers, UserOthers
    <3> QED BY <2>2, <3>1 DEF OthersKeep, HasError
  <2>3. CASE x = c
    <3>1. Callback(c)
      <4>1. ~User(c)
        BY DEF User, UserEnds, StartOp, UserBegin, UserOp, UserAddError, UserCommit,
           UserRollback, BlockReturns, UserIdle, InUserTx
      <4> QED BY <2>1, <2>3, <4>1
    <3>2. ~SaveFallbackOp(c)
      <4>1. SaveFallbackOp(c) => depth[c] = 1 /\ ~Top(c).err
        BY DEF SaveFallbackOp, NoRowsAffected
      <4>2. depth[c] = 1 => Top(c).err BY DEF HasError, Top
      <4> QED BY <4>1, <4>2
    <3>3. CASE ReturnOp(c) \/ Panic(c) BY <3>3, ErrorIsTold
    <3>4. CASE ~ReturnOp(c) /\ ~Panic(c)
      BY <2>0, <3>1, <3>2, <3>4, ErrorsStay
    <3> QED BY <3>3, <3>4
  <2> QED BY <2>2, <2>3
<1> QED BY <1>1, AnswersInvariant, PTL DEF Spec, ErrorsReachCaller

-----------------------------------------------------------------------------
(* Who ends a transaction.                                                 *)

\* The callbacks after which a client's transaction may be another.
LEMMA TxChanges ==
  ASSUME NEW c \in Clients, Callback(c), ~BeginOwn(c), ~CommitOwn(c), ~CommitOwnFails(c),
         ~RollbackOwn(c), ~SaveFallbackOp(c), ~Panic(c)
  PROVE  tx' = tx
  BY DEF Callback, Assign, JoinTx, BeginFails, Hook, HookSkips, SaveAssociation,
     AssociationsDone, Write, WriteFails, WriteSkipped, LeaveTx, ReturnNested,
     ReturnToUserTx, ReturnOp, SaveFallbackInTx

\* A scope that owns a transaction is not in the caller's, and no scope below it is
\* in one.
LEMMA OwnerIsAlone ==
  ASSUME TypeOK, NEW c \in Clients, StackInv(c), depth[c] > 0, Top(c).own
  PROVE  ~InUserTx(c) /\ \A d \in 1 .. depth[c] - 1 : ~stack[c][d].onTx
<1> USE BoundsAssumption
<1>0. depth[c] \in 1 .. MaxDepth BY DEF TypeOK
<1>1. ScopeInv(c, depth[c], Top(c)) BY TopFacts
<1>2. ASSUME NEW d \in 1 .. depth[c] - 1
      PROVE  ~stack[c][d].onTx /\ ScopeInv(c, d, stack[c][d])
  <2>1. d \in 1 .. MaxDepth /\ d < depth[c] BY <1>0
  <2> QED BY <2>1, TopFacts DEF NestInv
<1>3. ~InUserTx(c)
  <2>1. CASE depth[c] = 1 BY <1>1, <2>1 DEF ScopeInv
  <2>2. CASE depth[c] # 1
    <3>1. 1 \in 1 .. depth[c] - 1 BY <1>0, <2>2
    <3> QED BY <1>2, <3>1 DEF ScopeInv
  <2> QED BY <2>1, <2>2
<1> QED BY <1>2, <1>3

\* Inside the caller's transaction every scope is in it and owns none.
LEMMA InnerScopes ==
  ASSUME TypeOK, NEW c \in Clients, StackInv(c), depth[c] > 0, InUserTx(c)
  PROVE  Top(c).onTx /\ ~Top(c).own
<1> USE BoundsAssumption
<1>0. depth[c] \in 1 .. MaxDepth BY DEF TypeOK
<1>1. ~Top(c).own BY OwnerIsAlone
<1>2. CASE depth[c] = 1 BY <1>2, TopFacts DEF ScopeInv
<1>3. CASE depth[c] # 1
  <2>1. 1 \in 1 .. MaxDepth /\ 1 < depth[c] BY <1>0, <1>3
  <2>2. ScopeInv(c, 1, stack[c][1]) /\ NestInv(stack[c][1], Top(c)) BY <2>1, TopFacts
  <2> QED BY <1>1, <2>2 DEF ScopeInv, NestInv
<1> QED BY <1>1, <1>2, <1>3

\* The caller acts while no operation of its own is running.
LEMMA CallerActs ==
  ASSUME TypeOK, Busy, NEW c \in Clients, User(c)
  PROVE  depth[c] = 0 /\ ~Callback(c)
<1>1. depth[c] = 0
  BY DEF Busy, User, UserEnds, StartOp, UserBegin, UserOp, UserAddError, UserCommit,
     UserRollback, BlockReturns, UserIdle
<1>2. Callback(c) => depth[c] > 0 BY CallbackRuns
<1> QED BY <1>1, <1>2 DEF TypeOK

\* A transaction is ended by whoever began it: an operation inside a caller's
\* transaction, and an association saved inside an operation's, never end it while
\* they run; only a panic, which empties the stack, ends it from inside
\* (scope.Begin, scope.CommitOrRollback and gorm:started_transaction).
THEOREM EndedByStarter == Spec => StarterEnds
<1>1. IInv /\ [Next]_vars =>
       [\A c \in Clients :
         tx[c] = "open" /\ tx'[c] # "open" /\ depth[c] > 0 /\ depth'[c] > 0 =>
           \/ unit'[c] # unit[c]
           \/ ~InUserTx(c) /\ \A d \in 1 .. depth[c] - 1 : ~stack[c][d].onTx]_vars
  <2> SUFFICES ASSUME IInv, Next, NEW c \in Clients,
                      tx[c] = "open", tx'[c] # "open", depth[c] > 0, depth'[c] > 0
               PROVE  \/ unit'[c] # unit[c]
                      \/ ~InUserTx(c) /\ \A d \in 1 .. depth[c] - 1 : ~stack[c][d].onTx
      BY DEF vars
  <2>0. TypeOK /\ Busy /\ StackInv(c) BY DEF IInv, ClientInv
  <2>1. PICK x \in Clients : Callback(x) \/ User(x) BY DEF Next
  <2>2. x = c
    <3>1. x # c => tx'[c] = tx[c]
      BY <2>0, <2>1, CallbackOthers, UserOthers DEF OthersKeep
    <3> QED BY <3>1
  <2>3. Callback(c) BY <2>0, <2>1, <2>2, CallerActs
  <2>4. ~BeginOwn(c) BY <2>0 DEF BeginOwn, TypeOK
  <2>5. ~Panic(c) BY <2>0 DEF Panic, TypeOK
  <2>6. CASE SaveFallbackOp(c)
    BY <2>0, <2>6 DEF SaveFallbackOp, NewUnit, TypeOK
  <2>7. CASE CommitOwn(c) \/ CommitOwnFails(c) \/ RollbackOwn(c)
    <3>1. Top(c).own BY <2>7 DEF CommitOwn, CommitOwnFails, RollbackOwn
    <3> QED BY <2>0, <3>1, OwnerIsAlone
  <2> QED BY <2>3, <2>4, <2>5, <2>6, <2>7, TxChanges
<1> QED BY <1>1, Invariance, PTL DEF Spec, StarterEnds

-----------------------------------------------------------------------------
(* What a unit has written when its fate is decided.                       *)

\* An operation writes only once its outermost scope has begun, and is rolled back
\* with rows written only at the end of that scope, which then has an error.
OpFate(c) ==
  mode[c] = "op" =>
    /\ depth[c] > 0 /\ ~stack[c][1].onTx /\ stack[c][1].pc # "done" =>
         Written(c, unit[c]) = {}
    /\ tx[c] = "rolledback" /\ Written(c, unit[c]) # {} =>
         depth[c] = 1 /\ Top(c).pc = "done" /\ Top(c).err

\* A handle that began with an error writes nothing: every scope on it inherits it.
HandleFate(c) ==
  InUserTx(c) /\ tx[c] = "open" /\ handleErr[c] =>
    /\ Written(c, unit[c]) = {}
    /\ \A d \in 1 .. MaxDepth : d <= depth[c] => stack[c][d].err

\* Transaction answers when it ends, Commit when it commits.
CallerFate(c) ==
  /\ mode[c] = "block" => tx[c] \in {"open", "nil"} /\ verdict[c][unit[c]] = "none"
  /\ mode[c] = "manual" /\ tx[c] = "committed" => verdict[c][unit[c]] # "none"

FateInv(c) == OpFate(c) /\ HandleFate(c) /\ CallerFate(c)

\* User code that neither calls SkipLeft nor marks a transaction's handle.
PlainCode == Quirks = {}

PlainInv == AnswerInv /\ skipped = {} /\ \A c \in Clients : FateInv(c)

\* Only a statement writes, and only a step of the caller marks its handle.
LEMMA LogChanges ==
  ASSUME NEW c \in Clients, Callback(c) \/ User(c), ~Write(c)
  PROVE  log' = log
  BY DEF Callback, Assign, JoinTx, BeginOwn, BeginFails, Hook, HookSkips, SaveAssociation,
     AssociationsDone, WriteFails, WriteSkipped, CommitOwn, CommitOwnFails, RollbackOwn,
     LeaveTx, ReturnNested, ReturnToUserTx, ReturnOp, SaveFallbackInTx, SaveFallbackOp,
     Panic, User, UserEnds, StartOp, UserBegin, UserOp, UserAddError, UserCommit,
     UserRollback, BlockReturns

LEMMA HandleChanges ==
  ASSUME TypeOK, NEW c \in Clients
  PROVE  /\ Callback(c) => handleErr' = handleErr
         /\ User(c) => \A x \in Clients : x # c => handleErr'[x] = handleErr[x]
<1>1. Callback(c) => handleErr' = handleErr
  BY DEF Callback, userVars, Assign, JoinTx, BeginOwn, BeginFails, Hook, HookSkips,
     SaveAssociation, AssociationsDone, Write, WriteFails, WriteSkipped, CommitOwn,
     CommitOwnFails, RollbackOwn, LeaveTx, ReturnNested, ReturnToUserTx, ReturnOp,
     SaveFallbackInTx, SaveFallbackOp, Panic
<1>2. User(c) => \A x \in Clients : x # c => handleErr'[x] = handleErr[x]
  BY DEF User, UserEnds, StartOp, UserBegin, UserOp, UserAddError, UserCommit,
     UserRollback, BlockReturns, CommitTx, RollbackTx, userVars, TypeOK
<1> QED BY <1>1, <1>2

\* A callback that goes on with its unit either ends the operation or keeps it.
LEMMA UnitGoesOn ==
  ASSUME NEW c \in Clients, Callback(c), ~ReturnOp(c), ~Panic(c), ~SaveFallbackOp(c)
  PROVE  UNCHANGED <<mode, unit, verdict, handleErr>>
  BY DEF Callback, userVars, Assign, JoinTx, BeginOwn, BeginFails, Hook, HookSkips,
     SaveAssociation, AssociationsDone, Write, WriteFails, WriteSkipped, CommitOwn,
     CommitOwnFails, RollbackOwn, LeaveTx, ReturnNested, ReturnToUserTx, SaveFallbackInTx

\* The outermost scope when a callback runs in a scope above it.
LEMMA BottomKept ==
  ASSUME TypeOK, NEW c \in Clients, Callback(c), ~Panic(c), depth[c] > 1
  PROVE  /\ stack'[c][1].onTx = stack[c][1].onTx
         /\ stack'[c][1].pc = stack[c][1].pc
<1> USE BoundsAssumption
<1>0. depth[c] \in 1 .. MaxDepth /\ depth[c] # 1 /\ 1 \in 1 .. MaxDepth BY DEF TypeOK
<1>1. CASE SaveAssociation(c)
  <2>1. \E f : stack' = [stack EXCEPT ![c][depth[c] + 1] = f]
    BY <1>1 DEF SaveAssociation, Push
  <2>2. stack'[c][1] = stack[c][1] BY <1>0, <2>1 DEF TypeOK
  <2> QED BY <2>2
<1>2. CASE ReturnNested(c)
  <2>1. PICK g \in Frame : g = stack[c][depth[c] - 1] BY <1>0 DEF TypeOK
  <2>2. stack'[c] = [stack[c] EXCEPT ![depth[c]] = Blank,
                                     ![depth[c] - 1] = AddErr(g, Top(c).err)]
    BY <1>2, <2>1 DEF ReturnNested, TypeOK
  <2>3. AddErr(g, Top(c).err).onTx = g.onTx /\ AddErr(g, Top(c).err).pc = g.pc
    BY <2>1 DEF AddErr, Frame
  <2>4. CASE depth[c] - 1 = 1 BY <1>0, <2>1, <2>2, <2>3, <2>4 DEF TypeOK
  <2>5. CASE depth[c] - 1 # 1
    <3>1. stack'[c][1] = stack[c][1] BY <1>0, <2>2, <2>5 DEF TypeOK
    <3> QED BY <3>1
  <2> QED BY <2>4, <2>5
<1>3. CASE \E f : SetTop(c, f)
  <2>1. stack'[c][1] = stack[c][1] BY <1>0, <1>3, SetTopAt
  <2> QED BY <2>1
<1>4. SaveAssociation(c) \/ ReturnNested(c) \/ \E f : SetTop(c, f)
  BY TopChanges DEF Callback
<1> QED BY <1>1, <1>2, <1>3, <1>4

\* The outermost scope of an operation leaves its transaction only when it is done.
LEMMA BottomMoves ==
  ASSUME TypeOK, NEW c \in Clients, mode[c] = "op", depth[c] = 1, Callback(c),
         ~ReturnOp(c), ~Panic(c), ~SaveFallbackOp(c)
  PROVE  /\ stack[c][1].pc # "done"
         /\ \/ stack'[c][1].onTx \/ stack'[c][1].pc = "done"
            \/ stack'[c][1].onTx = stack[c][1].onTx
<1> USE BoundsAssumption
<1>0. /\ 1 \in 1 .. MaxDepth /\ depth[c] > 0 /\ Top(c) = stack[c][1]
      /\ Top(c) \in Frame /\ ~InUserTx(c) /\ ~(depth[c] > 1)
  BY TopType DEF Top, InUserTx
<1>1. ~ReturnNested(c) /\ ~ReturnToUserTx(c) /\ ~SaveFallbackInTx(c)
  BY <1>0 DEF ReturnNested, ReturnToUserTx, SaveFallbackInTx
<1>2. Top(c).pc # "done"
  BY <1>1 DEF Callback, At, Assign, JoinTx, BeginOwn, BeginFails, Hook, HookSkips,
     SaveAssociation, AssociationsDone, Write, WriteFails, WriteSkipped, CommitOwn,
     CommitOwnFails, RollbackOwn, LeaveTx
<1>3. CASE SaveAssociation(c)
  <2>1. \E f : stack' = [stack EXCEPT ![c][depth[c] + 1] = f]
    BY <1>3 DEF SaveAssociation, Push
  <2>2. stack'[c][1] = stack[c][1] BY <2>1 DEF TypeOK
  <2> QED BY <1>0, <1>2, <2>2
<1>4. ASSUME NEW f \in Frame, SetTop(c, f),
             f.onTx \/ f.pc = "done" \/ f.onTx = Top(c).onTx
      PROVE  \/ stack'[c][1].onTx \/ stack'[c][1].pc = "done"
             \/ stack'[c][1].onTx = stack[c][1].onTx
  <2>1. stack'[c][1] = f BY <1>0, <1>4, SetTopAt
  <2> QED BY <1>0, <1>4, <2>1
<1>5. ASSUME NEW g \in Frame, SetTop(c, Advance(g)),
             g.onTx \/ g.onTx = Top(c).onTx \/ g.pc = "end"
      PROVE  \/ stack'[c][1].onTx \/ stack'[c][1].pc = "done"
             \/ stack'[c][1].onTx = stack[c][1].onTx
  <2>1. /\ Advance(g) \in Frame /\ Advance(g).onTx = g.onTx
        /\ g.pc = "end" => Advance(g).pc = "done"
    BY AdvanceType, AdvanceFields DEF NextStep
  <2> QED BY <1>4, <1>5, <2>1
<1> DEFINE F == Top(c)
<1>6. /\ F \in Frame
      /\ [F EXCEPT !.pc = "done"] \in Frame /\ [F EXCEPT !.pc = "done"].pc = "done"
      /\ \A e \in BOOLEAN : [F EXCEPT !.err = e, !.pc = "done"].pc = "done"
      /\ \A e \in BOOLEAN : [F EXCEPT !.err = e, !.pc = "done"] \in Frame
      /\ [F EXCEPT !.err = TRUE] \in Frame /\ [F EXCEPT !.err = TRUE].onTx = F.onTx
      /\ [F EXCEPT !.onTx = TRUE, !.own = TRUE] \in Frame
      /\ [F EXCEPT !.onTx = TRUE, !.own = TRUE].onTx
      /\ [F EXCEPT !.onTx = FALSE, !.own = FALSE] \in Frame
      /\ [F EXCEPT !.onTx = FALSE, !.own = FALSE].pc = F.pc
      /\ [F EXCEPT !.onTx = FALSE, !.own = FALSE, !.err = TRUE] \in Frame
      /\ [F EXCEPT !.onTx = FALSE, !.own = FALSE, !.err = TRUE].pc = F.pc
  BY <1>0 DEF Frame, Steps
<1>7. CASE \/ JoinTx(c) \/ AssociationsDone(c) \/ Write(c) \/ WriteSkipped(c) \/ LeaveTx(c)
  <2>1. SetTop(c, Advance(F))
    BY <1>7 DEF JoinTx, AssociationsDone, Write, WriteSkipped, LeaveTx
  <2> QED BY <1>0, <1>2, <1>5, <2>1
<1>8. CASE BeginFails(c) \/ Hook(c) \/ WriteFails(c)
  <2>1. SetTop(c, Advance(F)) \/ SetTop(c, Advance([F EXCEPT !.err = TRUE]))
    BY <1>8 DEF BeginFails, Hook, WriteFails
  <2> QED BY <1>0, <1>2, <1>5, <1>6, <2>1
<1>9. CASE BeginOwn(c)
  <2>1. SetTop(c, Advance([F EXCEPT !.onTx = TRUE, !.own = TRUE])) BY <1>9 DEF BeginOwn
  <2> QED BY <1>0, <1>2, <1>5, <1>6, <2>1
<1>10. CASE CommitOwn(c) \/ CommitOwnFails(c) \/ RollbackOwn(c)
  <2>1. /\ F.pc = "end"
        /\ \/ SetTop(c, Advance([F EXCEPT !.onTx = FALSE, !.own = FALSE]))
           \/ SetTop(c, Advance([F EXCEPT !.onTx = FALSE, !.own = FALSE, !.err = TRUE]))
    BY <1>10 DEF CommitOwn, CommitOwnFails, RollbackOwn, At
  <2> QED BY <1>0, <1>2, <1>5, <1>6, <2>1
<1>11. CASE Assign(c) \/ HookSkips(c)
  <2>1. \/ SetTop(c, Advance(F)) \/ SetTop(c, [F EXCEPT !.pc = "done"])
        \/ \E e \in BOOLEAN : SetTop(c, [F EXCEPT !.err = e, !.pc = "done"])
    BY <1>11 DEF Assign, HookSkips
  <2> QED BY <1>0, <1>2, <1>4, <1>5, <1>6, <2>1
<1> QED BY <1>1, <1>3, <1>7, <1>8, <1>9, <1>10, <1>11 DEF Callback

\* A statement of an operation runs after its outermost scope has begun.
LEMMA WritersBegan ==
  ASSUME TypeOK, NEW c \in Clients, StackInv(c), Write(c)
  PROVE  stack[c][1].onTx /\ tx[c] = "open" /\ Top(c).onTx
<1> USE BoundsAssumption
<1>0. /\ depth[c] > 0 /\ depth[c] \in 1 .. MaxDepth /\ Top(c).pc = "write" /\ ~Top(c).err
      /\ Top(c).onTx => tx[c] = "open"
  BY DEF Write, At, TypeOK
<1>1. ScopeInv(c, depth[c], Top(c)) BY <1>0, TopFacts
<1>2. Top(c).onTx BY <1>0, <1>1 DEF ScopeInv
<1>3. CASE depth[c] = 1 BY <1>0, <1>2, <1>3 DEF Top
<1>4. CASE depth[c] # 1
  <2>1. 1 \in 1 .. MaxDepth /\ 1 < depth[c] BY <1>0, <1>4
  <2>2. NestInv(stack[c][1], Top(c)) BY <1>0, <2>1, TopFacts
  <2> QED BY <1>0, <1>2, <2>2 DEF NestInv
<1> QED BY <1>0, <1>2, <1>3, <1>4

\* A scope that owns a transaction above another has nothing written before it.
LEMMA NestedOwner ==
  ASSUME TypeOK, NEW c \in Clients, StackInv(c), OpFate(c), mode[c] = "op",
         depth[c] > 1, ~Top(c).onTx \/ Top(c).own
  PROVE  Written(c, unit[c]) = {}
<1>1. 1 \in 1 .. MaxDepth /\ 1 < depth[c] /\ depth[c] > 0
  BY BoundsAssumption DEF TypeOK
<1>2. NestInv(stack[c][1], Top(c)) BY <1>1, TopFacts
<1>3. ~stack[c][1].onTx /\ stack[c][1].pc # "done" BY <1>2 DEF NestInv, Saving
<1> QED BY <1>1, <1>3 DEF OpFate

\* Where a scope ends its own transaction without publishing anything.
LEMMA OwnerDrops ==
  ASSUME TypeOK, NEW c \in Clients, StackInv(c), OpFate(c), mode[c] = "op",
         CommitOwnFails(c) \/ RollbackOwn(c)
  PROVE  /\ tx[c] = "open" /\ tx'[c] = "rolledback" /\ UNCHANGED <<log, store>>
         /\ Written(c, unit[c]) # {} => depth'[c] = 1 /\ Top(c)'.pc = "done" /\ Top(c)'.err
<1> USE BoundsAssumption
<1> DEFINE F == Top(c)
           G == [F EXCEPT !.onTx = FALSE, !.own = FALSE]
           E == [F EXCEPT !.onTx = FALSE, !.own = FALSE, !.err = TRUE]
<1>1. /\ depth[c] > 0 /\ F.pc = "end" /\ F.own /\ UNCHANGED <<depth, log, store>>
      /\ tx' = [tx EXCEPT ![c] = IF @ = "open" THEN "rolledback" ELSE @]
      /\ \/ F.err /\ SetTop(c, Advance(G))
         \/ SetTop(c, Advance(E))
  BY DEF CommitOwnFails, RollbackOwn, At
<1>2. F \in Frame /\ ScopeInv(c, depth[c], F) BY <1>1, TopFacts
<1>3. tx[c] = "open" /\ tx'[c] = "rolledback" BY <1>1, <1>2 DEF ScopeInv, TypeOK
<1>4. /\ G \in Frame /\ G.pc = F.pc /\ G.err = F.err
      /\ E \in Frame /\ E.pc = F.pc /\ E.err
  BY <1>2 DEF Frame
<1>5. /\ Advance(G).pc = "done" /\ Advance(G).err = F.err
      /\ Advance(E).pc = "done" /\ Advance(E).err
  BY <1>1, <1>4, AdvanceFields DEF NextStep
<1>6. stack'[c][depth[c]].pc = "done" /\ stack'[c][depth[c]].err
  BY <1>1, <1>5, SetTopAt
<1>7. Top(c)'.pc = "done" /\ Top(c)'.err BY <1>1, <1>6 DEF Top
<1>8. Written(c, unit[c]) # {} => depth[c] = 1
  <2>1. depth[c] \in Nat BY DEF TypeOK
  <2> QED BY <1>1, <2>1, NestedOwner
<1> QED BY <1>1, <1>3, <1>7, <1>8

LEMMA OpFateStep ==
  ASSUME TypeOK, Busy, NEW c \in Clients, StackInv(c), Past(c), OpFate(c),
         Callback(c) \/ User(c)
  PROVE  OpFate(c)'
<1>1. CASE mode'[c] # "op" BY <1>1 DEF OpFate
<1>2. CASE NewUnit(c) /\ log' = log /\ tx'[c] = "none"
  <2>1. Written(c, unit[c])' = {} BY <1>2, NothingWritten
  <2> QED BY <1>2, <2>1 DEF OpFate
<1>3. CASE User(c)
  <2>1. CASE StartOp(c) BY <1>2, <2>1 DEF StartOp, TypeOK
  <2>2. CASE ~StartOp(c)
    <3>1. mode'[c] # "op"
      BY <1>3, <2>2 DEF User, UserEnds, UserBegin, UserOp, UserAddError, UserCommit,
         UserRollback, BlockReturns, UserIdle, InUserTx, userVars, TypeOK
    <3> QED BY <1>1, <3>1
  <2> QED BY <2>1, <2>2
<1>4. CASE SaveFallbackOp(c) BY <1>2, <1>4 DEF SaveFallbackOp, TypeOK
<1>5. CASE ReturnOp(c) \/ Panic(c)
  <2>1. mode'[c] # "op" BY <1>5 DEF ReturnOp, Panic, TypeOK
  <2> QED BY <1>1, <2>1
<1>6. CASE Callback(c) /\ ~ReturnOp(c) /\ ~Panic(c) /\ ~SaveFallbackOp(c) /\ mode'[c] = "op"
  <2>0. UNCHANGED <<mode, unit>> /\ mode[c] = "op" BY <1>6, UnitGoesOn
  <2>1. depth[c] > 0 /\ depth[c] \in Nat BY <1>6, CallbackRuns DEF TypeOK
  <2>2. ~Write(c) => Written(c, unit[c])' = Written(c, unit[c])
    <3>1. ~Write(c) => log' = log BY <1>6, LogChanges
    <3> QED BY <2>0, <3>1 DEF Written
  <2>3. ASSUME depth'[c] > 0, ~stack'[c][1].onTx, stack'[c][1].pc # "done"
        PROVE  Written(c, unit[c])' = {}
    <3>1. ~stack[c][1].onTx /\ stack[c][1].pc # "done"
      <4>1. CASE depth[c] = 1 BY <1>6, <2>0, <2>3, <4>1, BottomMoves
      <4>2. CASE depth[c] > 1 BY <1>6, <2>3, <4>2, BottomKept
      <4> QED BY <2>1, <4>1, <4>2
    <3>2. Written(c, unit[c]) = {} BY <2>0, <2>1, <3>1 DEF OpFate
    <3>3. ~Write(c) BY <3>1, WritersBegan
    <3> QED BY <2>2, <3>2, <3>3
  <2>4. ASSUME tx'[c] = "rolledback", Written(c, unit[c])' # {}
        PROVE  depth'[c] = 1 /\ Top(c)'.pc = "done" /\ Top(c)'.err
    <3>1. CASE CommitOwnFails(c) \/ RollbackOwn(c)
      <4>1. ~Write(c) BY <2>0, <3>1, OwnerDrops, WritersBegan DEF Write, TypeOK, userVars
      <4> QED BY <2>0, <2>2, <2>4, <3>1, <4>1, OwnerDrops
    <3>2. CASE ~CommitOwnFails(c) /\ ~RollbackOwn(c)
      <4>1. tx[c] = "rolledback"
        <5>1. tx' = tx \/ BeginOwn(c) \/ CommitOwn(c) BY <1>6, <3>2, TxChanges
        <5>2. BeginOwn(c) \/ CommitOwn(c) => tx'[c] # "rolledback"
          BY DEF BeginOwn, CommitOwn, TypeOK
        <5> QED BY <2>4, <5>1, <5>2
      <4>2. ~Write(c) BY <4>1, WritersBegan
      <4>3. depth[c] = 1 /\ Top(c).pc = "done"
        BY <2>0, <2>2, <2>4, <4>1, <4>2 DEF OpFate
      <4>4. ~CommitOwn(c) BY <4>1 DEF CommitOwn
      <4> QED BY <1>6, <2>0, <4>3, <4>4, OpCallbacks
    <3> QED BY <3>1, <3>2
  <2> QED BY <2>3, <2>4 DEF OpFate
<1> QED BY <1>1, <1>3, <1>4, <1>5, <1>6

\* While every scope has an error every scope keeps one.
LEMMA AllErrorsStay ==
  ASSUME TypeOK, NEW c \in Clients, Callback(c), depth[c] > 0,
         ~ReturnOp(c), ~Panic(c), ~SaveFallbackOp(c),
         \A d \in 1 .. MaxDepth : d <= depth[c] => stack[c][d].err
  PROVE  ~Write(c) /\ \A d \in 1 .. MaxDepth : d <= depth'[c] => stack'[c][d].err
<1> USE BoundsAssumption
<1>0. depth[c] \in 1 .. MaxDepth /\ Top(c) \in Frame /\ Top(c).err
  BY TopType DEF TypeOK, Top
<1>1. ~Write(c) BY <1>0 DEF Write
<1>2. CASE SaveAssociation(c)
  <2>1. PICK kind : Push(c, kind, Top(c).err, Top(c).onTx) BY <1>2 DEF SaveAssociation
  <2>2. PICK f : f = NewFrame(kind, Top(c).err, Top(c).onTx, frames[c] + 1) OBVIOUS
  <2>3. f.err BY <1>0, <2>2 DEF NewFrame
  <2>4. /\ depth[c] < MaxDepth /\ depth' = [depth EXCEPT ![c] = @ + 1]
        /\ stack' = [stack EXCEPT ![c][depth[c] + 1] = f]
    BY <2>1, <2>2 DEF Push
  <2>5. depth'[c] = depth[c] + 1 /\ depth[c] + 1 \in 1 .. MaxDepth
    BY <1>0, <2>4 DEF TypeOK
  <2>6. \A d \in 1 .. MaxDepth :
          stack'[c][d] = IF d = depth[c] + 1 THEN f ELSE stack[c][d]
    BY <2>4, <2>5 DEF TypeOK
  <2> QED BY <1>0, <1>1, <2>3, <2>5, <2>6
<1>3. CASE ReturnNested(c)
  <2>1. depth[c] > 1 /\ depth[c] - 1 \in 1 .. MaxDepth BY <1>0, <1>3 DEF ReturnNested
  <2>2. PICK g \in Frame : g = stack[c][depth[c] - 1] BY <2>1 DEF TypeOK
  <2>3. /\ stack'[c] = [stack[c] EXCEPT ![depth[c]] = Blank,
                                        ![depth[c] - 1] = AddErr(g, Top(c).err)]
        /\ depth'[c] = depth[c] - 1
    BY <1>3, <2>2 DEF ReturnNested, TypeOK
  <2>4. AddErr(g, Top(c).err).err BY <1>0, <2>2 DEF AddErr, Frame
  <2>5. stack[c] \in [1 .. MaxDepth -> Frame] BY DEF TypeOK
  <2>6. stack'[c][depth[c] - 1].err BY <2>1, <2>3, <2>4, <2>5
  <2>7. \A d \in 1 .. MaxDepth :
          d # depth[c] /\ d # depth[c] - 1 => stack'[c][d] = stack[c][d]
    BY <1>0, <2>1, <2>3, <2>5
  <2>8. ASSUME NEW d \in 1 .. MaxDepth, d <= depth'[c] PROVE stack'[c][d].err
    <3>1. d <= depth[c] /\ d # depth[c] BY <1>0, <2>3, <2>8
    <3> QED BY <2>6, <2>7, <3>1
  <2> QED BY <1>1, <2>8
<1>4. CASE ReturnToUserTx(c)
  <2>1. depth'[c] = 0 BY <1>4 DEF ReturnToUserTx, TypeOK
  <2> QED BY <1>1, <2>1
<1>5. ~SaveFallbackInTx(c) BY <1>0 DEF SaveFallbackInTx, NoRowsAffected
<1>6. CASE \/ Assign(c) \/ JoinTx(c) \/ BeginOwn(c) \/ BeginFails(c) \/ Hook(c)
           \/ HookSkips(c) \/ AssociationsDone(c) \/ Write(c) \/ WriteFails(c)
           \/ WriteSkipped(c) \/ CommitOwn(c) \/ CommitOwnFails(c)
           \/ RollbackOwn(c) \/ LeaveTx(c)
  <2>1. PICK f : SetTop(c, f) /\ f.err BY <1>0, <1>6, TopKeepsError
  <2>2. depth' = depth
    BY <1>6 DEF Assign, JoinTx, BeginOwn, BeginFails, Hook, HookSkips, AssociationsDone,
       Write, WriteFails, WriteSkipped, CommitOwn, CommitOwnFails, RollbackOwn, LeaveTx
  <2>3. \A d \in 1 .. MaxDepth :
          stack'[c][d] = IF d = depth[c] THEN f ELSE stack[c][d]
    BY <1>0, <2>1, SetTopAt
  <2> QED BY <1>1, <2>1, <2>2, <2>3
<1> QED BY <1>2, <1>3, <1>4, <1>5, <1>6 DEF Callback

\* Inside the caller's transaction no callback but a panic ends it.
LEMMA CallerKeepsTx ==
  ASSUME TypeOK, NEW c \in Clients, StackInv(c), InUserTx(c), depth[c] > 0, Callback(c)
  PROVE  /\ ~ReturnOp(c) /\ ~SaveFallbackOp(c)
         /\ \/ tx'[c] = tx[c]
            \/ Panic(c) /\ tx[c] = "open" /\ tx'[c] = "rolledback"
<1>1. ~ReturnOp(c) /\ ~SaveFallbackOp(c) BY DEF ReturnOp, SaveFallbackOp
<1>2. Top(c).onTx /\ ~Top(c).own BY InnerScopes
<1>3. ~BeginOwn(c) /\ ~CommitOwn(c) /\ ~CommitOwnFails(c) /\ ~RollbackOwn(c)
  BY <1>2 DEF BeginOwn, CommitOwn, CommitOwnFails, RollbackOwn
<1>4. CASE Panic(c)
  <2>1. tx'[c] = IF tx[c] = "open" THEN "rolledback" ELSE tx[c]
    BY <1>2, <1>4 DEF Panic, TypeOK
  <2> QED BY <1>1, <1>4, <2>1
<1>5. CASE ~Panic(c)
  <2>1. tx' = tx BY <1>1, <1>3, <1>5, TxChanges
  <2> QED BY <1>1, <2>1
<1> QED BY <1>4, <1>5

LEMMA HandleFateStep ==
  ASSUME PlainCode, TypeOK, Busy, NEW c \in Clients, StackInv(c), Past(c), HandleFate(c),
         Callback(c) \/ User(c)
  PROVE  HandleFate(c)'
<1> SUFFICES ASSUME InUserTx(c)', tx'[c] = "open", handleErr'[c]
             PROVE  /\ Written(c, unit[c])' = {}
                    /\ \A d \in 1 .. MaxDepth : d <= depth'[c] => stack'[c][d].err
    BY DEF HandleFate
<1>1. CASE User(c)
  <2>0. depth[c] = 0 BY <1>1, CallerActs
  <2>1. ~StartOp(c) BY DEF StartOp, InUserTx, TypeOK
  <2>2. CASE UserBegin(c)
    <3>1. Written(c, unit[c])' = {} BY <2>2, NothingWritten DEF UserBegin
    <3>2. depth'[c] = 0 BY <2>0, <2>2 DEF UserBegin
    <3> QED BY <3>1, <3>2
  <2>3. CASE UserOp(c)
    <3>1. PICK kind : Push(c, kind, handleErr[c], TRUE) BY <2>3 DEF UserOp
    <3>2. UNCHANGED <<mode, unit, tx, handleErr, log>> BY <2>3 DEF UserOp, userVars
    <3>3. Written(c, unit[c])' = {} BY <3>2 DEF HandleFate, InUserTx, Written
    <3>4. PICK f : f = NewFrame(kind, handleErr[c], TRUE, frames[c] + 1) OBVIOUS
    <3>5. f.err BY <3>2, <3>4 DEF NewFrame
    <3>6. /\ depth' = [depth EXCEPT ![c] = @ + 1]
          /\ stack' = [stack EXCEPT ![c][depth[c] + 1] = f]
      BY <3>1, <3>4 DEF Push
    <3>7. depth'[c] = 1 /\ stack'[c][1] = f
      BY <2>0, <3>6, BoundsAssumption DEF TypeOK
    <3>8. \A d \in 1 .. MaxDepth : d <= 1 => d = 1 OBVIOUS
    <3> QED BY <3>3, <3>5, <3>7, <3>8
  <2>4. ~UserAddError(c) BY DEF UserAddError, PlainCode
  <2>5. ~UserCommit(c) /\ ~UserRollback(c) /\ ~BlockReturns(c)
    <3>1. CommitTx(c) => tx'[c] # "open" BY DEF CommitTx, TypeOK
    <3>2. RollbackTx(c) => tx'[c] # "open" BY DEF RollbackTx, TypeOK
    <3> QED BY <3>1, <3>2 DEF UserCommit, UserRollback, BlockReturns
  <2> QED BY <1>1, <2>1, <2>2, <2>3, <2>4, <2>5 DEF User, UserEnds
<1>2. CASE Callback(c)
  <2>0. depth[c] > 0 BY <1>2, CallbackRuns
  <2>1. InUserTx(c)
    <3>1. mode'[c] = mode[c] \/ mode'[c] = "idle"
      BY <1>2, UnitGoesOn DEF ReturnOp, Panic, SaveFallbackOp, TypeOK
    <3> QED BY <3>1 DEF InUserTx
  <2>2. ~ReturnOp(c) /\ ~SaveFallbackOp(c) /\ ~Panic(c) /\ tx[c] = "open"
    <3>1. Panic(c) => tx'[c] # "open"
      <4>1. Top(c).onTx BY <2>0, <2>1, InnerScopes
      <4> QED BY <4>1 DEF Panic, TypeOK
    <3> QED BY <1>2, <2>0, <2>1, <3>1, CallerKeepsTx
  <2>3. UNCHANGED <<unit, handleErr>> BY <1>2, <2>2, UnitGoesOn
  <2>4. /\ Written(c, unit[c]) = {}
        /\ \A d \in 1 .. MaxDepth : d <= depth[c] => stack[c][d].err
    BY <2>1, <2>2, <2>3 DEF HandleFate
  <2>5. ~Write(c) /\ \A d \in 1 .. MaxDepth : d <= depth'[c] => stack'[c][d].err
    BY <1>2, <2>0, <2>2, <2>4, AllErrorsStay
  <2>6. Written(c, unit[c])' = {} BY <1>2, <2>3, <2>4, <2>5, LogChanges DEF Written
  <2> QED BY <2>5, <2>6
<1> QED BY <1>1, <1>2

LEMMA CallerFateStep ==
  ASSUME TypeOK, Busy, NEW c \in Clients, StackInv(c), Answered(c), CallerFate(c),
         Callback(c) \/ User(c)
  PROVE  CallerFate(c)'
<1>1. CASE mode'[c] \notin {"manual", "block"} BY <1>1 DEF CallerFate
<1>2. CASE mode'[c] = mode[c] /\ unit' = unit /\ tx'[c] = tx[c] /\ verdict' = verdict
  BY <1>2 DEF CallerFate
<1>3. CASE User(c)
  <2>0. mode[c] # "idle" => unit[c] \in Units
    BY BoundsAssumption DEF Busy, TypeOK, Units
  <2>1. CASE StartOp(c) BY <1>1, <2>1 DEF StartOp, TypeOK
  <2>2. CASE UserBegin(c)
    <3>1. /\ unit'[c] = unit[c] + 1 /\ unit[c] \in Nat /\ unit[c] < MaxUnits
          /\ tx'[c] \in {"open", "nil"} /\ verdict' = verdict
      BY <2>2 DEF UserBegin, NewUnit, TypeOK
    <3>2. unit'[c] \in Units /\ unit'[c] > unit[c]
      BY <3>1, BoundsAssumption DEF Units
    <3> QED BY <3>1, <3>2 DEF CallerFate, Answered
  <2>3. CASE UserOp(c) \/ UserAddError(c)
    BY <1>2, <2>3 DEF UserOp, UserAddError, userVars
  <2>4. CASE UserCommit(c) \/ UserRollback(c)
    <3>1. mode[c] = "manual" /\ mode'[c] \in {"manual", "idle"} /\ unit' = unit
      BY <2>4 DEF UserCommit, UserRollback, TypeOK
    <3>2. \E v \in {"ok", "fail"} : Report(c, v)
      BY <2>4 DEF UserCommit, UserRollback, CommitTx, RollbackTx, Verdict
    <3>3. verdict'[c][unit[c]] # "none" BY <2>0, <3>1, <3>2 DEF Report, TypeOK
    <3> QED BY <3>1, <3>3 DEF CallerFate
  <2>5. CASE BlockReturns(c) BY <1>1, <2>5 DEF BlockReturns, TypeOK
  <2> QED BY <1>3, <2>1, <2>2, <2>3, <2>4, <2>5 DEF User, UserEnds
<1>4. CASE Callback(c)
  <2>0. depth[c] > 0 BY <1>4, CallbackRuns
  <2>1. CASE SaveFallbackOp(c) \/ ReturnOp(c)
    <3>1. mode'[c] \notin {"manual", "block"}
      BY <2>1 DEF SaveFallbackOp, ReturnOp, InUserTx, TypeOK
    <3> QED BY <1>1, <3>1
  <2>2. CASE Panic(c)
    <3>1. CASE mode[c] = "manual"
      <4>1. UNCHANGED <<mode, unit, verdict>> /\ (tx'[c] = tx[c] \/ tx'[c] = "rolledback")
        BY <2>2, <3>1 DEF Panic, TypeOK
      <4> QED BY <3>1, <4>1 DEF CallerFate
    <3>2. CASE mode[c] # "manual" BY <1>1, <2>2, <3>2 DEF Panic, TypeOK
    <3> QED BY <3>1, <3>2
  <2>3. CASE ~SaveFallbackOp(c) /\ ~ReturnOp(c) /\ ~Panic(c)
    <3>1. UNCHANGED <<mode, unit, verdict>> BY <1>4, <2>3, UnitGoesOn
    <3>2. InUserTx(c) => tx'[c] = tx[c] BY <1>4, <2>0, <2>3, CallerKeepsTx
    <3> QED BY <1>1, <1>2, <3>1, <3>2 DEF InUserTx
  <2> QED BY <2>1, <2>2, <2>3
<1> QED BY <1>3, <1>4

\* The fates stay as they are for a client that takes no step.
LEMMA OthersFate ==
  ASSUME TypeOK, NEW c \in Clients, Callback(c) \/ User(c), NEW x \in Clients, x # c
  PROVE  /\ UNCHANGED <<mode[x], unit[x], tx[x], stack[x], depth[x], handleErr[x], verdict[x]>>
         /\ \A u : Written(x, u)' = Written(x, u)
<1>1. OthersKeep(c) /\ OwnRows(c)
  BY CallbackOthers, UserOthers, CallbackRows, UserRows
<1>2. verdict'[x] = verdict[x] BY VerdictKept
<1>3. handleErr'[x] = handleErr[x] BY HandleChanges
<1>4. ASSUME NEW u PROVE Written(x, u)' = Written(x, u)
  BY <1>1 DEF OwnRows, Written
<1> QED BY <1>1, <1>2, <1>3, <1>4 DEF OthersKeep

LEMMA PlainInvariance == ASSUME PlainCode PROVE Spec => []PlainInv
<1>1. Init => skipped = {} /\ \A c \in Clients : FateInv(c)
  BY DEF Init, FateInv, OpFate, HandleFate, CallerFate, InUserTx
<1>2. PlainCode /\ AnswerInv /\ AnswerInv' /\ PlainInv /\ [Next]_vars => PlainInv'
  <2> SUFFICES ASSUME PlainCode, AnswerInv', PlainInv, [Next]_vars PROVE PlainInv'
      OBVIOUS
  <2>0. /\ TypeOK /\ Busy /\ skipped = {}
        /\ \A c \in Clients : StackInv(c) /\ Past(c) /\ Answered(c) /\ FateInv(c)
    BY DEF PlainInv, AnswerInv, IInv, ClientInv
  <2>1. CASE UNCHANGED vars
    BY <2>0, <2>1 DEF PlainInv, vars, FateInv, OpFate, HandleFate, CallerFate, InUserTx,
       Top, Written
  <2>2. ASSUME NEW c \in Clients, Callback(c) \/ User(c) PROVE PlainInv'
    <3>1. skipped' = {}
      BY <2>0, <2>2 DEF PlainCode, HookSkips, Callback, Assign, JoinTx, BeginOwn, BeginFails,
         Hook, SaveAssociation, AssociationsDone, Write, WriteFails, WriteSkipped, CommitOwn,
         CommitOwnFails, RollbackOwn, LeaveTx, ReturnNested, ReturnToUserTx, ReturnOp,
         SaveFallbackInTx, SaveFallbackOp, Panic, User, UserEnds, StartOp, UserBegin, UserOp,
         UserAddError, UserCommit, UserRollback, BlockReturns
    <3>2. FateInv(c)'
      BY <2>0, <2>2, OpFateStep, HandleFateStep, CallerFateStep DEF FateInv
    <3>3. ASSUME NEW x \in Clients, x # c PROVE FateInv(x)'
      <4>1. /\ UNCHANGED <<mode[x], unit[x], tx[x], stack[x], depth[x], handleErr[x], verdict[x]>>
            /\ Written(x, unit[x])' = Written(x, unit[x])
        BY <2>0, <2>2, <3>3, OthersFate DEF Written
      <4>2. FateInv(x) BY <2>0
      <4> QED BY <4>1, <4>2 DEF FateInv, OpFate, HandleFate, CallerFate, InUserTx, Top
    <3> QED BY <3>1, <3>2, <3>3 DEF PlainInv
  <2> QED BY <2>1, <2>2 DEF Next
<1>3. AnswerInv /\ skipped = {} /\ (\A c \in Clients : FateInv(c)) => PlainInv
  BY DEF PlainInv
<1> QED BY <1>1, <1>2, <1>3, AnswersInvariant, PTL DEF Spec

-----------------------------------------------------------------------------
(* Steps of AtomicStore, seen through Work, Status and Told.               *)

Same(x) == Work(x)' = Work(x) /\ Status(x)' = Status(x) /\ Told(x)' = Told(x)

OthersSame(c) == \A x \in Clients : x # c => Same(x)

\* The fate a unit meets in a step, and an answer that is true of it.
Meets(c, fate) ==
  /\ Status(c) # "idle" /\ fate \in {"busy", "applied", "dropped"}
  /\ Status(c) # "busy" => fate = Status(c)
  /\ store' = IF fate = "applied" THEN store \cup Work(c) ELSE store

TrueAnswer(c, fate, a) ==
  IF Told(c) # "none" THEN a = Told(c)
  ELSE \/ Work(c) = {} /\ a \in {"ok", "fail"}
       \/ fate = "applied" /\ a = "ok"
       \/ fate = "dropped" /\ a = "fail"

LEMMA AbstractAnswers ==
  ASSUME NEW c \in Clients, NEW fate, NEW a
  PROVE  /\ Meets(c, fate) => fate \in Abstract!Fates(c) /\ Abstract!Meet(c, fate)
         /\ TrueAnswer(c, fate, a) => a \in Abstract!Answers(c, fate)
<1>1. Meets(c, fate) => fate \in Abstract!Fates(c) /\ Abstract!Meet(c, fate)
  BY DEF Meets, Abstract!Fates, Abstract!Meet
<1>2. TrueAnswer(c, fate, a) => a \in Abstract!Answers(c, fate)
  BY DEF TrueAnswer, Abstract!Answers, Abstract!Truth
<1> QED BY <1>1, <1>2

LEMMA AbstractStutter ==
  ASSUME \A x \in Clients : Same(x), store' = store
  PROVE  UNCHANGED Abstract!vars
  BY DEF Same, Abstract!vars

LEMMA AbstractStart ==
  ASSUME NEW c \in Clients, OthersSame(c), store' = store, Status(c) = "idle",
         Work(c)' = Work(c), Status(c)' = "busy", Told(c)' = "none"
  PROVE  Abstract!Start(c)
  BY DEF OthersSame, Same, Abstract!Start

LEMMA AbstractWrite ==
  ASSUME NEW c \in Clients, OthersSame(c), store' = store, Status(c) = "busy",
         NEW r \in Rows \ (store \cup Work(c)), Work(c)' = Work(c) \cup {r},
         Status(c)' = "busy", Told(c)' = Told(c)
  PROVE  Abstract!Write(c)
  BY DEF OthersSame, Same, Abstract!Write

LEMMA AbstractSettle ==
  ASSUME NEW c \in Clients, OthersSame(c), NEW fate, Meets(c, fate),
         Work(c)' = Work(c), Status(c)' = fate,
         Told(c)' = Told(c) \/ TrueAnswer(c, fate, Told(c)')
  PROVE  Abstract!Settle(c)
<1> DEFINE work   == [x \in Clients |-> Work(x)]
           status == [x \in Clients |-> Status(x)]
           told   == [x \in Clients |-> Told(x)]
<1>1. fate \in Abstract!Fates(c) /\ Abstract!Meet(c, fate) BY AbstractAnswers
<1>2. work' = work /\ status' = [status EXCEPT ![c] = fate] /\ status[c] # "idle"
  BY DEF OthersSame, Same, Meets
<1>3. told' = [told EXCEPT ![c] = Told(c)'] /\ told[c] = Told(c)
  BY DEF OthersSame, Same
<1>4. Told(c)' \in Abstract!Answers(c, fate) \cup {told[c]} BY <1>3, AbstractAnswers
<1> QED BY <1>1, <1>2, <1>3, <1>4 DEF Abstract!Settle

LEMMA AbstractFinish ==
  ASSUME NEW c \in Clients, OthersSame(c), NEW fate, Meets(c, fate), Work(c)' = {},
         \/ Status(c)' = "idle" /\ TrueAnswer(c, fate, Told(c)')
         \/ Status(c)' = "busy" /\ Told(c)' = "none" /\ TrueAnswer(c, fate, "ok")
  PROVE  Abstract!Finish(c)
<1> DEFINE work   == [x \in Clients |-> Work(x)]
           status == [x \in Clients |-> Status(x)]
           told   == [x \in Clients |-> Told(x)]
<1>1. fate \in Abstract!Fates(c) /\ Abstract!Meet(c, fate) BY AbstractAnswers
<1>2. work' = [work EXCEPT ![c] = {}] /\ status[c] # "idle"
  BY DEF OthersSame, Same, Meets
<1>3. /\ status' = [status EXCEPT ![c] = Status(c)']
      /\ told' = [told EXCEPT ![c] = Told(c)']
  BY DEF OthersSame, Same
<1>4. \/ Status(c)' = "idle" /\ Told(c)' \in Abstract!Answers(c, fate)
      \/ Status(c)' = "busy" /\ Told(c)' = "none" /\ "ok" \in Abstract!Answers(c, fate)
  BY AbstractAnswers
<1> QED BY <1>1, <1>2, <1>3, <1>4 DEF Abstract!Finish

-----------------------------------------------------------------------------
(* Every step is one of them.                                              *)

\* What a client's work and status are, by its mode, its rows and its transaction.
HasStatus(c) ==
  /\ mode[c] = "idle" => Status(c) = "idle" /\ Work(c) = {}
  /\ mode[c] # "idle" => Work(c) = Written(c, unit[c])
  /\ mode[c] # "idle" /\ Written(c, unit[c]) = {} => Status(c) = "busy"
  /\ mode[c] # "idle" /\ Written(c, unit[c]) # {} =>
       Status(c) = IF tx[c] = "committed" THEN "applied"
                   ELSE IF tx[c] = "rolledback" THEN "dropped" ELSE "busy"

LEMMA StatusIs ==
  ASSUME NEW c \in Clients
  PROVE  HasStatus(c) /\ HasStatus(c)'
<1>1. HasStatus(c) BY DEF HasStatus, Status, Work
<1>2. HasStatus(c)' BY DEF HasStatus, Status, Work
<1> QED BY <1>1, <1>2

\* What the proof of a step has at hand.
Context(c) ==
  /\ TypeOK /\ Busy /\ skipped = {}
  /\ StackInv(c) /\ RowsInv(c) /\ Past(c) /\ Answered(c) /\ FateInv(c)
  /\ OthersSame(c)
  /\ mode[c] # "idle" => unit[c] \in Units /\ Told(c) = verdict[c][unit[c]]

LEMMA InContext ==
  ASSUME PlainInv, NEW c \in Clients, Callback(c) \/ User(c)
  PROVE  Context(c)
<1>1. /\ TypeOK /\ Busy /\ skipped = {}
      /\ StackInv(c) /\ RowsInv(c) /\ Past(c) /\ Answered(c) /\ FateInv(c)
  BY DEF PlainInv, AnswerInv, IInv, ClientInv
<1>2. OthersSame(c)
  <2> SUFFICES ASSUME NEW x \in Clients, x # c PROVE Same(x)
      BY DEF OthersSame
  <2>1. /\ UNCHANGED <<mode[x], unit[x], tx[x], verdict[x]>>
        /\ Written(x, unit[x])' = Written(x, unit[x])
    BY <1>1, OthersFate DEF Written
  <2> QED BY <2>1 DEF Same, Work, Status, Told
<1>3. mode[c] # "idle" => unit[c] \in Units /\ Told(c) = verdict[c][unit[c]]
  <2>1. mode[c] # "idle" => unit[c] > 0 /\ unit[c] \in 0 .. MaxUnits
    BY <1>1 DEF Busy, TypeOK
  <2> QED BY <2>1, BoundsAssumption DEF Units, Told
<1> QED BY <1>1, <1>2, <1>3 DEF Context

\* A step that decides nothing and tells nothing.
LEMMA QuietStep ==
  ASSUME NEW c \in Clients, UNCHANGED <<mode, unit, verdict, store>>,
         Written(c, unit[c])' = Written(c, unit[c]),
         tx'[c] = tx[c] \/ Written(c, unit[c]) = {}
  PROVE  Same(c) /\ store' = store
<1>1. Work(c)' = Work(c) /\ Told(c)' = Told(c) BY DEF Work, Told
<1>2. Status(c)' = Status(c) BY StatusIs DEF HasStatus
<1> QED BY <1>1, <1>2 DEF Same

\* Only a statement and a commit change what everybody sees.
LEMMA StoreChanges ==
  ASSUME NEW c \in Clients, Callback(c), ~Write(c), ~CommitOwn(c)
  PROVE  store' = store
  BY DEF Callback, Assign, JoinTx, BeginOwn, BeginFails, Hook, HookSkips, SaveAssociation,
     AssociationsDone, WriteFails, WriteSkipped, CommitOwnFails, RollbackOwn, LeaveTx,
     ReturnNested, ReturnToUserTx, ReturnOp, SaveFallbackInTx, SaveFallbackOp, Panic

\* Nothing is written when a scope begins a transaction of its own.
LEMMA BeginsWithNothing ==
  ASSUME TypeOK, Busy, NEW c \in Clients, StackInv(c), OpFate(c), BeginOwn(c)
  PROVE  Written(c, unit[c]) = {}
<1>1. /\ depth[c] > 0 /\ depth[c] \in Nat /\ ~Top(c).onTx /\ Top(c).pc = "begin"
      /\ mode[c] # "idle"
  BY DEF BeginOwn, At, TypeOK, Busy
<1>2. mode[c] = "op"
  <2>1. ~InUserTx(c) BY <1>1, InnerScopes
  <2> QED BY <1>1, <2>1 DEF InUserTx, TypeOK
<1>3. CASE depth[c] > 1 BY <1>1, <1>2, <1>3, NestedOwner
<1>4. CASE depth[c] = 1 BY <1>1, <1>2, <1>4 DEF OpFate, Top
<1> QED BY <1>1, <1>3, <1>4

LEMMA QuietCallback ==
  ASSUME NEW c \in Clients, Context(c), Callback(c), ~Write(c), ~CommitOwn(c),
         ~CommitOwnFails(c), ~RollbackOwn(c), ~ReturnOp(c), ~Panic(c), ~SaveFallbackOp(c)
  PROVE  Same(c) /\ store' = store
<1>1. UNCHANGED <<mode, unit, verdict, store, log>>
  BY UnitGoesOn, StoreChanges, LogChanges
<1>2. Written(c, unit[c])' = Written(c, unit[c]) BY <1>1 DEF Written
<1>3. tx'[c] = tx[c] \/ Written(c, unit[c]) = {}
  <2>1. CASE BeginOwn(c)
    BY <2>1, BeginsWithNothing DEF Context, FateInv
  <2>2. CASE ~BeginOwn(c)
    <3>1. tx' = tx BY <2>2, TxChanges
    <3> QED BY <3>1
  <2> QED BY <2>1, <2>2
<1> QED BY <1>1, <1>2, <1>3, QuietStep

AbstractStep(c) ==
  \/ (\A x \in Clients : Same(x)) /\ store' = store
  \/ Abstract!Start(c) \/ Abstract!Write(c) \/ Abstract!Settle(c) \/ Abstract!Finish(c)

\* A step that leaves the client as it was, and one after which its unit has the fate
\* its rows and its transaction say.
LEMMA StutterStep ==
  ASSUME NEW c \in Clients, Context(c), Same(c), store' = store
  PROVE  AbstractStep(c)
  BY DEF AbstractStep, Context, OthersSame

LEMMA WriteStep ==
  ASSUME NEW c \in Clients, Context(c), Write(c)
  PROVE  AbstractStep(c)
<1> DEFINE row == <<c, unit[c], Top(c).key>>
<1>0. TypeOK /\ Busy /\ StackInv(c) BY DEF Context
<1>1. tx[c] = "open" /\ Top(c).onTx BY <1>0, WritersBegan
<1>2. /\ depth[c] > 0 /\ UNCHANGED <<mode, unit, verdict, tx, store>>
      /\ log' = log \cup {row}
  BY <1>1 DEF Write, At, userVars
<1>3. mode[c] # "idle" /\ row \in Rows BY <1>0, <1>2, RowType DEF Busy
<1>4. CASE row \in log
  <2>1. log' = log BY <1>2, <1>4
  <2>2. Same(c) BY <1>2, <2>1, QuietStep DEF Written
  <2> QED BY <1>2, <2>2, StutterStep
<1>5. CASE row \notin log
  <2>1. Written(c, unit[c])' = Written(c, unit[c]) \cup {row} BY <1>2 DEF Written
  <2>2. row \notin store /\ row \notin Written(c, unit[c])
    BY <1>0, <1>5 DEF TypeOK, Written
  <2>3. /\ Work(c) = Written(c, unit[c]) /\ Work(c)' = Work(c) \cup {row}
        /\ Status(c) = "busy" /\ Status(c)' = "busy"
    BY <1>1, <1>2, <1>3, <2>1, StatusIs DEF HasStatus
  <2>4. Told(c)' = Told(c) BY <1>2 DEF Told
  <2>5. OthersSame(c) BY DEF Context
  <2>6. row \in Rows \ (store \cup Work(c)) BY <1>3, <2>2, <2>3
  <2>7. Abstract!Write(c) BY <1>2, <2>3, <2>4, <2>5, <2>6, AbstractWrite
  <2> QED BY <2>7 DEF AbstractStep
<1> QED BY <1>4, <1>5

\* A scope that began its transaction decides the unit and tells nothing yet.
LEMMA EndOwnIsSettle ==
  ASSUME NEW c \in Clients, Context(c), CommitOwn(c) \/ CommitOwnFails(c) \/ RollbackOwn(c)
  PROVE  AbstractStep(c)
<1>0. /\ TypeOK /\ Busy /\ StackInv(c) /\ OpFate(c)
      /\ UNCHANGED <<mode, unit, verdict, log>> /\ depth[c] > 0 /\ Top(c).own
  BY DEF Context, FateInv, CommitOwn, CommitOwnFails, RollbackOwn, userVars, At
<1>1. mode[c] = "op"
  <2>1. ~InUserTx(c) BY <1>0, OwnerIsAlone
  <2> QED BY <1>0, <2>1 DEF InUserTx, Busy, TypeOK
<1>2. PICK fate \in {"applied", "dropped"} :
        /\ tx[c] = "open"
        /\ tx'[c] = IF fate = "applied" THEN "committed" ELSE "rolledback"
        /\ store' = IF fate = "applied" THEN store \cup Written(c, unit[c]) ELSE store
  <2>1. CASE CommitOwn(c) BY <1>0, <2>1 DEF CommitOwn, TypeOK
  <2>2. CASE CommitOwnFails(c) \/ RollbackOwn(c)
    <3>1. tx[c] = "open" /\ tx'[c] = "rolledback" /\ store' = store
      BY <1>0, <1>1, <2>2, OwnerDrops
    <3> QED BY <3>1
  <2> QED BY <2>1, <2>2
<1>3. Written(c, unit[c])' = Written(c, unit[c]) BY <1>0 DEF Written
<1>4. CASE Written(c, unit[c]) = {}
  <2>1. store' = store BY <1>2, <1>4
  <2>2. Same(c) BY <1>0, <1>3, <1>4, <2>1, QuietStep
  <2> QED BY <2>1, <2>2, StutterStep
<1>5. CASE Written(c, unit[c]) # {}
  <2>1. /\ Work(c) = Written(c, unit[c]) /\ Work(c)' = Work(c)
        /\ Status(c) = "busy" /\ Status(c)' = fate
    BY <1>0, <1>1, <1>2, <1>3, <1>5, StatusIs DEF HasStatus
  <2>2. Meets(c, fate) BY <1>2, <2>1 DEF Meets
  <2>3. Told(c)' = Told(c) BY <1>0 DEF Told
  <2>4. OthersSame(c) BY DEF Context
  <2>5. Abstract!Settle(c) BY <2>1, <2>2, <2>3, <2>4, AbstractSettle
  <2> QED BY <2>5 DEF AbstractStep
<1> QED BY <1>4, <1>5

\* The fate and the answer of an operation whose outermost scope is done.
LEMMA DoneFate ==
  ASSUME NEW c \in Clients, Context(c), mode[c] = "op", depth[c] = 1, At(c, "done"),
         store' = store
  PROVE  \E fate : Meets(c, fate) /\ TrueAnswer(c, fate, Verdict(Top(c).err))
<1>0. /\ TypeOK /\ StackInv(c) /\ RowsInv(c) /\ Told(c) = "none" /\ ~InUserTx(c)
  BY DEF Context, Answered, InUserTx
<1>1. Work(c) = Written(c, unit[c]) BY StatusIs DEF HasStatus
<1>2. CASE Written(c, unit[c]) = {}
  <2>1. Status(c) = "busy" BY <1>2, StatusIs DEF HasStatus
  <2>2. Meets(c, "busy") BY <2>1 DEF Meets
  <2>3. TrueAnswer(c, "busy", Verdict(Top(c).err))
    BY <1>0, <1>1, <1>2 DEF TrueAnswer, Verdict
  <2> QED BY <2>2, <2>3
<1>3. CASE Written(c, unit[c]) # {}
  <2>1. tx[c] # "open"
    <3>1. tx[c] = "open" => <<c, unit[c]>> \in skipped BY <1>0, DoneHoldsNothing
    <3> QED BY <3>1 DEF Context
  <2>2. tx[c] \in {"committed", "rolledback"} BY <1>0, <1>3, <2>1 DEF RowsInv, TypeOK
  <2>3. CASE tx[c] = "committed"
    <3>1. ~Top(c).err /\ Written(c, unit[c]) \subseteq store
      BY <1>0, <2>3 DEF Context, Answered, RowsInv
    <3>2. Status(c) = "applied" BY <1>3, <2>3, StatusIs DEF HasStatus
    <3>3. Meets(c, "applied") BY <1>1, <3>1, <3>2 DEF Meets
    <3>4. TrueAnswer(c, "applied", Verdict(Top(c).err))
      BY <1>0, <3>1 DEF TrueAnswer, Verdict
    <3> QED BY <3>3, <3>4
  <2>4. CASE tx[c] = "rolledback"
    <3>1. Top(c).err BY <1>3, <2>4 DEF Context, FateInv, OpFate
    <3>2. Status(c) = "dropped" BY <1>3, <2>4, StatusIs DEF HasStatus
    <3>3. Meets(c, "dropped") BY <3>2 DEF Meets
    <3>4. TrueAnswer(c, "dropped", Verdict(Top(c).err))
      BY <1>0, <3>1 DEF TrueAnswer, Verdict
    <3> QED BY <3>3, <3>4
  <2> QED BY <2>2, <2>3, <2>4
<1> QED BY <1>2, <1>3

LEMMA ReturnIsFinish ==
  ASSUME NEW c \in Clients, Context(c), ReturnOp(c)
  PROVE  AbstractStep(c)
<1>0. /\ TypeOK /\ Busy /\ OthersSame(c) /\ depth[c] = 1 /\ At(c, "done") /\ ~InUserTx(c)
      /\ mode' = [mode EXCEPT ![c] = "idle"] /\ unit' = unit /\ store' = store
      /\ Report(c, Verdict(Top(c).err))
  BY DEF ReturnOp, Context
<1>1. mode[c] = "op" BY <1>0 DEF InUserTx, Busy, TypeOK
<1>2. unit[c] \in Units /\ verdict[c][unit[c]] = "none" BY <1>1 DEF Context, Answered
<1>3. PICK fate : Meets(c, fate) /\ TrueAnswer(c, fate, Verdict(Top(c).err))
  BY <1>0, <1>1, DoneFate
<1>4. Told(c)' = Verdict(Top(c).err)
  <2>1. verdict'[c][unit[c]] = Verdict(Top(c).err) BY <1>0, <1>2 DEF Report, TypeOK
  <2>2. unit'[c] # 0 BY <1>0, <1>2 DEF Units
  <2> QED BY <1>0, <2>1, <2>2 DEF Told
<1>5. mode'[c] = "idle" BY <1>0 DEF TypeOK
<1>6. Work(c)' = {} /\ Status(c)' = "idle" BY <1>5, StatusIs DEF HasStatus
<1>7. Abstract!Finish(c) BY <1>0, <1>3, <1>4, <1>6, AbstractFinish
<1> QED BY <1>7 DEF AbstractStep

\* Save's create begins the next unit as the update's answers.
LEMMA FallbackIsFinish ==
  ASSUME NEW c \in Clients, Context(c), SaveFallbackOp(c)
  PROVE  AbstractStep(c)
<1>0. /\ TypeOK /\ Busy /\ OthersSame(c) /\ Past(c) /\ Answered(c)
      /\ depth[c] = 1 /\ At(c, "done") /\ ~InUserTx(c) /\ ~Top(c).err
      /\ mode' = mode /\ store' = store /\ log' = log /\ NewUnit(c) /\ Report(c, "ok")
  BY DEF SaveFallbackOp, Context, NoRowsAffected
<1>1. mode[c] = "op" BY <1>0 DEF InUserTx, Busy, TypeOK
<1>2. PICK fate : Meets(c, fate) /\ TrueAnswer(c, fate, Verdict(Top(c).err))
  BY <1>0, <1>1, DoneFate
<1>3. TrueAnswer(c, fate, "ok") BY <1>0, <1>2 DEF Verdict
<1>4. unit'[c] = unit[c] + 1 /\ Written(c, unit[c])' = {} BY <1>0, NothingWritten
<1>5. unit[c] \in Nat /\ unit[c] < MaxUnits /\ unit'[c] \in Units
  BY <1>0, <1>4, BoundsAssumption DEF NewUnit, TypeOK, Units
<1>6. Told(c)' = "none"
  <2>1. verdict[c][unit'[c]] = "none" BY <1>0, <1>4, <1>5 DEF Answered
  <2>2. verdict'[c][unit'[c]] = verdict[c][unit'[c]]
    BY <1>0, <1>4, <1>5 DEF Report, TypeOK
  <2>3. unit'[c] # 0 BY <1>5 DEF Units
  <2> QED BY <2>1, <2>2, <2>3 DEF Told
<1>7. Work(c)' = {} /\ Status(c)' = "busy" BY <1>0, <1>1, <1>4, StatusIs DEF HasStatus
<1>8. Abstract!Finish(c) BY <1>0, <1>2, <1>3, <1>6, <1>7, AbstractFinish
<1> QED BY <1>8 DEF AbstractStep

\* A unit that runs on into a panic has an open transaction or nothing written.
LEMMA PanicFate ==
  ASSUME NEW c \in Clients, Context(c), Panic(c)
  PROVE  /\ UNCHANGED <<unit, store, log>> /\ mode[c] # "idle"
         /\ mode[c] \in {"op", "block"} /\ Written(c, unit[c]) # {} => tx[c] = "open"
         /\ tx'[c] = IF tx[c] = "open" THEN "rolledback" ELSE tx[c]
<1>0. /\ TypeOK /\ Busy /\ StackInv(c) /\ RowsInv(c) /\ Answered(c) /\ FateInv(c)
      /\ UNCHANGED <<unit, store, log>>
      /\ depth[c] > 0 /\ Top(c).pc \in {"before", "after"} /\ ~Top(c).err
  BY DEF Panic, Context, At
<1>1. mode[c] # "idle" BY <1>0 DEF Busy
<1>2. tx[c] = "open" => Top(c).onTx BY <1>0, TopFacts DEF TopInv
<1>3. tx'[c] = IF tx[c] = "open" THEN "rolledback" ELSE tx[c]
  BY <1>0, <1>2 DEF Panic, TypeOK
<1>4. mode[c] \in {"op", "block"} /\ Written(c, unit[c]) # {} => tx[c] = "open"
  <2>1. tx[c] \in {"none", "nil"} => Written(c, unit[c]) = {} BY <1>0 DEF RowsInv
  <2>2. mode[c] = "op" => tx[c] # "committed" BY <1>0 DEF Answered
  <2>3. mode[c] = "op" /\ Written(c, unit[c]) # {} => tx[c] # "rolledback"
    BY <1>0 DEF FateInv, OpFate
  <2>4. mode[c] = "block" => tx[c] \in {"open", "nil"} BY <1>0 DEF FateInv, CallerFate
  <2> QED BY <1>0, <2>1, <2>2, <2>3, <2>4 DEF TypeOK
<1> QED BY <1>0, <1>1, <1>3, <1>4

LEMMA PanicStep ==
  ASSUME NEW c \in Clients, Context(c), Panic(c)
  PROVE  AbstractStep(c)
<1>0. /\ TypeOK /\ OthersSame(c) /\ UNCHANGED <<unit, store, log>> /\ mode[c] # "idle"
      /\ Work(c) = Written(c, unit[c]) /\ Written(c, unit[c])' = Written(c, unit[c])
      /\ tx'[c] = IF tx[c] = "open" THEN "rolledback" ELSE tx[c]
      /\ unit[c] \in Units /\ Told(c) = verdict[c][unit[c]]
  BY PanicFate, StatusIs DEF Context, HasStatus, Written
<1>1. CASE mode[c] = "manual"
  <2>0. UNCHANGED <<mode, verdict>> BY <1>1 DEF Panic
  <2>1. CASE tx'[c] = tx[c] \/ Written(c, unit[c]) = {}
    <3>1. Same(c) BY <1>0, <2>0, <2>1, QuietStep
    <3> QED BY <1>0, <3>1, StutterStep
  <2>2. CASE tx'[c] # tx[c] /\ Written(c, unit[c]) # {}
    <3>1. /\ Work(c)' = Work(c) /\ Status(c) = "busy" /\ Status(c)' = "dropped"
      BY <1>0, <2>0, <2>2, StatusIs DEF HasStatus
    <3>2. Meets(c, "dropped") BY <1>0, <3>1 DEF Meets
    <3>3. Told(c)' = Told(c) BY <1>0, <2>0 DEF Told
    <3>4. Abstract!Settle(c) BY <1>0, <3>1, <3>2, <3>3, AbstractSettle
    <3> QED BY <3>4 DEF AbstractStep
  <2> QED BY <2>1, <2>2
<1>2. CASE mode[c] # "manual"
  <2>0. Report(c, "fail") /\ mode' = [mode EXCEPT ![c] = "idle"] BY <1>2 DEF Panic
  <2>1. mode[c] \in {"op", "block"} BY <1>0, <1>2 DEF TypeOK
  <2>2. Told(c) = "none" BY <1>0, <2>1 DEF Context, Answered, FateInv, CallerFate
  <2>3. Told(c)' = "fail"
    <3>1. verdict'[c][unit[c]] = "fail" BY <1>0, <2>0, <2>2 DEF Report, TypeOK
    <3>2. unit'[c] # 0 BY <1>0 DEF Units
    <3> QED BY <1>0, <3>1, <3>2 DEF Told
  <2>4. Work(c)' = {} /\ Status(c)' = "idle"
    <3>1. mode'[c] = "idle" BY <1>0, <2>0 DEF TypeOK
    <3> QED BY <3>1, StatusIs DEF HasStatus
  <2>5. Status(c) = "busy"
    <3>1. Written(c, unit[c]) # {} => tx[c] = "open" BY <2>1, PanicFate
    <3> QED BY <1>0, <3>1, StatusIs DEF HasStatus
  <2>6. Meets(c, "dropped") BY <1>0, <2>5 DEF Meets
  <2>7. TrueAnswer(c, "dropped", Told(c)') BY <2>2, <2>3 DEF TrueAnswer
  <2>8. Abstract!Finish(c) BY <1>0, <2>4, <2>6, <2>7, AbstractFinish
  <2> QED BY <2>8 DEF AbstractStep
<1> QED BY <1>1, <1>2

LEMMA BeginIsStart ==
  ASSUME NEW c \in Clients, Context(c), StartOp(c) \/ UserBegin(c)
  PROVE  AbstractStep(c)
<1>0. /\ TypeOK /\ OthersSame(c) /\ Past(c) /\ Answered(c) /\ mode[c] = "idle"
      /\ mode'[c] # "idle" /\ NewUnit(c) /\ UNCHANGED <<log, store, verdict>>
  BY DEF StartOp, UserBegin, Context, TypeOK
<1>1. unit'[c] = unit[c] + 1 /\ Written(c, unit[c])' = {} BY <1>0, NothingWritten
<1>2. unit[c] \in Nat /\ unit[c] < MaxUnits /\ unit'[c] \in Units /\ unit'[c] # 0
  BY <1>0, <1>1, BoundsAssumption DEF NewUnit, TypeOK, Units
<1>3. Told(c)' = "none"
  <2>1. verdict[c][unit'[c]] = "none" BY <1>1, <1>2, <1>0 DEF Answered
  <2> QED BY <1>0, <1>2, <2>1 DEF Told
<1>4. /\ Status(c) = "idle" /\ Work(c) = {}
      /\ Status(c)' = "busy" /\ Work(c)' = {}
  BY <1>0, <1>1, StatusIs DEF HasStatus
<1>5. Abstract!Start(c) BY <1>0, <1>3, <1>4, AbstractStart
<1> QED BY <1>5 DEF AbstractStep

\* The fate and the answer of a transaction its caller ends, or has ended before.
LEMMA EndFate ==
  ASSUME NEW c \in Clients, Context(c), InUserTx(c), CommitTx(c) \/ RollbackTx(c)
  PROVE  /\ Meets(c, IF Written(c, unit[c]) = {} THEN "busy"
                     ELSE IF tx'[c] = "committed" THEN "applied" ELSE "dropped")
         /\ TrueAnswer(c, IF Written(c, unit[c]) = {} THEN "busy"
                          ELSE IF tx'[c] = "committed" THEN "applied" ELSE "dropped",
                       verdict'[c][unit[c]])
         /\ Written(c, unit[c]) # {} => tx'[c] \in {"committed", "rolledback"}
<1>0. /\ TypeOK /\ RowsInv(c) /\ FateInv(c) /\ mode[c] \in {"manual", "block"}
      /\ unit[c] \in Units /\ Told(c) = verdict[c][unit[c]]
  BY DEF Context, InUserTx
<1>1. Work(c) = Written(c, unit[c]) BY <1>0, StatusIs DEF HasStatus
<1>2. PICK v \in {"ok", "fail"} :
        /\ Report(c, v)
        /\ \/ /\ tx[c] = "open" /\ tx'[c] = "committed" /\ v = Verdict(handleErr[c])
              /\ store' = store \cup Written(c, unit[c])
           \/ /\ tx'[c] = IF tx[c] = "open" THEN "rolledback" ELSE tx[c]
              /\ store' = store /\ v = "fail"
  BY <1>0 DEF CommitTx, RollbackTx, Verdict, TypeOK
<1>3. verdict'[c][unit[c]] = IF Told(c) = "none" THEN v ELSE Told(c)
  BY <1>0, <1>2 DEF Report, TypeOK
<1>4. CASE Written(c, unit[c]) = {}
  <2>1. Status(c) = "busy" BY <1>0, <1>4, StatusIs DEF HasStatus
  <2>2. Meets(c, "busy") BY <1>2, <1>4, <2>1 DEF Meets
  <2>3. TrueAnswer(c, "busy", verdict'[c][unit[c]]) BY <1>1, <1>3, <1>4 DEF TrueAnswer
  <2> QED BY <1>4, <2>2, <2>3
<1>5. CASE Written(c, unit[c]) # {}
  <2>1. Status(c) = IF tx[c] = "committed" THEN "applied"
                    ELSE IF tx[c] = "rolledback" THEN "dropped" ELSE "busy"
    BY <1>0, <1>5, StatusIs DEF HasStatus
  <2>2. tx[c] \in {"open", "committed", "rolledback"}
    BY <1>0, <1>5 DEF RowsInv, TypeOK
  <2>3. CASE tx[c] = "open" /\ tx'[c] = "committed"
    <3>1. store' = store \cup Work(c) /\ v = "ok"
      <4>1. ~handleErr[c] BY <1>0, <1>5, <2>3 DEF FateInv, HandleFate, InUserTx
      <4> QED BY <1>1, <1>2, <2>3, <4>1 DEF Verdict
    <3>2. Meets(c, "applied") BY <2>1, <2>3, <3>1 DEF Meets
    <3>3. TrueAnswer(c, "applied", verdict'[c][unit[c]]) BY <1>3, <3>1 DEF TrueAnswer
    <3> QED BY <1>5, <2>3, <3>2, <3>3
  <2>4. CASE tx'[c] = "rolledback"
    <3>1. tx[c] # "committed" /\ store' = store /\ v = "fail" BY <1>2, <2>4
    <3>2. Meets(c, "dropped") BY <2>1, <3>1 DEF Meets
    <3>3. TrueAnswer(c, "dropped", verdict'[c][unit[c]]) BY <1>3, <3>1 DEF TrueAnswer
    <3> QED BY <1>5, <2>4, <3>2, <3>3
  <2>5. CASE tx[c] = "committed" /\ tx'[c] = "committed"
    <3>1. store' = store \cup Work(c) BY <1>0, <1>1, <1>2, <2>5 DEF RowsInv
    <3>2. Told(c) # "none" BY <1>0, <2>5 DEF FateInv, CallerFate
    <3>3. Meets(c, "applied") BY <2>1, <2>5, <3>1 DEF Meets
    <3>4. TrueAnswer(c, "applied", verdict'[c][unit[c]]) BY <1>3, <3>2 DEF TrueAnswer
    <3> QED BY <1>5, <2>5, <3>3, <3>4
  <2> QED BY <1>2, <2>2, <2>3, <2>4, <2>5
<1> QED BY <1>4, <1>5

\* The caller ends its transaction: it keeps the handle, or lets go of it.
LEMMA CallerEnds ==
  ASSUME NEW c \in Clients, Context(c), UserCommit(c) \/ UserRollback(c) \/ BlockReturns(c)
  PROVE  AbstractStep(c)
<1> DEFINE fate == IF Written(c, unit[c]) = {} THEN "busy"
                   ELSE IF tx'[c] = "committed" THEN "applied" ELSE "dropped"
<1>0. /\ TypeOK /\ OthersSame(c) /\ InUserTx(c) /\ mode[c] # "idle"
      /\ CommitTx(c) \/ RollbackTx(c)
      /\ UNCHANGED <<unit, log>> /\ mode'[c] \in {mode[c], "idle"} /\ unit[c] \in Units
  BY DEF Context, UserCommit, UserRollback, BlockReturns, InUserTx, TypeOK
<1>1. /\ Meets(c, fate) /\ TrueAnswer(c, fate, verdict'[c][unit[c]])
      /\ Written(c, unit[c]) # {} => tx'[c] \in {"committed", "rolledback"}
  BY <1>0, EndFate
<1>2. Told(c)' = verdict'[c][unit[c]]
  <2>1. unit'[c] # 0 BY <1>0 DEF Units
  <2> QED BY <1>0, <2>1 DEF Told
<1>3. /\ Work(c) = Written(c, unit[c])
      /\ Written(c, unit[c])' = Written(c, unit[c])
  BY <1>0, StatusIs DEF HasStatus, Written
<1>4. CASE mode'[c] = "idle"
  <2>1. Work(c)' = {} /\ Status(c)' = "idle" BY <1>4, StatusIs DEF HasStatus
  <2>2. Abstract!Finish(c) BY <1>0, <1>1, <1>2, <2>1, AbstractFinish
  <2> QED BY <2>2 DEF AbstractStep
<1>5. CASE mode'[c] # "idle"
  <2>1. Work(c)' = Work(c) /\ Status(c)' = fate
    BY <1>1, <1>3, <1>5, StatusIs DEF HasStatus
  <2>2. Abstract!Settle(c) BY <1>0, <1>1, <1>2, <2>1, AbstractSettle
  <2> QED BY <2>2 DEF AbstractStep
<1> QED BY <1>4, <1>5

LEMMA EveryStep ==
  ASSUME PlainCode, PlainInv, NEW c \in Clients, Callback(c) \/ User(c)
  PROVE  AbstractStep(c)
<1>0. Context(c) BY InContext
<1>1. CASE UserOp(c) \/ UserAddError(c)
  <2>1. UNCHANGED <<mode, unit, verdict, store, log, tx>>
    BY <1>1 DEF UserOp, UserAddError, userVars
  <2>2. Same(c) BY <2>1, QuietStep DEF Written
  <2> QED BY <1>0, <2>1, <2>2, StutterStep
<1>2. CASE \/ Write(c) \/ CommitOwn(c) \/ CommitOwnFails(c) \/ RollbackOwn(c)
           \/ ReturnOp(c) \/ Panic(c) \/ SaveFallbackOp(c)
  BY <1>0, <1>2, WriteStep, EndOwnIsSettle, ReturnIsFinish, PanicStep, FallbackIsFinish
<1>3. CASE /\ Callback(c) /\ ~Write(c) /\ ~CommitOwn(c) /\ ~CommitOwnFails(c)
           /\ ~RollbackOwn(c) /\ ~ReturnOp(c) /\ ~Panic(c) /\ ~SaveFallbackOp(c)
  BY <1>0, <1>3, QuietCallback, StutterStep
<1>4. CASE \/ StartOp(c) \/ UserBegin(c) \/ UserCommit(c) \/ UserRollback(c)
           \/ BlockReturns(c)
  BY <1>0, <1>4, BeginIsStart, CallerEnds
<1> QED BY <1>1, <1>2, <1>3, <1>4 DEF User, UserEnds

\* With user code that neither calls SkipLeft nor marks a transaction's handle, every
\* step of the callback chains is a step of the atomic store or none at all: a unit's
\* rows are published in one step or never, and no caller is told otherwise
\* (callCallbacks, scope.Begin, scope.CommitOrRollback, DB.Commit, DB.Rollback,
\* DB.Transaction, DB.Save).
THEOREM Refinement == ASSUME PlainCode PROVE Spec => ImplementsAtomicStore
<1>1. Init => Abstract!Init
  BY DEF Init, Abstract!Init, Work, Status, Told
<1>2. PlainCode /\ PlainInv /\ [Next]_vars => [Abstract!Next]_(Abstract!vars)
  <2> SUFFICES ASSUME PlainCode, PlainInv, [Next]_vars
               PROVE  Abstract!Next \/ UNCHANGED Abstract!vars
      OBVIOUS
  <2>1. CASE UNCHANGED vars
    <3>1. store' = store /\ \A x \in Clients : Same(x)
      BY <2>1 DEF vars, Same, Work, Status, Told, Written
    <3> QED BY <3>1, AbstractStutter
  <2>2. ASSUME NEW c \in Clients, Callback(c) \/ User(c)
        PROVE  Abstract!Next \/ UNCHANGED Abstract!vars
    <3>1. AbstractStep(c) BY <2>2, EveryStep
    <3> QED BY <3>1, AbstractStutter DEF AbstractStep, Abstract!Next
  <2> QED BY <2>1, <2>2 DEF Next
<1> QED BY <1>1, <1>2, PlainInvariance, PTL DEF Spec, ImplementsAtomicStore, Abstract!Spec
=============================================================================
