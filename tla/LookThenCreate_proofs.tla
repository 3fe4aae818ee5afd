----------------------- MODULE LookThenCreate_proofs -----------------------
(***************************************************************************)
(* What is proved of modules Migration and LookThenCreate, for any number  *)
(* of programs, models, calls and rows.                                    *)
(*                                                                         *)
(* Sound and Quiet hold of each program by itself: a step of another one   *)
(* makes the schema grow, which Sound survives, or leaves it as it is,     *)
(* or else the program is no longer quiet.                                 *)
(***************************************************************************)
EXTENDS LookThenCreate, SequenceTheorems, FiniteSetTheorems, WellFoundedInduction, TLAPS

-----------------------------------------------------------------------------
(* The inductive invariant of the migrations.                              *)

AtField == {"field", "alter", "makeJoin", "nested", "nestedField", "nestedAlter"}
AtJoin == {"nested", "nestedField", "nestedAlter"}
AtIndex == {"index", "makeIndex"}
AtRest == {"off", "done"}
Places == AtField \cup AtIndex \cup AtRest \cup {"table", "create"}

\* f has a value for each program, and no other.
On(f) == f = [q \in Procs |-> f[q]]

\* Where p is, whatever went wrong.
Placed(p) ==
  /\ pc[p] \in Places /\ making[p] \in BOOLEAN /\ err[p] \in BOOLEAN
  /\ model[p] \in 1 .. Len(Models[p])
  /\ pc[p] \in AtRest => model[p] = 1
  /\ pc[p] \in AtField => left[p] \in Seq(FieldsOf(Model(p))) /\ left[p] # <<>>
  /\ pc[p] = "alter" => Field(p).kind = "column"
  /\ pc[p] \in AtJoin \cup {"makeJoin"} => Field(p).kind = "join"
  /\ pc[p] = "create" => making[p]

EachHasOne ==
  /\ On(pc) /\ On(model) /\ On(making) /\ On(left) /\ On(todo) /\ On(cur)
  /\ On(err) /\ On(nerr) /\ On(quiet)

\* The fields p is through with, and what it is to be through with one.
Waiting(p) == {left[p][i] : i \in DOMAIN left[p]}
Handled(p) == FieldsOf(Model(p)) \ Waiting(p)
DoneWith(p, f) ==
  IF f.kind = "join" THEN f.name \in tables ELSE making[p] \/ HasColumn(Table(p), f.name)

Before(p) == pc[p] \notin AtRest => \A i \in 1 .. Len(Models[p]) : i < model[p] => Complete(Models[p][i])
FieldsDone(p) == pc[p] \in AtField =>
  /\ making[p] \/ Table(p) \in tables
  /\ \A f \in Handled(p) : DoneWith(p, f)
JoinThere(p) == pc[p] \in AtJoin => Field(p).name \in tables
JoinsDone(p) == pc[p] = "create" => JoinsOf(Model(p)) \subseteq tables /\ todo[p] = Model(p).indexes
TableDone(p) == pc[p] \in AtIndex =>
  /\ {Table(p)} \cup JoinsOf(Model(p)) \subseteq tables
  /\ \A c \in ColumnsOf(Model(p)) : HasColumn(Table(p), c)
IndexDone(p) == pc[p] \in AtIndex => \A i \in Model(p).indexes :
  i \in todo[p] \/ <<Table(p), i>> \in indexes \/ (pc[p] = "makeIndex" /\ i = cur[p])
Finished(p) == pc[p] = "done" => Has(p)

Sound(p) ==
  /\ Before(p) /\ FieldsDone(p) /\ JoinThere(p) /\ JoinsDone(p)
  /\ TableDone(p) /\ IndexDone(p) /\ Finished(p)

\* While nobody disturbs p, what it is about to make is not there.
Absent(p) ==
  /\ pc[p] = "alter" => <<Table(p), Field(p).name>> \notin columns
  /\ pc[p] = "makeJoin" => Field(p).name \notin tables
  /\ pc[p] = "nestedAlter" => <<Field(p).name, cur[p]>> \notin columns
  /\ pc[p] \in AtField \cup {"create"} /\ making[p] => Table(p) \notin tables
  /\ pc[p] = "makeIndex" => <<Table(p), cur[p]>> \notin indexes

ExtrasOf(t) == \A c \in Extra[t] : HasColumn(t, c)
ModelExtras(m) == \A t \in JoinsOf(m) : ExtrasOf(t)
ExtrasDone(p) ==
  /\ pc[p] \notin AtRest => \A i \in 1 .. Len(Models[p]) : i < model[p] => ModelExtras(Models[p][i])
  /\ pc[p] \in AtField => \A f \in Handled(p) : f.kind = "join" => ExtrasOf(f.name)
  /\ pc[p] \in {"nestedField", "nestedAlter"} =>
       \A c \in Extra[Field(p).name] : c \in todo[p] \/ HasColumn(Field(p).name, c)
  /\ pc[p] \in AtIndex \cup {"create"} => ModelExtras(Model(p))
  /\ pc[p] = "done" => HasExtras(p)

Quiet(p) ==
  /\ ~err[p] /\ (pc[p] \in {"nestedField", "nestedAlter"} => ~nerr[p])
  /\ Absent(p) /\ ExtrasDone(p)

\* The invariant: of p, and of all.
Fine(p) == Placed(p) /\ (~err[p] => Sound(p)) /\ (quiet[p] => Quiet(p))
MInv == EachHasOne /\ \A p \in Procs : Fine(p)

-----------------------------------------------------------------------------
(* What a step of p leaves alone.                                          *)

\* g is f but for p.
Kept(f, g, p) == On(g) /\ \A q \in Procs : q # p => g[q] = f[q]

LEMMA PutKept ==
  ASSUME NEW f, NEW g, On(f), NEW p \in Procs, \E e : g = [f EXCEPT ![p] = e]
  PROVE  Kept(f, g, p)
  BY DEF Kept, On

LEMMA SameKept ==
  ASSUME NEW f, NEW g, On(f), NEW p \in Procs, g = f
  PROVE  Kept(f, g, p)
  BY DEF Kept, On

LEMMA PutAt ==
  ASSUME NEW f, On(f), NEW p \in Procs, NEW e
  PROVE  [f EXCEPT ![p] = e][p] = e
  BY DEF On

Frame(p) ==
  /\ Kept(pc, pc', p) /\ Kept(model, model', p) /\ Kept(making, making', p)
  /\ Kept(left, left', p) /\ Kept(todo, todo', p) /\ Kept(cur, cur', p)
  /\ Kept(err, err', p) /\ Kept(nerr, nerr', p)

Grows ==
  /\ tables \subseteq tables' /\ columns \subseteq columns' /\ indexes \subseteq indexes'
  /\ dialect' = dialect

Hushes(p) == On(quiet)' /\ \A q \in Procs : q # p /\ quiet'[q] => quiet[q] /\ schema' = schema

LEMMA StepFrame ==
  ASSUME EachHasOne, NEW p \in Procs, NEW clash, MigrationStep(p, clash)
  PROVE  Frame(p)
<1> USE DEF EachHasOne, Frame, To
<1>1. CASE Start(p)
  BY <1>1, SameKept, PutKept DEF Start
<1>2. CASE Stop(p)
  BY <1>2, SameKept, PutKept DEF Stop, Forgets
<1>3. CASE LookTable(p)
  BY <1>3, SameKept, PutKept DEF LookTable
<1>4. CASE CollectColumn(p)
  BY <1>4, SameKept, PutKept DEF CollectColumn, AfterField
<1>5. CASE LookColumn(p)
  BY <1>5, SameKept, PutKept DEF LookColumn, AfterField
<1>6. CASE AddColumn(p)
  BY <1>6, SameKept, PutKept DEF AddColumn, AfterField, Exec
<1>7. CASE LookJoin(p)
  BY <1>7, SameKept, PutKept DEF LookJoin
<1>8. CASE MakeJoin(p)
  BY <1>8, SameKept, PutKept DEF MakeJoin, Exec
<1>9. CASE NestedLook(p)
  BY <1>9, SameKept, PutKept DEF NestedLook, AfterField
<1>10. CASE NestedColumn(p)
  BY <1>10, SameKept, PutKept DEF NestedColumn, AfterNested, AfterField
<1>11. CASE NestedAdd(p)
  BY <1>11, SameKept, PutKept DEF NestedAdd, AfterNested, AfterField, Exec
<1>12. CASE CreateTable(p)
  BY <1>12, SameKept, PutKept DEF CreateTable, Exec
<1>13. CASE LookIndex(p)
  BY <1>13, SameKept, PutKept DEF LookIndex
<1>14. CASE MakeIndex(p, clash)
  BY <1>14, SameKept, PutKept DEF MakeIndex, Exec
<1>15. CASE NextModel(p)
  BY <1>15, SameKept, PutKept DEF NextModel, Forgets
<1>16. QED
  BY <1>1, <1>2, <1>3, <1>4, <1>5, <1>6, <1>7, <1>8, <1>9, <1>10, <1>11, <1>12, <1>13, <1>14,
     <1>15 DEF MigrationStep

LEMMA StepGrows ==
  ASSUME EachHasOne, NEW p \in Procs, NEW clash, MigrationStep(p, clash)
  PROVE  Grows
<1> USE DEF Grows, schema
<1>1. CASE Start(p) \/ Stop(p) \/ LookTable(p) \/ CollectColumn(p) \/ LookColumn(p) \/ LookJoin(p)
           \/ NestedLook(p) \/ NestedColumn(p) \/ LookIndex(p) \/ NextModel(p)
  BY <1>1 DEF Start, Stop, LookTable, CollectColumn, LookColumn, LookJoin, NestedLook,
              NestedColumn, LookIndex, NextModel
<1>2. CASE AddColumn(p)
  BY <1>2 DEF AddColumn, Exec
<1>3. CASE MakeJoin(p)
  BY <1>3 DEF MakeJoin, Exec
<1>4. CASE NestedAdd(p)
  BY <1>4 DEF NestedAdd, Exec
<1>5. CASE CreateTable(p)
  BY <1>5 DEF CreateTable, Exec
<1>6. CASE MakeIndex(p, clash)
  BY <1>6 DEF MakeIndex, Exec
<1>7. QED
  BY <1>1, <1>2, <1>3, <1>4, <1>5, <1>6 DEF MigrationStep

LEMMA NotesHushes ==
  ASSUME On(quiet), NEW p \in Procs, NEW wrong, Notes(p, wrong), schema' = schema
  PROVE  Hushes(p)
  BY DEF Notes, Hushes, On

LEMMA NotesAllHushes ==
  ASSUME On(quiet), NEW p \in Procs, NEW wrong, NotesAll(p, wrong)
  PROVE  Hushes(p)
  BY DEF NotesAll, Hushes, On

LEMMA PutHushes ==
  ASSUME On(quiet), NEW p \in Procs, schema' = schema,
         quiet' = [quiet EXCEPT ![p] = TRUE] \/ quiet' = quiet
  PROVE  Hushes(p)
  BY DEF Hushes, On

LEMMA StepHushes ==
  ASSUME EachHasOne, NEW p \in Procs, NEW clash, MigrationStep(p, clash)
  PROVE  Hushes(p)
<1> USE DEF EachHasOne
<1>1. CASE Start(p) \/ Stop(p) \/ CollectColumn(p) \/ NextModel(p)
  BY <1>1, PutHushes DEF Start, Stop, CollectColumn, NextModel
<1>2. CASE LookTable(p)
  BY <1>2, NotesHushes DEF LookTable
<1>3. CASE LookColumn(p)
  BY <1>3, NotesHushes DEF LookColumn
<1>4. CASE LookJoin(p)
  BY <1>4, NotesHushes DEF LookJoin
<1>5. CASE NestedLook(p)
  BY <1>5, NotesHushes DEF NestedLook
<1>6. CASE NestedColumn(p)
  BY <1>6, NotesHushes DEF NestedColumn
<1>7. CASE LookIndex(p)
  BY <1>7, NotesHushes DEF LookIndex
<1>8. CASE AddColumn(p)
  BY <1>8, NotesAllHushes DEF AddColumn, Exec
<1>9. CASE MakeJoin(p)
  BY <1>9, NotesAllHushes DEF MakeJoin, Exec
<1>10. CASE NestedAdd(p)
  BY <1>10, NotesAllHushes DEF NestedAdd, Exec
<1>11. CASE CreateTable(p)
  BY <1>11, NotesAllHushes DEF CreateTable, Exec
<1>12. CASE MakeIndex(p, clash)
  <2>1. CASE ~err[p] /\ clash /\ indexes' = indexes /\ Notes(p, TRUE)
    BY <1>12, <2>1, NotesHushes DEF MakeIndex, schema
  <2>2. CASE \E can : NotesAll(p, can)
    BY <2>2, NotesAllHushes
  <2>3. QED
    BY <1>12, <2>1, <2>2 DEF MakeIndex, Exec
<1>13. QED
  BY <1>1, <1>2, <1>3, <1>4, <1>5, <1>6, <1>7, <1>8, <1>9, <1>10, <1>11, <1>12 DEF MigrationStep

-----------------------------------------------------------------------------
(* What grows keeps what it has; another program keeps its invariant.      *)

LEMMA HasColumnStays ==
  ASSUME Grows, NEW t, NEW c, HasColumn(t, c)
  PROVE  HasColumn(t, c)'
  BY DEF Grows, HasColumn

LEMMA CompleteStays ==
  ASSUME Grows, NEW m, Complete(m)
  PROVE  Complete(m)'
<1>1. ({m.table} \cup JoinsOf(m) \subseteq tables)'
  BY DEF Complete, Grows
<1>2. (\A c \in ColumnsOf(m) : HasColumn(m.table, c))'
  BY HasColumnStays DEF Complete
<1>3. ({m.table} \X m.indexes \subseteq indexes)'
  BY DEF Complete, Grows
<1>4. QED
  BY <1>1, <1>2, <1>3 DEF Complete

LEMMA ExtrasStay ==
  ASSUME Grows, NEW t, ExtrasOf(t)
  PROVE  ExtrasOf(t)'
  BY HasColumnStays DEF ExtrasOf

LEMMA ModelExtrasStay ==
  ASSUME Grows, NEW m, ModelExtras(m)
  PROVE  ModelExtras(m)'
  BY ExtrasStay DEF ModelExtras

\* Where q is, and with what, is as before.
SameWork(q) ==
  /\ pc'[q] = pc[q] /\ model'[q] = model[q] /\ making'[q] = making[q] /\ left'[q] = left[q]
  /\ todo'[q] = todo[q] /\ cur'[q] = cur[q] /\ err'[q] = err[q] /\ nerr'[q] = nerr[q]

LEMMA OthersSound ==
  ASSUME Grows, NEW q \in Procs, SameWork(q), Sound(q)
  PROVE  Sound(q)'
<1> USE DEF SameWork
<1>1. Model(q)' = Model(q) /\ Table(q)' = Table(q) /\ Field(q)' = Field(q)
  BY DEF Model, Table, Field
<1>2. Before(q)'
  BY CompleteStays DEF Sound, Before
<1>3. FieldsDone(q)'
  <2>1. Handled(q)' = Handled(q)
    BY <1>1 DEF Handled, Waiting
  <2>2. ASSUME NEW f, DoneWith(q, f) PROVE DoneWith(q, f)'
    BY <1>1, <2>2, HasColumnStays DEF DoneWith, Grows
  <2>3. QED
    BY <1>1, <2>1, <2>2 DEF Sound, FieldsDone, Grows
<1>4. JoinThere(q)'
  BY <1>1 DEF Sound, JoinThere, Grows
<1>5. JoinsDone(q)'
  BY <1>1 DEF Sound, JoinsDone, Grows
<1>6. TableDone(q)'
  BY <1>1, HasColumnStays DEF Sound, TableDone, Grows
<1>7. IndexDone(q)'
  BY <1>1 DEF Sound, IndexDone, Grows
<1>8. Finished(q)'
  BY CompleteStays DEF Sound, Finished, Has
<1>9. QED
  BY <1>2, <1>3, <1>4, <1>5, <1>6, <1>7, <1>8 DEF Sound

LEMMA OthersQuiet ==
  ASSUME Grows, schema' = schema, NEW q \in Procs, SameWork(q), Quiet(q)
  PROVE  Quiet(q)'
<1> USE DEF SameWork
<1>1. Model(q)' = Model(q) /\ Table(q)' = Table(q) /\ Field(q)' = Field(q)
  BY DEF Model, Table, Field
<1>2. Handled(q)' = Handled(q)
  BY <1>1 DEF Handled, Waiting
<1>3. tables' = tables /\ columns' = columns /\ indexes' = indexes
  BY DEF schema
<1>4. Absent(q)'
  BY <1>1, <1>3 DEF Quiet, Absent
<1>5. ExtrasDone(q)'
  <2> USE DEF ExtrasDone, Quiet
  <2>1. (pc[q] \notin AtRest =>
           \A i \in 1 .. Len(Models[q]) : i < model[q] => ModelExtras(Models[q][i]))'
    BY ModelExtrasStay
  <2>2. (pc[q] \in AtField => \A f \in Handled(q) : f.kind = "join" => ExtrasOf(f.name))'
    BY <1>2, ExtrasStay
  <2>3. (pc[q] \in {"nestedField", "nestedAlter"} =>
           \A c \in Extra[Field(q).name] : c \in todo[q] \/ HasColumn(Field(q).name, c))'
    BY <1>1, HasColumnStays
  <2>4. (pc[q] \in AtIndex \cup {"create"} => ModelExtras(Model(q)))'
    BY <1>1, ModelExtrasStay
  <2>5. (pc[q] = "done" => HasExtras(q))'
    BY HasColumnStays DEF HasExtras
  <2>6. QED
    BY <2>1, <2>2, <2>3, <2>4, <2>5
<1>6. QED
  BY <1>4, <1>5 DEF Quiet

LEMMA OthersFine ==
  ASSUME Grows, NEW p \in Procs, NEW q \in Procs, q # p, Frame(p), Hushes(p), Fine(q)
  PROVE  Fine(q)'
<1>1. SameWork(q)
  BY DEF Frame, Kept, SameWork
<1>2. Placed(q)'
  <2>1. Model(q)' = Model(q) /\ Field(q)' = Field(q)
    BY <1>1 DEF Model, Field, SameWork
  <2>2. QED
    BY <1>1, <2>1 DEF Placed, SameWork, Fine
<1>3. (~err[q] => Sound(q))'
  BY <1>1, OthersSound DEF Fine, SameWork
<1>4. (quiet[q] => Quiet(q))'
  BY <1>1, OthersQuiet DEF Fine, Hushes
<1>5. QED
  BY <1>2, <1>3, <1>4 DEF Fine

-----------------------------------------------------------------------------
(* The models, and being through with a field.                             *)

LEMMA ModelFacts ==
  ASSUME NEW p \in Procs, Placed(p)
  PROVE  /\ Model(p) \in ModelsOf(p)
         /\ Model(p).fields \in Seq(FieldsOf(Model(p)))
         /\ \A f \in FieldsOf(Model(p)) : f.kind \in {"column", "join"}
         /\ Table(p) \notin JoinsOf(Model(p))
<1>1. Models[p] \in Seq(ModelsOf(p))
  BY MigrationAssumption
<1>2. model[p] \in DOMAIN Models[p]
  BY <1>1 DEF Placed
<1>3. Model(p) \in ModelsOf(p)
  BY <1>2 DEF Model, ModelsOf
<1>4. QED
  BY <1>3, MigrationAssumption DEF Table

LEMMA BeforeOrLast ==
  ASSUME NEW n \in Nat, NEW k \in 1 .. n, NEW i \in 1 .. n
  PROVE  /\ i < k + 1 => i < k \/ i = k
         /\ ~(k < n) => i < k \/ i = k
         /\ k < n => k + 1 \in 1 .. n
  OBVIOUS

\* The models, one by one.
LEMMA ModelNumbers ==
  ASSUME NEW p \in Procs
  PROVE  /\ Len(Models[p]) \in Nat /\ 1 \in 1 .. Len(Models[p])
         /\ ModelsOf(p) = {Models[p][i] : i \in 1 .. Len(Models[p])}
<1>1. Models[p] \in Seq(ModelsOf(p)) /\ Models[p] # <<>>
  BY MigrationAssumption
<1>2. Len(Models[p]) \in Nat /\ DOMAIN Models[p] = 1 .. Len(Models[p])
  BY <1>1
<1>3. Len(Models[p]) # 0
  BY <1>1
<1>4. QED
  <2> DEFINE n == Len(Models[p])
  <2>1. n \in Nat /\ n # 0
    BY <1>2, <1>3
  <2> HIDE DEF n
  <2>2. 1 \in 1 .. n
    BY <2>1
  <2>3. QED
    BY <1>2, <2>1, <2>2 DEF n, ModelsOf

LEMMA Shift ==
  ASSUME NEW n \in Nat, NEW i \in 1 .. n, i # 1
  PROVE  i - 1 \in 1 .. (n - 1) /\ (i - 1) + 1 = i
  OBVIOUS

\* All of s but its head is in its tail.
LEMMA HeadOrTail ==
  ASSUME NEW S, NEW s \in Seq(S), s # <<>>, NEW i \in DOMAIN s, s[i] # Head(s)
  PROVE  \E j \in DOMAIN Tail(s) : Tail(s)[j] = s[i]
<1> DEFINE n == Len(s)
<1>1. n \in Nat /\ i \in 1 .. n
  OBVIOUS
<1>2. Head(s) = s[1]
  OBVIOUS
<1>3. Tail(s) \in Seq(S) /\ Len(Tail(s)) = n - 1
  BY HeadTailProperties
<1>4. DOMAIN Tail(s) = 1 .. (n - 1)
  BY <1>3
<1>5. \A j \in 1 .. (n - 1) : Tail(s)[j] = s[j + 1]
  BY <1>3, HeadTailProperties
<1> HIDE DEF n
<1>6. i - 1 \in 1 .. (n - 1) /\ (i - 1) + 1 = i
  BY <1>1, <1>2, Shift
<1>7. Tail(s)[i - 1] = s[i]
  BY <1>5, <1>6
<1>8. QED
  BY <1>4, <1>6, <1>7

\* The field at the head is handled next, and no other.
LEMMA HandledNext ==
  ASSUME NEW p \in Procs, Placed(p), pc[p] \in AtField, model'[p] = model[p],
         left'[p] = Tail(left[p])
  PROVE  \A f \in Handled(p)' : f \in Handled(p) \/ f = Field(p)
<1>1. left[p] \in Seq(FieldsOf(Model(p))) /\ left[p] # <<>>
  BY DEF Placed
<1>2. Model(p)' = Model(p)
  BY DEF Model
<1>3. ASSUME NEW f \in Waiting(p), f # Field(p)
      PROVE  f \in Waiting(p)'
  BY <1>1, <1>3, HeadOrTail DEF Waiting, Field
<1>4. QED
  BY <1>2, <1>3 DEF Handled

LEMMA AllHandled ==
  ASSUME NEW p \in Procs, left[p] = <<>>
  PROVE  Handled(p) = FieldsOf(Model(p))
  BY DEF Handled, Waiting

LEMMA KindsOf ==
  ASSUME NEW p \in Procs
  PROVE  /\ \A c \in ColumnsOf(Model(p)) :
              \E f \in FieldsOf(Model(p)) : f.name = c /\ f.kind = "column"
         /\ \A t \in JoinsOf(Model(p)) :
              \E f \in FieldsOf(Model(p)) : f.name = t /\ f.kind = "join"
  BY DEF ColumnsOf, JoinsOf

LEMMA AfterFieldFacts ==
  ASSUME EachHasOne, NEW p \in Procs, AfterField(p, Tail(left[p]))
  PROVE  /\ left'[p] = Tail(left[p]) /\ todo'[p] = Model(p).indexes
         /\ Tail(left[p]) # <<>> => pc'[p] = "field"
         /\ Tail(left[p]) = <<>> /\ making[p] => pc'[p] = "create"
         /\ Tail(left[p]) = <<>> /\ ~making[p] => pc'[p] = "index"
  BY DEF EachHasOne, On, AfterField, To

LEMMA FieldPlaced ==
  ASSUME EachHasOne, NEW p \in Procs, Placed(p), pc[p] \in AtField,
         AfterField(p, Tail(left[p])), model' = model, making' = making, err'[p] \in BOOLEAN
  PROVE  Placed(p)'
<1>1. Tail(left[p]) \in Seq(FieldsOf(Model(p)))
  BY HeadTailProperties DEF Placed
<1>2. Model(p)' = Model(p)
  BY DEF Model
<1>3. CASE Tail(left[p]) # <<>>
  BY <1>1, <1>2, <1>3, AfterFieldFacts DEF Placed, Places, AtField, AtRest, AtJoin
<1>4. CASE Tail(left[p]) = <<>> /\ making[p]
  BY <1>2, <1>4, AfterFieldFacts DEF Placed, Places, AtField, AtRest, AtJoin
<1>5. CASE Tail(left[p]) = <<>> /\ ~making[p]
  BY <1>2, <1>5, AfterFieldFacts DEF Placed, Places, AtField, AtRest, AtJoin, AtIndex
<1>6. QED
  BY <1>3, <1>4, <1>5

\* g is the field at the head.
LEMMA FieldSound ==
  ASSUME EachHasOne, NEW p \in Procs, Placed(p), pc[p] \in AtField,
         AfterField(p, Tail(left[p])), model' = model, making' = making,
         Grows, Sound(p), NEW g, g = Field(p), DoneWith(p, g)'
  PROVE  Sound(p)'
<1>1. Model(p)' = Model(p) /\ Table(p)' = Table(p)
  BY DEF Model, Table
<1>2. pc'[p] \in {"field", "create", "index"}
  BY AfterFieldFacts
<1>3. Before(p)'
  BY <1>1, CompleteStays DEF Sound, Before, AtField, AtRest
<1>4. ASSUME NEW f, DoneWith(p, f) PROVE DoneWith(p, f)'
  BY <1>1, <1>4, HasColumnStays DEF DoneWith, Grows
<1>5. \A f \in Handled(p)' : f \in Handled(p) \/ f = g
  BY AfterFieldFacts, HandledNext
<1>6. \A f \in Handled(p)' : DoneWith(p, f)'
  BY <1>4, <1>5 DEF Sound, FieldsDone
<1>7. making[p] \/ Table(p) \in tables'
  BY DEF Sound, FieldsDone, Grows
<1>8. FieldsDone(p)'
  BY <1>1, <1>6, <1>7 DEF FieldsDone
<1>9. pc'[p] # "field" => \A f \in FieldsOf(Model(p)) : DoneWith(p, f)'
  <2>1. pc'[p] # "field" => left'[p] = <<>>
    BY AfterFieldFacts
  <2>2. pc'[p] # "field" => Handled(p)' = FieldsOf(Model(p))
    BY <1>1, <2>1 DEF Handled, Waiting
  <2>3. QED
    BY <1>6, <2>2
<1>10. pc'[p] # "field" => JoinsOf(Model(p)) \subseteq tables'
  BY <1>9, KindsOf DEF DoneWith
<1>11. JoinsDone(p)'
  BY <1>1, <1>10, AfterFieldFacts DEF JoinsDone
<1>12. TableDone(p)'
  <2>1. pc'[p] = "index" => ~making[p]
    BY AfterFieldFacts DEF Placed
  <2>2. pc'[p] = "index" => \A c \in ColumnsOf(Model(p)) : HasColumn(Table(p), c)'
    BY <1>1, <1>9, <2>1, KindsOf DEF DoneWith
  <2>3. QED
    BY <1>1, <1>2, <1>7, <1>10, <2>1, <2>2 DEF TableDone, AtIndex
<1>13. IndexDone(p)'
  BY <1>1, AfterFieldFacts DEF IndexDone
<1>14. JoinThere(p)' /\ Finished(p)'
  BY <1>2 DEF JoinThere, AtJoin, Finished
<1>15. QED
  BY <1>3, <1>8, <1>11, <1>12, <1>13, <1>14 DEF Sound

LEMMA FieldQuiet ==
  ASSUME EachHasOne, NEW p \in Procs, Placed(p), pc[p] \in AtField,
         AfterField(p, Tail(left[p])), model' = model, making' = making,
         Grows, Quiet(p), ~err'[p], making[p] => Table(p) \notin tables',
         NEW g, g = Field(p), g.kind = "join" => ExtrasOf(g.name)'
  PROVE  Quiet(p)'
<1>1. Model(p)' = Model(p) /\ Table(p)' = Table(p)
  BY DEF Model, Table
<1>2. pc'[p] \in {"field", "create", "index"}
  BY AfterFieldFacts
<1>3. Absent(p)'
  BY <1>1, <1>2 DEF Absent
<1>4. \A f \in Handled(p)' : f.kind = "join" => ExtrasOf(f.name)'
  <2>1. \A f \in Handled(p)' : f \in Handled(p) \/ f = g
    BY AfterFieldFacts, HandledNext
  <2>2. \A f \in Handled(p) : f.kind = "join" => ExtrasOf(f.name)
    BY DEF Quiet, ExtrasDone
  <2>3. QED
    BY <2>1, <2>2, ExtrasStay
<1>5. pc'[p] # "field" => ModelExtras(Model(p))'
  <2>1. pc'[p] # "field" => left'[p] = <<>>
    BY AfterFieldFacts
  <2>2. pc'[p] # "field" => Handled(p)' = FieldsOf(Model(p))
    BY <1>1, <2>1 DEF Handled, Waiting
  <2>3. pc'[p] # "field" => \A t \in JoinsOf(Model(p)) : ExtrasOf(t)'
    BY <1>4, <2>2, KindsOf
  <2>4. QED
    BY <1>1, <2>3 DEF ModelExtras
<1>6. (pc[p] \notin AtRest =>
         \A i \in 1 .. Len(Models[p]) : i < model[p] => ModelExtras(Models[p][i]))'
  BY ModelExtrasStay DEF Quiet, ExtrasDone, AtField, AtRest
<1>7. ExtrasDone(p)'
  BY <1>2, <1>4, <1>5, <1>6 DEF ExtrasDone, AtIndex
<1>8. QED
  BY <1>2, <1>3, <1>7 DEF Quiet

\* p stays with the field.
Stays(p) ==
  /\ pc[p] \in AtField /\ pc'[p] \in AtField
  /\ model'[p] = model[p] /\ making'[p] = making[p] /\ left'[p] = left[p]

LEMMA StaysFacts ==
  ASSUME NEW p \in Procs, Stays(p)
  PROVE  Model(p)' = Model(p) /\ Table(p)' = Table(p) /\ Field(p)' = Field(p) /\ Handled(p)' = Handled(p)
  BY DEF Stays, Model, Table, Field, Handled, Waiting

LEMMA StaysPlaced ==
  ASSUME NEW p \in Procs, Placed(p), Stays(p), err'[p] \in BOOLEAN,
         pc'[p] = "alter" => Field(p).kind = "column",
         pc'[p] \in AtJoin \cup {"makeJoin"} => Field(p).kind = "join"
  PROVE  Placed(p)'
<1>1. pc'[p] \notin AtRest /\ pc'[p] # "create" /\ pc'[p] \in Places
  BY DEF Stays, AtField, AtRest, Places
<1>2. QED
  BY <1>1, StaysFacts DEF Placed, Stays

LEMMA StaysSound ==
  ASSUME NEW p \in Procs, Placed(p), Stays(p), Grows, Sound(p),
         pc'[p] \in AtJoin => Field(p).name \in tables'
  PROVE  Sound(p)'
<1> USE StaysFacts
<1>1. Before(p)'
  BY CompleteStays DEF Sound, Before, Stays, AtField, AtRest
<1>2. ASSUME NEW f, DoneWith(p, f) PROVE DoneWith(p, f)'
  BY <1>2, HasColumnStays DEF DoneWith, Grows, Stays
<1>3. FieldsDone(p)'
  BY <1>2 DEF Sound, FieldsDone, Grows, Stays
<1>4. JoinThere(p)'
  BY DEF JoinThere
<1>5. JoinsDone(p)' /\ TableDone(p)' /\ IndexDone(p)' /\ Finished(p)'
  BY DEF JoinsDone, TableDone, IndexDone, Finished, Stays, AtField, AtIndex
<1>6. QED
  BY <1>1, <1>3, <1>4, <1>5 DEF Sound

LEMMA StaysQuiet ==
  ASSUME NEW p \in Procs, Placed(p), Stays(p), Grows, Quiet(p), ~err'[p], Absent(p)',
         pc'[p] \in {"nestedField", "nestedAlter"} =>
           /\ ~nerr'[p]
           /\ \A c \in Extra[Field(p).name] : c \in todo'[p] \/ HasColumn(Field(p).name, c)'
  PROVE  Quiet(p)'
<1> USE StaysFacts
<1>1. (pc[p] \notin AtRest =>
         \A i \in 1 .. Len(Models[p]) : i < model[p] => ModelExtras(Models[p][i]))'
  BY ModelExtrasStay DEF Quiet, ExtrasDone, Stays, AtField, AtRest
<1>2. (pc[p] \in AtField => \A f \in Handled(p) : f.kind = "join" => ExtrasOf(f.name))'
  BY ExtrasStay DEF Quiet, ExtrasDone, Stays
<1>3. pc'[p] \notin AtIndex \cup {"create", "done"}
  BY DEF Stays, AtField, AtIndex
<1>4. ExtrasDone(p)'
  BY <1>1, <1>2, <1>3 DEF ExtrasDone
<1>5. QED
  BY <1>4 DEF Quiet

-----------------------------------------------------------------------------
(* Each step of p keeps what holds of p.                                   *)

LEMMA Positive ==
  ASSUME NEW n \in Nat, NEW i \in 1 .. n
  PROVE  ~(i < 1)
  OBVIOUS

\* A look does not find what is not there.
LEMMA AnswerFacts ==
  ASSUME NEW b \in BOOLEAN, NEW there \in Answers(b)
  PROVE  there \in BOOLEAN /\ (there => b)
<1>1. there \in {b, FALSE}
  <2>1. CASE dialect = "mysql"
    BY <2>1, Zenon DEF Answers
  <2>2. CASE dialect # "mysql"
    BY <2>2, Zenon DEF Answers
  <2>3. QED
    BY <2>1, <2>2
<1>2. CASE there = b
  BY <1>2
<1>3. CASE there = FALSE
  BY <1>3
<1>4. QED
  BY <1>1, <1>2, <1>3, Zenon

\* A look on which p stays quiet.
LEMMA NotesAt ==
  ASSUME EachHasOne, NEW p \in Procs, NEW a \in BOOLEAN, NEW b \in BOOLEAN, Notes(p, a # b), quiet'[p]
  PROVE  quiet[p] /\ (a <=> b)
<1>1. quiet'[p] = (quiet[p] /\ ~(a # b))
  BY DEF Notes, EachHasOne, On
<1>2. QED
  BY <1>1

LEMMA NotesAllAt ==
  ASSUME EachHasOne, NEW p \in Procs, NEW wrong \in BOOLEAN, NotesAll(p, wrong), quiet'[p]
  PROVE  quiet[p] /\ ~wrong
<1>1. quiet'[p] = (quiet[p] /\ ~wrong)
  BY DEF NotesAll
<1>2. QED
  BY <1>1

LEMMA StartFine ==
  ASSUME EachHasOne, NEW p \in Procs, Fine(p), Start(p)
  PROVE  Fine(p)'
<1>1. /\ pc'[p] = "table" /\ model'[p] = 1 /\ making'[p] = making[p] /\ ~err'[p] /\ err'[p] \in BOOLEAN
      /\ quiet'[p]
  BY DEF Start, To, EachHasOne, On, Fine, Placed, AtRest
<1>2. Placed(p)'
  BY <1>1, ModelNumbers DEF Placed, Places, AtRest, AtField, AtJoin, Fine
<1>3. \A i \in 1 .. Len(Models[p]) : ~(i < model'[p])
  BY <1>1, ModelNumbers, Positive
<1>4. Sound(p)'
  BY <1>1, <1>3 DEF Sound, Before, FieldsDone, JoinThere, JoinsDone, TableDone, IndexDone, Finished,
                    AtField, AtJoin, AtIndex
<1>5. Quiet(p)'
  BY <1>1, <1>3 DEF Quiet, Absent, ExtrasDone, AtField, AtIndex
<1>6. QED
  BY <1>2, <1>4, <1>5 DEF Fine

LEMMA StopFine ==
  ASSUME EachHasOne, NEW p \in Procs, Fine(p), Stop(p)
  PROVE  Fine(p)'
<1>1. pc'[p] = "off" /\ model'[p] = 1 /\ making'[p] = FALSE /\ err'[p] = FALSE /\ nerr'[p] = FALSE
  BY DEF Stop, Forgets, To, EachHasOne, On
<1>2. Placed(p)'
  BY <1>1, ModelNumbers DEF Placed, Places, AtRest, AtField, AtJoin
<1>3. Sound(p)'
  BY <1>1 DEF Sound, Before, FieldsDone, JoinThere, JoinsDone, TableDone, IndexDone, Finished,
              AtField, AtJoin, AtIndex, AtRest
<1>4. Quiet(p)'
  BY <1>1 DEF Quiet, Absent, ExtrasDone, AtField, AtIndex, AtRest
<1>5. QED
  BY <1>2, <1>3, <1>4 DEF Fine

LEMMA LookTableFine ==
  ASSUME EachHasOne, NEW p \in Procs, Fine(p), LookTable(p), Grows
  PROVE  Fine(p)'
<1> USE DEF Fine
<1>1. PICK there \in Answers(Table(p) \in tables) :
        /\ making' = [making EXCEPT ![p] = ~there]
        /\ left' = [left EXCEPT ![p] = Model(p).fields]
        /\ To(p, IF Model(p).fields # <<>> THEN "field" ELSE IF there THEN "index" ELSE "create")
        /\ Notes(p, there # (Table(p) \in tables))
  BY DEF LookTable
<1> DEFINE b == Table(p) \in tables
<1>2. there \in BOOLEAN /\ (there => b)
  <2>1. b \in BOOLEAN /\ there \in Answers(b)
    BY <1>1
  <2> HIDE DEF b
  <2>2. QED
    BY <2>1, AnswerFacts
<1>3. /\ model'[p] = model[p] /\ err'[p] = err[p] /\ making'[p] = ~there
      /\ left'[p] = Model(p).fields /\ todo'[p] = Model(p).indexes
      /\ quiet'[p] => quiet[p] /\ (there <=> Table(p) \in tables)
  <2>1. model'[p] = model[p] /\ err'[p] = err[p] /\ todo'[p] = Model(p).indexes
    BY DEF LookTable, EachHasOne, On
  <2>2. making'[p] = ~there /\ left'[p] = Model(p).fields
    BY <1>1 DEF EachHasOne, On
  <2>3. quiet'[p] => quiet[p] /\ (there <=> Table(p) \in tables)
    <3>1. b \in BOOLEAN /\ Notes(p, there # b)
      BY <1>1
    <3> HIDE DEF b
    <3>2. quiet'[p] => quiet[p] /\ (there <=> b)
      BY <1>2, <3>1, NotesAt
    <3>3. QED
      BY <3>2 DEF b
  <2>4. QED
    BY <2>1, <2>2, <2>3
<1>4. /\ Model(p).fields # <<>> => pc'[p] = "field"
      /\ Model(p).fields = <<>> /\ there => pc'[p] = "index"
      /\ Model(p).fields = <<>> /\ ~there => pc'[p] = "create"
  BY <1>1 DEF EachHasOne, On, To
<1>5. Model(p)' = Model(p) /\ Table(p)' = Table(p)
  BY <1>3 DEF Model, Table
<1>6. pc[p] = "table" /\ tables' = tables
  BY DEF LookTable, schema
<1>7. pc'[p] \in {"field", "index", "create"}
  BY <1>4
<1>8. Placed(p)'
  BY <1>2, <1>3, <1>4, <1>5, <1>7, ModelFacts DEF Placed, Places, AtRest, AtField, AtJoin, AtIndex
<1>9. pc'[p] = "field" => Handled(p)' = {}
  BY <1>3, <1>5 DEF Handled, Waiting, FieldsOf
<1>10. pc'[p] # "field" => FieldsOf(Model(p)) = {}
  BY <1>4 DEF FieldsOf
<1>11. pc'[p] # "field" => JoinsOf(Model(p)) = {} /\ ColumnsOf(Model(p)) = {}
  BY <1>10 DEF JoinsOf, ColumnsOf
<1>12. ASSUME ~err'[p] PROVE Sound(p)'
  <2>1. Sound(p)
    BY <1>3, <1>12
  <2>2. Before(p)'
    BY <1>3, <1>6, <2>1, CompleteStays DEF Sound, Before, AtRest
  <2>3. FieldsDone(p)'
    BY <1>2, <1>3, <1>5, <1>6, <1>7, <1>9 DEF FieldsDone, AtField
  <2>4. JoinThere(p)' /\ JoinsDone(p)' /\ Finished(p)'
    BY <1>3, <1>5, <1>7, <1>11 DEF JoinThere, JoinsDone, Finished, AtJoin
  <2>5. TableDone(p)' /\ IndexDone(p)'
    BY <1>2, <1>3, <1>4, <1>5, <1>6, <1>7, <1>11 DEF TableDone, IndexDone, AtIndex
  <2>6. QED
    BY <2>2, <2>3, <2>4, <2>5 DEF Sound
<1>13. ASSUME quiet'[p] PROVE Quiet(p)'
  <2>1. Quiet(p) /\ (there <=> Table(p) \in tables)
    BY <1>3, <1>13
  <2>2. Absent(p)'
    BY <1>3, <1>5, <1>6, <1>7, <2>1 DEF Absent
  <2>3. (pc[p] \notin AtRest =>
           \A i \in 1 .. Len(Models[p]) : i < model[p] => ModelExtras(Models[p][i]))'
    BY <1>3, <1>6, <2>1, ModelExtrasStay DEF Quiet, ExtrasDone, AtRest
  <2>4. ExtrasDone(p)'
    BY <1>5, <1>7, <1>9, <1>11, <2>3 DEF ExtrasDone, ModelExtras, AtIndex, AtField
  <2>5. QED
    BY <1>3, <1>7, <2>1, <2>2, <2>4 DEF Quiet
<1>14. QED
  BY <1>8, <1>12, <1>13

LEMMA CollectColumnFine ==
  ASSUME EachHasOne, NEW p \in Procs, Fine(p), CollectColumn(p), Grows
  PROVE  Fine(p)'
<1> USE DEF Fine
<1>1. /\ pc[p] = "field" /\ making[p] /\ AfterField(p, Tail(left[p])) /\ Field(p).kind = "column"
      /\ model' = model /\ making' = making /\ err' = err /\ tables' = tables /\ quiet' = quiet
  BY DEF CollectColumn, schema
<1>2. pc[p] \in AtField
  BY <1>1 DEF AtField
<1>3. Placed(p)'
  BY <1>1, <1>2, FieldPlaced DEF Placed
<1>4. PICK g : g = Field(p)
  OBVIOUS
<1>5. DoneWith(p, g)'
  BY <1>1, <1>4 DEF DoneWith
<1>6. ASSUME ~err'[p] PROVE Sound(p)'
  <2>1. Sound(p)
    BY <1>1, <1>6
  <2>2. QED
    BY <1>1, <1>2, <1>4, <1>5, <2>1, FieldSound
<1>7. ASSUME quiet'[p] PROVE Quiet(p)'
  <2>1. Quiet(p)
    BY <1>1, <1>7
  <2>2. Table(p) \notin tables' /\ ~err'[p]
    BY <1>1, <2>1 DEF Quiet, Absent, AtField
  <2>3. g.kind # "join"
    BY <1>1, <1>4
  <2>4. QED
    BY <1>1, <1>2, <1>4, <2>1, <2>2, <2>3, FieldQuiet
<1>8. QED
  BY <1>3, <1>6, <1>7

LEMMA LookColumnFine ==
  ASSUME EachHasOne, NEW p \in Procs, Fine(p), LookColumn(p), Grows
  PROVE  Fine(p)'
<1> USE DEF Fine
<1> DEFINE has == HasColumn(Table(p), Field(p).name)
<1>1. PICK there \in Answers(has) :
        /\ IF there THEN AfterField(p, Tail(left[p])) ELSE To(p, "alter") /\ UNCHANGED <<left, todo>>
        /\ Notes(p, there # has)
  BY DEF LookColumn
<1>2. /\ pc[p] = "field" /\ ~making[p] /\ Field(p).kind = "column"
      /\ model' = model /\ making' = making /\ err' = err
      /\ tables' = tables /\ columns' = columns /\ indexes' = indexes /\ dialect' = dialect
  BY DEF LookColumn, schema
<1>3. has \in BOOLEAN
  BY DEF HasColumn
<1>4. PICK g : g = Field(p)
  OBVIOUS
<1>6. has => DoneWith(p, g)'
  <2>1. Table(p)' = Table(p)
    BY <1>2 DEF Table, Model
  <2>2. has => HasColumn(Table(p), g.name)'
    BY <1>2, <1>4, <2>1 DEF HasColumn
  <2>3. QED
    BY <1>2, <1>4, <2>1, <2>2 DEF DoneWith
<1>7. ~has => <<Table(p), Field(p).name>> \notin columns
  BY DEF HasColumn
<1>8. pc[p] \in AtField
  BY <1>2 DEF AtField
<1> HIDE DEF has
<1>9. /\ there \in BOOLEAN /\ (there => has)
      /\ quiet'[p] => quiet[p] /\ (there <=> has)
  BY <1>1, <1>3, AnswerFacts, NotesAt
<1>10. CASE there
  <2>1. AfterField(p, Tail(left[p]))
    BY <1>1, <1>10
  <2>2. Placed(p)'
    BY <1>2, <1>8, <2>1, FieldPlaced DEF Placed
  <2>3. DoneWith(p, g)'
    BY <1>6, <1>9, <1>10
  <2>4. ~err'[p] => Sound(p)'
    BY <1>2, <1>4, <1>8, <2>1, <2>3, FieldSound
  <2>5. ASSUME quiet'[p] PROVE Quiet(p)'
    <3>1. Quiet(p)
      BY <1>9, <2>5
    <3>2. ~err'[p] /\ g.kind # "join"
      BY <1>2, <1>4, <3>1 DEF Quiet
    <3>3. QED
      BY <1>2, <1>4, <1>8, <2>1, <3>1, <3>2, FieldQuiet
  <2>6. QED
    BY <2>2, <2>4, <2>5
<1>11. CASE ~there
  <2>1. To(p, "alter") /\ left' = left
    BY <1>1, <1>11
  <2>2. pc'[p] = "alter"
    BY <2>1 DEF To, EachHasOne, On
  <2>3. Stays(p)
    BY <1>2, <1>8, <2>1, <2>2 DEF Stays, AtField
  <2>4. Placed(p)'
    BY <1>2, <2>2, <2>3, StaysPlaced DEF Placed, AtJoin
  <2>5. ~err'[p] => Sound(p)'
    BY <1>2, <2>2, <2>3, StaysSound DEF AtJoin
  <2>6. ASSUME quiet'[p] PROVE Quiet(p)'
    <3>1. Quiet(p) /\ ~has
      BY <1>9, <1>11, <2>6
    <3>2. Absent(p)'
      BY <1>2, <1>7, <2>2, <2>3, <3>1, StaysFacts DEF Absent
    <3>3. ~err'[p]
      BY <1>2, <3>1 DEF Quiet
    <3>4. QED
      BY <2>2, <2>3, <3>1, <3>2, <3>3, StaysQuiet
  <2>7. QED
    BY <2>4, <2>5, <2>6
<1>12. QED
  BY <1>9, <1>10, <1>11

LEMMA AddColumnFine ==
  ASSUME EachHasOne, NEW p \in Procs, Fine(p), AddColumn(p), Grows
  PROVE  Fine(p)'
<1> USE DEF Fine
<1> DEFINE new == <<Table(p), Field(p).name>>
<1>1. /\ pc[p] = "alter" /\ AfterField(p, Tail(left[p])) /\ model' = model /\ making' = making
      /\ tables' = tables /\ dialect' = dialect
  BY DEF AddColumn
<1>2. \/ err[p] /\ err' = err
      \/ ~err[p] /\ columns' = columns \cup {new} /\ err' = err /\ NotesAll(p, FALSE)
      \/ ~err[p] /\ err'[p] = TRUE /\ NotesAll(p, new \notin columns)
  BY DEF AddColumn, Exec, EachHasOne, On
<1>3. pc[p] \in AtField /\ err'[p] \in BOOLEAN
  BY <1>1, <1>2 DEF AtField, Placed
<1>4. Placed(p)'
  BY <1>1, <1>3, FieldPlaced
<1>5. PICK g : g = Field(p)
  OBVIOUS
<1>6. g.kind = "column"
  BY <1>1, <1>5 DEF Placed
<1>7. ASSUME ~err'[p] PROVE ~err[p] /\ Sound(p) /\ DoneWith(p, g)'
  <2>1. ~err[p] /\ columns' = columns \cup {new}
    BY <1>2, <1>7
  <2>2. Table(p)' = Table(p)
    BY <1>1 DEF Table, Model
  <2>3. HasColumn(Table(p), g.name)'
    BY <1>5, <2>1, <2>2 DEF HasColumn
  <2>4. QED
    BY <1>6, <2>1, <2>3 DEF DoneWith
<1>8. ~err'[p] => Sound(p)'
  BY <1>1, <1>3, <1>5, <1>7, FieldSound
<1>9. ASSUME quiet'[p] PROVE Quiet(p)'
  <2>1. quiet[p]
    BY <1>9 DEF AddColumn, Exec, NotesAll
  <2>2. Quiet(p) /\ ~err[p] /\ new \notin columns
    BY <1>1, <2>1 DEF Quiet, Absent
  <2>3. ~NotesAll(p, new \notin columns)
    BY <1>9, <2>2, NotesAllAt
  <2>4. ~err'[p]
    BY <1>2, <2>2, <2>3
  <2>5. making[p] => Table(p) \notin tables'
    BY <1>1, <1>3, <2>2 DEF Quiet, Absent
  <2>6. g.kind # "join"
    BY <1>6
  <2>7. QED
    BY <1>1, <1>3, <1>5, <2>2, <2>4, <2>5, <2>6, FieldQuiet
<1>10. QED
  BY <1>4, <1>8, <1>9

LEMMA LookJoinFine ==
  ASSUME EachHasOne, NEW p \in Procs, Fine(p), LookJoin(p), Grows
  PROVE  Fine(p)'
<1> USE DEF Fine
<1> DEFINE has == Field(p).name \in tables
<1>1. PICK there \in Answers(has) :
        /\ To(p, IF there THEN "nested" ELSE "makeJoin")
        /\ Notes(p, there # has)
  BY DEF LookJoin
<1>2. /\ pc[p] = "field" /\ Field(p).kind = "join"
      /\ model' = model /\ making' = making /\ err' = err /\ left' = left
      /\ tables' = tables /\ columns' = columns
  BY DEF LookJoin, schema
<1>3. /\ there => pc'[p] = "nested"
      /\ ~there => pc'[p] = "makeJoin"
  BY <1>1 DEF To, EachHasOne, On
<1>4. has \in BOOLEAN
  OBVIOUS
<1>5. has <=> Field(p).name \in tables
  OBVIOUS
<1> HIDE DEF has
<1>6. /\ there \in BOOLEAN /\ (there => has)
      /\ quiet'[p] => quiet[p] /\ (there <=> has)
  BY <1>1, <1>4, AnswerFacts, NotesAt
<1>7. pc'[p] \in {"nested", "makeJoin"}
  BY <1>3
<1>8. Stays(p)
  BY <1>2, <1>7 DEF Stays, AtField
<1>9. Placed(p)'
  BY <1>2, <1>7, <1>8, StaysPlaced DEF Placed
<1>10. ~err'[p] => Sound(p)'
  <2>1. pc'[p] \in AtJoin => Field(p).name \in tables'
    BY <1>2, <1>3, <1>5, <1>6 DEF AtJoin
  <2>2. QED
    BY <1>2, <1>8, <2>1, StaysSound
<1>11. ASSUME quiet'[p] PROVE Quiet(p)'
  <2>1. Quiet(p) /\ (there <=> has)
    BY <1>6, <1>11
  <2>2. Absent(p)'
    BY <1>2, <1>3, <1>5, <1>7, <1>8, <2>1, StaysFacts DEF Absent, Quiet, AtField
  <2>3. ~err'[p]
    BY <1>2, <2>1 DEF Quiet
  <2>4. QED
    BY <1>7, <1>8, <2>1, <2>2, <2>3, StaysQuiet
<1>12. QED
  BY <1>9, <1>10, <1>11

LEMMA MakeJoinFine ==
  ASSUME EachHasOne, NEW p \in Procs, Fine(p), MakeJoin(p), Grows
  PROVE  Fine(p)'
<1> USE DEF Fine
<1> DEFINE t == Field(p).name
<1>1. /\ pc[p] = "makeJoin" /\ To(p, "nested")
      /\ model' = model /\ making' = making /\ left' = left /\ columns' = columns
  BY DEF MakeJoin
<1>2. \/ err[p] /\ err' = err /\ tables' = tables
      \/ ~err[p] /\ tables' = tables \cup {t} /\ err' = err /\ NotesAll(p, FALSE)
      \/ ~err[p] /\ err'[p] = TRUE /\ tables' = tables /\ NotesAll(p, t \notin tables)
  BY DEF MakeJoin, Exec, EachHasOne, On
<1>3. pc'[p] = "nested" /\ err'[p] \in BOOLEAN
  BY <1>1, <1>2 DEF To, EachHasOne, On, Placed
<1>4. Stays(p)
  BY <1>1, <1>3 DEF Stays, AtField
<1>5. Field(p).kind = "join"
  BY <1>1 DEF Placed
<1>6. Placed(p)'
  BY <1>3, <1>4, <1>5, StaysPlaced
<1>7. ~err'[p] => Sound(p)'
  <2>1. ~err'[p] => ~err[p] /\ t \in tables'
    BY <1>2
  <2>2. QED
    BY <1>4, <2>1, StaysSound
<1>8. ASSUME quiet'[p] PROVE Quiet(p)'
  <2>1. quiet[p]
    BY <1>8 DEF MakeJoin, Exec, NotesAll
  <2>2. Quiet(p) /\ ~err[p] /\ t \notin tables
    BY <1>1, <2>1 DEF Quiet, Absent
  <2>3. ~NotesAll(p, t \notin tables)
    BY <1>8, <2>2, NotesAllAt
  <2>4. ~err'[p] /\ tables' = tables \cup {t}
    BY <1>2, <2>2, <2>3
  <2>5. t # Table(p)
    <3>1. Field(p) \in FieldsOf(Model(p))
      BY <1>1, HeadTailProperties DEF Placed, AtField, Field
    <3>2. t \in JoinsOf(Model(p))
      BY <1>5, <3>1 DEF JoinsOf
    <3>3. QED
      BY <3>2, ModelFacts
  <2>6. Absent(p)'
    BY <1>3, <1>4, <2>2, <2>4, <2>5, StaysFacts DEF Absent, Quiet, Stays
  <2>7. QED
    BY <1>3, <1>4, <2>2, <2>4, <2>6, StaysQuiet
<1>9. QED
  BY <1>6, <1>7, <1>8

\* Through with a field of a join table, or with a field of a handler among others.
LEMMA JoinFine ==
  ASSUME EachHasOne, NEW p \in Procs, Placed(p), pc[p] \in AtJoin, model' = model,
         making' = making, Grows, err'[p] \in BOOLEAN, ~err'[p] => ~err[p] /\ Sound(p),
         AfterField(p, Tail(left[p]))
  PROVE  Placed(p)' /\ (~err'[p] => Sound(p)')
<1>1. pc[p] \in AtField
  BY DEF AtJoin, AtField
<1>2. Placed(p)'
  BY <1>1, FieldPlaced
<1>3. PICK g : g = Field(p)
  OBVIOUS
<1>4. ASSUME ~err'[p] PROVE Sound(p)'
  <2>1. g.kind = "join" /\ g.name \in tables'
    BY <1>3, <1>4 DEF Placed, Sound, JoinThere, Grows
  <2>2. DoneWith(p, g)'
    BY <2>1 DEF DoneWith
  <2>3. QED
    BY <1>1, <1>3, <1>4, <2>2, FieldSound
<1>5. QED
  BY <1>2, <1>4

LEMMA JoinStaysFine ==
  ASSUME EachHasOne, NEW p \in Procs, Placed(p), pc[p] \in AtJoin, model' = model,
         making' = making, left' = left, Grows, err'[p] \in BOOLEAN,
         ~err'[p] => ~err[p] /\ Sound(p), pc'[p] \in AtJoin
  PROVE  Stays(p) /\ Placed(p)' /\ (~err'[p] => Sound(p)')
<1>1. Stays(p)
  BY DEF Stays, AtJoin, AtField
<1>2. Placed(p)'
  BY <1>1, StaysPlaced DEF Placed, AtJoin
<1>3. ASSUME ~err'[p] PROVE Sound(p)'
  <2>1. Field(p).name \in tables'
    BY <1>3 DEF Sound, JoinThere, Grows
  <2>2. QED
    BY <1>1, <1>3, <2>1, StaysSound
<1>4. QED
  BY <1>1, <1>2, <1>3

LEMMA NestedLookFine ==
  ASSUME EachHasOne, NEW p \in Procs, Fine(p), NestedLook(p), Grows
  PROVE  Fine(p)'
<1> USE DEF Fine
<1> DEFINE t == Field(p).name
           has == t \in tables
<1>1. PICK there \in Answers(has) :
        /\ IF there /\ Extra[t] # {}
             THEN To(p, "nestedField") /\ todo' = [todo EXCEPT ![p] = Extra[t]] /\ left' = left
             ELSE AfterField(p, Tail(left[p]))
        /\ Notes(p, there # has)
  BY DEF NestedLook
<1>2. /\ pc[p] = "nested" /\ model' = model /\ making' = making /\ err' = err
      /\ tables' = tables /\ columns' = columns /\ nerr'[p] = err[p]
  BY DEF NestedLook, schema, EachHasOne, On
<1>3. has \in BOOLEAN
  OBVIOUS
<1>4. pc[p] \in AtJoin /\ pc[p] \in AtField /\ err'[p] \in BOOLEAN /\ (~err'[p] => ~err[p] /\ Sound(p))
  BY <1>2 DEF AtJoin, AtField, Placed
<1>5. ~err[p] => has
  BY <1>4 DEF Sound, JoinThere
<1> HIDE DEF has
<1>6. /\ there \in BOOLEAN /\ (there => has)
      /\ quiet'[p] => quiet[p] /\ (there <=> has)
  BY <1>1, <1>3, AnswerFacts, NotesAt
<1>7. CASE there /\ Extra[t] # {}
  <2>1. To(p, "nestedField") /\ todo' = [todo EXCEPT ![p] = Extra[t]] /\ left' = left
    BY <1>1, <1>7
  <2>2. pc'[p] = "nestedField" /\ todo'[p] = Extra[t]
    BY <2>1 DEF To, EachHasOne, On
  <2>3. Stays(p) /\ Placed(p)' /\ (~err'[p] => Sound(p)')
    BY <1>2, <1>4, <2>1, <2>2, JoinStaysFine DEF AtJoin
  <2>4. ASSUME quiet'[p] PROVE Quiet(p)'
    <3>1. Quiet(p) /\ ~err[p]
      BY <1>6, <2>4 DEF Quiet
    <3>2. Absent(p)'
      BY <1>2, <1>4, <2>2, <2>3, <3>1, StaysFacts DEF Absent, Quiet, Stays
    <3>3. QED
      BY <1>2, <2>2, <2>3, <3>1, <3>2, StaysQuiet
  <2>5. QED
    BY <2>3, <2>4
<1>8. CASE ~(there /\ Extra[t] # {})
  <2>1. AfterField(p, Tail(left[p]))
    BY <1>1, <1>8
  <2>2. Placed(p)' /\ (~err'[p] => Sound(p)')
    BY <1>2, <1>4, <2>1, JoinFine
  <2>3. ASSUME quiet'[p] PROVE Quiet(p)'
    <3>1. Quiet(p) /\ ~err[p] /\ there
      BY <1>5, <1>6, <2>3 DEF Quiet
    <3>2. Extra[t] = {}
      BY <1>8, <3>1
    <3>3. PICK g : g = Field(p)
      OBVIOUS
    <3>4. ExtrasOf(g.name)'
      BY <3>2, <3>3 DEF ExtrasOf
    <3>5. making[p] => Table(p) \notin tables'
      BY <1>2, <1>4, <3>1 DEF Quiet, Absent
    <3>6. QED
      BY <1>2, <1>4, <2>1, <3>1, <3>3, <3>4, <3>5, FieldQuiet
  <2>4. QED
    BY <2>2, <2>3
<1>9. QED
  BY <1>7, <1>8

\* Through with column c of the handler: all columns not in rest are there.
LEMMA AfterNestedQuiet ==
  ASSUME EachHasOne, NEW p \in Procs, Placed(p), pc[p] \in {"nestedField", "nestedAlter"},
         model' = model, making' = making, tables' = tables, Grows,
         NEW rest, AfterNested(p, rest), Quiet(p), ~err'[p], nerr'[p] = nerr[p],
         NEW g, g = Field(p), \A c \in Extra[g.name] : c \in rest \/ HasColumn(g.name, c)'
  PROVE  Quiet(p)'
<1>1. pc[p] \in AtJoin /\ pc[p] \in AtField
  BY DEF AtJoin, AtField
<1>2. ~nerr'[p]
  BY DEF Quiet
<1>3. CASE rest # {}
  <2>1. To(p, "nestedField") /\ todo' = [todo EXCEPT ![p] = rest] /\ left' = left
    BY <1>3 DEF AfterNested
  <2>2. pc'[p] = "nestedField" /\ todo'[p] = rest
    BY <2>1 DEF To, EachHasOne, On
  <2>3. Stays(p)
    BY <1>1, <2>1, <2>2 DEF Stays, AtField
  <2>4. Field(p)' = g
    BY <2>3, StaysFacts
  <2>5. Absent(p)'
    BY <1>1, <2>2, <2>3, StaysFacts DEF Absent, Quiet, Stays
  <2>6. \A c \in Extra[g.name] : c \in todo'[p] \/ HasColumn(g.name, c)'
    BY <2>2
  <2>7. \A c \in Extra[Field(p).name] : c \in todo'[p] \/ HasColumn(Field(p).name, c)'
    BY <2>4, <2>6
  <2>8. QED
    BY <1>2, <2>2, <2>3, <2>5, <2>7, StaysQuiet
<1>4. CASE rest = {}
  <2>1. AfterField(p, Tail(left[p]))
    BY <1>4 DEF AfterNested
  <2>2. ExtrasOf(g.name)'
    BY <1>4 DEF ExtrasOf
  <2>3. making[p] => Table(p) \notin tables'
    BY <1>1 DEF Quiet, Absent
  <2>4. QED
    BY <1>1, <2>1, <2>2, <2>3, FieldQuiet
<1>5. QED
  BY <1>3, <1>4

LEMMA AfterNestedFine ==
  ASSUME EachHasOne, NEW p \in Procs, Placed(p), pc[p] \in {"nestedField", "nestedAlter"},
         model' = model, making' = making, Grows, err' = err,
         ~err[p] => Sound(p), NEW rest, AfterNested(p, rest)
  PROVE  Placed(p)' /\ (~err'[p] => Sound(p)')
<1>1. pc[p] \in AtJoin /\ err'[p] \in BOOLEAN /\ (~err'[p] => ~err[p] /\ Sound(p))
  BY DEF AtJoin, Placed
<1>2. CASE rest # {}
  <2>1. To(p, "nestedField") /\ left' = left
    BY <1>2 DEF AfterNested
  <2>2. pc'[p] \in AtJoin
    BY <2>1 DEF To, EachHasOne, On, AtJoin
  <2>3. QED
    BY <1>1, <2>1, <2>2, JoinStaysFine
<1>3. CASE rest = {}
  BY <1>1, <1>3, JoinFine DEF AfterNested
<1>4. QED
  BY <1>2, <1>3

LEMMA NestedColumnFine ==
  ASSUME EachHasOne, NEW p \in Procs, Fine(p), NestedColumn(p), Grows
  PROVE  Fine(p)'
<1> USE DEF Fine
<1>1. PICK c \in todo[p] : \E there \in Answers(HasColumn(Field(p).name, c)) :
        /\ cur' = [cur EXCEPT ![p] = c]
        /\ IF there THEN AfterNested(p, todo[p] \ {c}) ELSE To(p, "nestedAlter") /\ UNCHANGED <<left, todo>>
        /\ Notes(p, there # HasColumn(Field(p).name, c))
  BY DEF NestedColumn
<1>2. PICK g : g = Field(p)
  OBVIOUS
<1> DEFINE has == HasColumn(g.name, c)
<1>3. PICK there \in Answers(has) :
        /\ cur' = [cur EXCEPT ![p] = c]
        /\ IF there THEN AfterNested(p, todo[p] \ {c}) ELSE To(p, "nestedAlter") /\ UNCHANGED <<left, todo>>
        /\ Notes(p, there # has)
  BY <1>1, <1>2
<1>4. /\ pc[p] = "nestedField" /\ model' = model /\ making' = making /\ err' = err /\ nerr' = nerr
      /\ tables' = tables /\ columns' = columns /\ indexes' = indexes
  BY DEF NestedColumn, schema
<1>5. has \in BOOLEAN
  BY DEF HasColumn
<1>6. ~has => <<g.name, c>> \notin columns
  BY DEF HasColumn
<1>7. has => HasColumn(g.name, c)'
  BY HasColumnStays
<1> HIDE DEF has
<1>8. /\ there \in BOOLEAN /\ (there => has)
      /\ quiet'[p] => quiet[p] /\ (there <=> has)
  BY <1>3, <1>5, AnswerFacts, NotesAt
<1>9. \A d \in Extra[g.name] : Quiet(p) => d \in todo[p] \/ HasColumn(g.name, d)'
  BY <1>2, <1>4, HasColumnStays DEF Quiet, ExtrasDone
<1>10. CASE there
  <2>1. AfterNested(p, todo[p] \ {c})
    BY <1>3, <1>10
  <2>2. Placed(p)' /\ (~err'[p] => Sound(p)')
    BY <1>4, <2>1, AfterNestedFine
  <2>3. ASSUME quiet'[p] PROVE Quiet(p)'
    <3>1. Quiet(p) /\ ~err'[p]
      BY <1>4, <1>8, <2>3 DEF Quiet
    <3>2. \A d \in Extra[g.name] : d \in todo[p] \ {c} \/ HasColumn(g.name, d)'
      BY <1>7, <1>8, <1>9, <1>10, <3>1
    <3>3. QED
      BY <1>2, <1>4, <2>1, <3>1, <3>2, AfterNestedQuiet
  <2>4. QED
    BY <2>2, <2>3
<1>11. CASE ~there
  <2>1. To(p, "nestedAlter") /\ left' = left /\ todo' = todo
    BY <1>3, <1>11
  <2>2. pc'[p] = "nestedAlter" /\ cur'[p] = c
    BY <1>3, <2>1 DEF To, EachHasOne, On
  <2>3. /\ pc[p] \in AtJoin /\ pc'[p] \in AtJoin /\ err'[p] \in BOOLEAN
        /\ ~err'[p] => ~err[p] /\ Sound(p)
    BY <1>4, <2>2 DEF AtJoin, Placed
  <2>4. Stays(p) /\ Placed(p)' /\ (~err'[p] => Sound(p)')
    BY <1>4, <2>1, <2>3, JoinStaysFine
  <2>5. ASSUME quiet'[p] PROVE Quiet(p)'
    <3>1. Quiet(p) /\ ~has
      BY <1>8, <1>11, <2>5
    <3>2. ~err'[p] /\ ~nerr'[p]
      BY <1>4, <3>1 DEF Quiet
    <3>3. Field(p)' = g
      BY <1>2, <2>4, StaysFacts
    <3>4. Absent(p)'
      BY <1>4, <1>6, <2>2, <2>4, <3>1, <3>3, StaysFacts DEF Absent, Quiet, Stays
    <3>5. \A d \in Extra[Field(p).name] : d \in todo'[p] \/ HasColumn(Field(p).name, d)'
      <4>1. \A d \in Extra[g.name] : d \in todo'[p] \/ HasColumn(g.name, d)'
        BY <1>9, <2>1, <3>1
      <4>2. QED
        BY <1>2, <3>3, <4>1
    <3>6. QED
      BY <2>4, <3>1, <3>2, <3>4, <3>5, StaysQuiet
  <2>6. QED
    BY <2>4, <2>5
<1>12. QED
  BY <1>8, <1>10, <1>11

LEMMA NestedAddFine ==
  ASSUME EachHasOne, NEW p \in Procs, Fine(p), NestedAdd(p), Grows
  PROVE  Fine(p)'
<1> USE DEF Fine
<1>1. PICK g : g = Field(p)
  OBVIOUS
<1>2. PICK c : c = cur[p]
  OBVIOUS
<1>3. /\ pc[p] = "nestedAlter" /\ model' = model /\ making' = making /\ err' = err
      /\ tables' = tables /\ AfterNested(p, todo[p] \ {c})
  BY <1>2 DEF NestedAdd
<1>4. \/ nerr[p] /\ nerr' = nerr
      \/ ~nerr[p] /\ columns' = columns \cup {<<g.name, c>>} /\ nerr' = nerr
      \/ ~nerr[p] /\ nerr'[p] = TRUE /\ NotesAll(p, <<g.name, c>> \notin columns)
  BY <1>1, <1>2 DEF NestedAdd, Exec, EachHasOne, On
<1>5. Placed(p)' /\ (~err'[p] => Sound(p)')
  BY <1>3, AfterNestedFine
<1>6. ASSUME quiet'[p] PROVE Quiet(p)'
  <2>1. quiet[p]
    BY <1>6 DEF NestedAdd, Exec, NotesAll
  <2>2. Quiet(p) /\ ~nerr[p] /\ <<g.name, c>> \notin columns
    BY <1>1, <1>2, <1>3, <2>1 DEF Quiet, Absent
  <2>3. ~NotesAll(p, <<g.name, c>> \notin columns)
    BY <1>6, <2>2, NotesAllAt
  <2>4. ~err'[p] /\ nerr' = nerr /\ columns' = columns \cup {<<g.name, c>>}
    BY <1>3, <1>4, <2>2, <2>3 DEF Quiet
  <2>5. HasColumn(g.name, c)'
    BY <2>4 DEF HasColumn
  <2>6. \A d \in Extra[g.name] : d \in todo[p] \/ HasColumn(g.name, d)'
    BY <1>1, <1>3, <2>2, HasColumnStays DEF Quiet, ExtrasDone
  <2>7. \A d \in Extra[g.name] : d \in todo[p] \ {c} \/ HasColumn(g.name, d)'
    BY <2>5, <2>6
  <2>8. QED
    BY <1>1, <1>3, <2>2, <2>4, <2>7, AfterNestedQuiet
<1>7. QED
  BY <1>5, <1>6

\* The model, its table and its fields are as before, and so are the earlier models.
SameModel(p) == model'[p] = model[p] /\ pc[p] \notin AtRest /\ pc'[p] \in AtIndex

LEMMA SameModelFacts ==
  ASSUME NEW p \in Procs, SameModel(p)
  PROVE  Model(p)' = Model(p) /\ Table(p)' = Table(p)
  BY DEF SameModel, Model, Table

LEMMA IndexPlaced ==
  ASSUME NEW p \in Procs, Placed(p), SameModel(p), making'[p] = making[p], err'[p] \in BOOLEAN
  PROVE  Placed(p)'
<1>1. /\ pc'[p] \notin AtField /\ pc'[p] \notin AtRest /\ pc'[p] # "create" /\ pc'[p] \in Places
      /\ pc'[p] # "alter" /\ pc'[p] \notin AtJoin \cup {"makeJoin"}
  BY DEF SameModel, AtField, AtIndex, AtRest, AtJoin, Places
<1>2. QED
  BY <1>1 DEF Placed, SameModel

LEMMA IndexSound ==
  ASSUME NEW p \in Procs, SameModel(p), Grows, Sound(p), TableDone(p)', IndexDone(p)'
  PROVE  Sound(p)'
<1>1. Before(p)'
  BY CompleteStays DEF Sound, Before, SameModel
<1>2. FieldsDone(p)' /\ JoinThere(p)' /\ JoinsDone(p)' /\ Finished(p)'
  BY DEF FieldsDone, JoinThere, JoinsDone, Finished, SameModel, AtField, AtIndex, AtJoin
<1>3. QED
  BY <1>1, <1>2 DEF Sound

LEMMA IndexQuiet ==
  ASSUME NEW p \in Procs, SameModel(p), Grows, Quiet(p), pc[p] \in AtIndex \cup {"create"}, ~err'[p],
         pc'[p] = "makeIndex" => <<Table(p), cur'[p]>> \notin indexes'
  PROVE  Quiet(p)'
<1>1. (pc[p] \notin AtRest =>
         \A i \in 1 .. Len(Models[p]) : i < model[p] => ModelExtras(Models[p][i]))'
  BY ModelExtrasStay DEF Quiet, ExtrasDone, SameModel
<1>2. ModelExtras(Model(p))'
  BY SameModelFacts, ModelExtrasStay DEF Quiet, ExtrasDone
<1>3. pc'[p] \notin AtField \cup {"create", "done"}
  BY DEF SameModel, AtIndex, AtField
<1>4. ExtrasDone(p)'
  BY <1>1, <1>2, <1>3 DEF ExtrasDone, AtField
<1>5. Absent(p)'
  BY <1>3, SameModelFacts DEF Absent, AtField
<1>6. QED
  BY <1>3, <1>4, <1>5 DEF Quiet, AtField

LEMMA CreateTableFine ==
  ASSUME EachHasOne, NEW p \in Procs, Fine(p), CreateTable(p), Grows
  PROVE  Fine(p)'
<1> USE DEF Fine
<1>1. PICK t : t = Table(p)
  OBVIOUS
<1>2. /\ pc[p] = "create" /\ To(p, "index") /\ model' = model /\ making' = making /\ todo' = todo
  BY DEF CreateTable
<1>3. \/ err[p] /\ err' = err
      \/ /\ ~err[p] /\ err' = err
         /\ tables' = tables \cup {t}
         /\ columns' = columns \cup ({t} \X ColumnsOf(Model(p)))
      \/ ~err[p] /\ err'[p] = TRUE /\ NotesAll(p, t \notin tables)
  BY <1>1 DEF CreateTable, Exec, EachHasOne, On
<1>4. pc'[p] = "index" /\ err'[p] \in BOOLEAN
  BY <1>2, <1>3 DEF To, EachHasOne, On, Placed
<1>5. SameModel(p)
  BY <1>2, <1>4 DEF SameModel, AtIndex, AtRest
<1>6. Placed(p)'
  BY <1>2, <1>4, <1>5, IndexPlaced
<1>7. ASSUME ~err'[p] PROVE Sound(p)'
  <2>1. /\ Sound(p) /\ tables' = tables \cup {t}
        /\ columns' = columns \cup ({t} \X ColumnsOf(Model(p)))
    BY <1>3, <1>7
  <2>2. \A c \in ColumnsOf(Model(p)) : HasColumn(t, c)'
    BY <2>1 DEF HasColumn
  <2>3. JoinsOf(Model(p)) \subseteq tables /\ todo[p] = Model(p).indexes
    BY <1>2, <2>1 DEF Sound, JoinsDone
  <2>4. TableDone(p)'
    BY <1>1, <1>5, <2>1, <2>2, <2>3, SameModelFacts DEF TableDone
  <2>5. IndexDone(p)'
    BY <1>2, <1>5, <2>3, SameModelFacts DEF IndexDone
  <2>6. QED
    BY <1>5, <2>1, <2>4, <2>5, IndexSound
<1>8. ASSUME quiet'[p] PROVE Quiet(p)'
  <2>1. quiet[p]
    BY <1>8 DEF CreateTable, Exec, NotesAll
  <2>2. Quiet(p) /\ ~err[p]
    BY <2>1 DEF Quiet
  <2>3. t \notin tables
    BY <1>1, <1>2, <1>6, <2>2 DEF Quiet, Absent, Placed
  <2>4. ~NotesAll(p, t \notin tables)
    BY <1>8, <2>3, NotesAllAt
  <2>5. ~err'[p]
    BY <1>3, <2>2, <2>4
  <2>6. QED
    BY <1>2, <1>4, <1>5, <2>2, <2>5, IndexQuiet
<1>9. QED
  BY <1>6, <1>7, <1>8

LEMMA LookIndexFine ==
  ASSUME EachHasOne, NEW p \in Procs, Fine(p), LookIndex(p), Grows
  PROVE  Fine(p)'
<1> USE DEF Fine
<1>1. PICK i \in todo[p] : \E there \in Answers(<<Table(p), i>> \in indexes) :
         /\ cur' = [cur EXCEPT ![p] = i]
         /\ todo' = [todo EXCEPT ![p] = @ \ {i}]
         /\ To(p, IF there THEN "index" ELSE "makeIndex")
         /\ Notes(p, there # (<<Table(p), i>> \in indexes))
  BY DEF LookIndex
<1> DEFINE has == <<Table(p), i>> \in indexes
<1>2. PICK there \in Answers(has) :
         /\ cur' = [cur EXCEPT ![p] = i]
         /\ todo' = [todo EXCEPT ![p] = @ \ {i}]
         /\ To(p, IF there THEN "index" ELSE "makeIndex")
         /\ Notes(p, there # has)
  BY <1>1
<1>3. /\ pc[p] = "index" /\ model' = model /\ making' = making /\ err' = err
      /\ tables' = tables /\ columns' = columns /\ indexes' = indexes
  BY DEF LookIndex, schema
<1>4. cur'[p] = i /\ todo'[p] = todo[p] \ {i}
  BY <1>2 DEF EachHasOne, On
<1>5. (there => pc'[p] = "index") /\ (~there => pc'[p] = "makeIndex")
  BY <1>2 DEF To, EachHasOne, On
<1>6. has \in BOOLEAN /\ (has <=> <<Table(p), i>> \in indexes)
  OBVIOUS
<1> HIDE DEF has
<1>7. /\ there \in BOOLEAN /\ (there => has)
      /\ quiet'[p] => quiet[p] /\ (there <=> has)
  BY <1>2, <1>6, AnswerFacts, NotesAt
<1>8. SameModel(p)
  BY <1>3, <1>5 DEF SameModel, AtIndex, AtRest
<1>9. Placed(p)'
  BY <1>3, <1>8, IndexPlaced DEF Placed
<1>10. ASSUME ~err'[p] PROVE Sound(p)'
  <2>1. Sound(p)
    BY <1>3, <1>10
  <2>2. TableDone(p)'
    BY <1>3, <1>8, <2>1, SameModelFacts, HasColumnStays DEF Sound, TableDone, AtIndex
  <2>3. \A j \in Model(p).indexes : j \in todo[p] \/ <<Table(p), j>> \in indexes
    BY <1>3, <2>1 DEF Sound, IndexDone, AtIndex
  <2>4. IndexDone(p)'
    BY <1>3, <1>4, <1>5, <1>6, <1>7, <1>8, <2>3, SameModelFacts DEF IndexDone
  <2>5. QED
    BY <1>8, <2>1, <2>2, <2>4, IndexSound
<1>11. ASSUME quiet'[p] PROVE Quiet(p)'
  <2>1. Quiet(p) /\ (there <=> has)
    BY <1>7, <1>11
  <2>2. ~err'[p] /\ pc[p] \in AtIndex
    BY <1>3, <2>1 DEF Quiet, AtIndex
  <2>3. pc'[p] = "makeIndex" => <<Table(p), cur'[p]>> \notin indexes'
    BY <1>3, <1>4, <1>5, <1>6, <1>7, <2>1
  <2>4. QED
    BY <1>8, <2>1, <2>2, <2>3, IndexQuiet
<1>12. QED
  BY <1>9, <1>10, <1>11

LEMMA MakeIndexFine ==
  ASSUME EachHasOne, NEW p \in Procs, NEW clash, Fine(p), MakeIndex(p, clash), Grows
  PROVE  Fine(p)'
<1> USE DEF Fine
<1>1. PICK t : t = Table(p)
  OBVIOUS
<1>2. PICK i : i = cur[p]
  OBVIOUS
<1> DEFINE can == t \in tables /\ <<t, i>> \notin indexes
<1>3. /\ pc[p] = "makeIndex" /\ To(p, "index") /\ model' = model /\ making' = making /\ todo' = todo
      /\ tables' = tables /\ columns' = columns
  BY DEF MakeIndex
<1>4. \/ err[p] /\ err' = err
      \/ ~err[p] /\ err' = err /\ indexes' = indexes \cup {<<t, i>>}
      \/ ~err[p] /\ err'[p] = TRUE /\ NotesAll(p, can)
      \/ ~err[p] /\ err'[p] = TRUE /\ Notes(p, TRUE)
  BY <1>1, <1>2 DEF MakeIndex, Exec, EachHasOne, On
<1>5. pc'[p] = "index" /\ err'[p] \in BOOLEAN
  BY <1>3, <1>4 DEF To, EachHasOne, On, Placed
<1>6. SameModel(p)
  BY <1>3, <1>5 DEF SameModel, AtIndex, AtRest
<1>7. Placed(p)'
  BY <1>3, <1>5, <1>6, IndexPlaced
<1>8. ASSUME ~err'[p] PROVE Sound(p)'
  <2>1. Sound(p) /\ indexes' = indexes \cup {<<t, i>>}
    BY <1>4, <1>8
  <2>2. TableDone(p)'
    BY <1>3, <1>6, <2>1, SameModelFacts, HasColumnStays DEF Sound, TableDone, AtIndex
  <2>3. \A j \in Model(p).indexes : j \in todo[p] \/ <<t, j>> \in indexes \/ j = i
    BY <1>1, <1>2, <1>3, <2>1 DEF Sound, IndexDone, AtIndex
  <2>4. IndexDone(p)'
    BY <1>1, <1>3, <1>6, <2>1, <2>3, SameModelFacts DEF IndexDone
  <2>5. QED
    BY <1>6, <2>1, <2>2, <2>4, IndexSound
<1>9. ASSUME quiet'[p] PROVE Quiet(p)'
  <2>1. quiet[p] /\ ~Notes(p, TRUE)
    BY <1>9 DEF MakeIndex, Exec, NotesAll, Notes, EachHasOne, On
  <2>2. Quiet(p) /\ ~err[p]
    BY <2>1 DEF Quiet
  <2>3. t \in tables
    BY <1>1, <1>3, <2>2 DEF Sound, TableDone, AtIndex
  <2>4. can
    BY <1>1, <1>2, <1>3, <2>2, <2>3 DEF Quiet, Absent
  <2> HIDE DEF can
  <2>5. ~NotesAll(p, can)
    BY <1>9, <2>4, NotesAllAt
  <2>6. ~err'[p] /\ pc[p] \in AtIndex
    BY <1>3, <1>4, <2>1, <2>2, <2>5 DEF AtIndex
  <2>7. QED
    BY <1>5, <1>6, <2>2, <2>6, IndexQuiet
<1>10. QED
  BY <1>7, <1>8, <1>9

LEMMA NextModelFine ==
  ASSUME EachHasOne, NEW p \in Procs, Fine(p), NextModel(p), Grows
  PROVE  Fine(p)'
<1> USE DEF Fine
<1>1. pc[p] = "index" /\ todo[p] = {} /\ err' = err /\ quiet' = quiet /\ indexes' = indexes
  BY DEF NextModel, schema
<1> DEFINE n == Len(Models[p])
           k == model[p]
<1>2. n \in Nat /\ k \in 1 .. n /\ ModelsOf(p) = {Models[p][i] : i \in 1 .. n} /\ 1 \in 1 .. n
  BY ModelNumbers DEF Placed
<1>3. Sound(p) => \A i \in 1 .. n : i < k => Complete(Models[p][i])
  BY <1>1 DEF Sound, Before, AtRest
<1>4. Sound(p) => Complete(Models[p][k])
  <2>1. Sound(p) => \A i \in Model(p).indexes : <<Table(p), i>> \in indexes
    BY <1>1 DEF Sound, IndexDone, AtIndex
  <2>2. QED
    BY <1>1, <2>1 DEF Sound, TableDone, AtIndex, Complete, Model, Table
<1>5. Quiet(p) => \A i \in 1 .. n : i < k => ModelExtras(Models[p][i])
  BY <1>1 DEF Quiet, ExtrasDone, AtRest
<1>6. Quiet(p) => ModelExtras(Models[p][k])
  BY <1>1 DEF Quiet, ExtrasDone, AtIndex, Model
<1>7. CASE k < n
  <2>1. To(p, "table") /\ model' = [model EXCEPT ![p] = k + 1] /\ making' = making
    BY <1>7 DEF NextModel
  <2>2. pc'[p] = "table" /\ model'[p] = k + 1
    BY <2>1 DEF To, EachHasOne, On
  <2> HIDE DEF n, k
  <2>3. model'[p] \in 1 .. n
    BY <1>2, <1>7, <2>2, BeforeOrLast
  <2>4. \A i \in 1 .. n : i < model'[p] => i < k \/ i = k
    BY <1>2, <2>2, BeforeOrLast
  <2>5. Placed(p)'
    BY <1>1, <2>1, <2>2, <2>3 DEF Placed, Places, AtRest, AtField, AtJoin, n
  <2>6. ASSUME ~err'[p] PROVE Sound(p)'
    <3>1. \A i \in 1 .. n : i < model'[p] => Complete(Models[p][i])'
      BY <1>1, <1>3, <1>4, <2>4, <2>6, CompleteStays
    <3>2. QED
      BY <2>2, <3>1 DEF Sound, Before, FieldsDone, JoinThere, JoinsDone, TableDone, IndexDone,
                       Finished, AtField, AtJoin, AtIndex, n
  <2>7. ASSUME quiet'[p] PROVE Quiet(p)'
    <3>1. \A i \in 1 .. n : i < model'[p] => ModelExtras(Models[p][i])'
      BY <1>1, <1>5, <1>6, <2>4, <2>7, ModelExtrasStay
    <3>2. ~err'[p]
      BY <1>1, <2>7 DEF Quiet
    <3>3. QED
      BY <2>2, <3>1, <3>2 DEF Quiet, Absent, ExtrasDone, AtField, AtIndex, n
  <2>8. QED
    BY <2>5, <2>6, <2>7
<1>8. CASE ~(k < n)
  <2>1. Forgets(p, "done")
    BY <1>8 DEF NextModel
  <2>2. pc'[p] = "done" /\ model'[p] = 1 /\ making'[p] = FALSE /\ nerr'[p] = FALSE
    BY <2>1 DEF Forgets, To, EachHasOne, On
  <2>3. Placed(p)'
    BY <1>1, <1>2, <2>2 DEF Placed, Places, AtRest, AtField, AtJoin
  <2> HIDE DEF n, k
  <2>4. \A i \in 1 .. n : i < k \/ i = k
    BY <1>2, <1>8, BeforeOrLast
  <2>5. ASSUME ~err'[p] PROVE Sound(p)'
    <3>1. \A m \in ModelsOf(p) : Complete(m)'
      BY <1>1, <1>2, <1>3, <1>4, <2>4, <2>5, CompleteStays
    <3>2. Has(p)'
      BY <3>1 DEF Has
    <3>3. QED
      BY <2>2, <3>2 DEF Sound, Before, FieldsDone, JoinThere, JoinsDone, TableDone, IndexDone,
                       Finished, AtField, AtJoin, AtIndex, AtRest
  <2>6. ASSUME quiet'[p] PROVE Quiet(p)'
    <3>1. \A m \in ModelsOf(p) : ModelExtras(m)'
      BY <1>1, <1>2, <1>5, <1>6, <2>4, <2>6, ModelExtrasStay
    <3>2. HasExtras(p)'
      BY <3>1 DEF HasExtras, ModelExtras, ExtrasOf
    <3>3. ~err'[p]
      BY <1>1, <2>6 DEF Quiet
    <3>4. QED
      BY <2>2, <3>2, <3>3 DEF Quiet, Absent, ExtrasDone, AtField, AtIndex, AtRest
  <2>7. QED
    BY <2>3, <2>5, <2>6
<1>9. QED
  BY <1>7, <1>8

-----------------------------------------------------------------------------
(* All steps together.                                                     *)

LEMMA MigrationStepFine ==
  ASSUME MInv, NEW p \in Procs, NEW clash, MigrationStep(p, clash)
  PROVE  MInv'
<1> USE DEF MInv
<1>1. Frame(p) /\ Grows /\ Hushes(p)
  BY StepFrame, StepGrows, StepHushes
<1>2. EachHasOne'
  BY <1>1 DEF EachHasOne, Frame, Kept, Hushes
<1>3. \A q \in Procs : q # p => Fine(q)'
  BY <1>1, OthersFine
<1>4. Fine(p)'
  BY <1>1, StartFine, StopFine, LookTableFine, CollectColumnFine, LookColumnFine, AddColumnFine,
     LookJoinFine, MakeJoinFine, NestedLookFine, NestedColumnFine, NestedAddFine, CreateTableFine,
     LookIndexFine, MakeIndexFine, NextModelFine DEF MigrationStep
<1>5. QED
  BY <1>2, <1>3, <1>4

\* Calls leave the migrations alone.
LEMMA IdleFine ==
  ASSUME MInv, UNCHANGED migrationVars
  PROVE  MInv'
<1> USE DEF MInv, migrationVars, work
<1>1. Grows /\ schema' = schema
  BY DEF Grows, schema
<1>2. EachHasOne'
  BY DEF EachHasOne, On
<1>3. ASSUME NEW q \in Procs PROVE Fine(q)'
  <2>1. SameWork(q) /\ Fine(q) /\ quiet'[q] = quiet[q]
    BY DEF SameWork
  <2>2. Model(q)' = Model(q) /\ Field(q)' = Field(q)
    BY DEF Model, Field
  <2>3. Placed(q)'
    BY <2>1, <2>2 DEF Placed, Fine
  <2>4. QED
    BY <1>1, <2>1, <2>3, OthersSound, OthersQuiet DEF Fine, SameWork
<1>4. QED
  BY <1>2, <1>3

LEMMA RowStepIdle ==
  ASSUME NEW p \in Procs, RowStep(p)
  PROVE  UNCHANGED migrationVars
  BY DEF RowStep, Call, SaveUnchanged, StatementFails, Update, Look, Assign, Create, Delete

LEMMA InitFine ==
  ASSUME Init
  PROVE  MInv
<1> USE DEF Init, MigrationInit
<1>1. EachHasOne
  BY DEF EachHasOne, On
<1>2. ASSUME NEW p \in Procs PROVE Fine(p)
  <2>1. /\ pc[p] = "off" /\ model[p] = 1 /\ making[p] = FALSE /\ err[p] = FALSE /\ nerr[p] = FALSE
    OBVIOUS
  <2>2. Placed(p)
    BY <2>1, ModelNumbers DEF Placed, Places, AtRest, AtField, AtJoin
  <2>3. Sound(p)
    BY <2>1 DEF Sound, Before, FieldsDone, JoinThere, JoinsDone, TableDone, IndexDone, Finished,
           AtField, AtJoin, AtIndex, AtRest
  <2>4. Quiet(p)
    BY <2>1 DEF Quiet, Absent, ExtrasDone, AtField, AtIndex, AtRest
  <2>5. QED
    BY <2>2, <2>3, <2>4 DEF Fine
<1>3. QED
  BY <1>1, <1>2 DEF MInv

LEMMA MigratesIs ==
  ASSUME NEW p \in Procs, Migrates(p)
  PROVE  \E clash \in BOOLEAN : /\ clash <=> (cur[p] = UniqueIndex /\ Duplicates)
                                /\ MigrationStep(p, clash)
<1>1. PICK clash \in BOOLEAN : clash <=> (cur[p] = UniqueIndex /\ Duplicates)
  OBVIOUS
<1>2. MigrationStep(p, clash)
  BY <1>1 DEF Migrates, MigrationStep, MakeIndex
<1>3. QED
  BY <1>1, <1>2

LEMMA MStep == MInv /\ [Next]_vars => MInv'
<1> SUFFICES ASSUME MInv, [Next]_vars PROVE MInv'
  OBVIOUS
<1>1. CASE UNCHANGED vars
  BY <1>1, IdleFine DEF vars
<1>2. ASSUME NEW p \in Procs, Migrates(p) PROVE MInv'
  BY <1>2, MigratesIs, MigrationStepFine
<1>3. ASSUME NEW p \in Procs, RowStep(p) PROVE MInv'
  BY <1>3, RowStepIdle, IdleFine
<1>4. QED
  BY <1>1, <1>2, <1>3 DEF Next

\* MInv holds of every migration: what a program has done of the work is done, what
\* it is about to make, nobody disturbing it, is not there (scope.go autoMigrate).
THEOREM MigrationInvariance == Spec => []MInv
  BY InitFine, MStep, PTL DEF Spec

LEMMA CompleteAtEnd == MInv => MigratedIsComplete /\ RerunRepairs
<1> SUFFICES ASSUME MInv PROVE MigratedIsComplete /\ RerunRepairs
  OBVIOUS
<1>1. MigratedIsComplete
  BY DEF MInv, Fine, Sound, Finished, MigratedIsComplete
<1>2. RerunRepairs
  BY DEF MInv, Fine, Sound, Finished, Quiet, ExtrasDone, AtRest, RerunRepairs
<1>3. QED
  BY <1>1, <1>2

\* An AutoMigrate that reports no error leaves a complete schema (scope.go autoMigrate,
\* createJoinTable, createTable, autoIndex), for any programs that migrate at once.
THEOREM NoErrorIsComplete == Spec => []MigratedIsComplete
  BY MigrationInvariance, CompleteAtEnd, PTL

\* A run of AutoMigrate that no fault and no other program disturbs ends without an
\* error and with a complete schema, whatever earlier runs left (main.go AutoMigrate,
\* scope.go autoMigrate, autoIndex).
THEOREM RerunsRepair == Spec => []RerunRepairs
  BY MigrationInvariance, CompleteAtEnd, PTL

-----------------------------------------------------------------------------
(* The inductive invariant of the calls.                                   *)

CallPlaces == {"idle", "update", "look", "assign", "create", "delete", "returned"}
Labels == Names \cup {""}
Row == [id : Nat, name : Labels, val : Nat, live : BOOLEAN]
Command == [op : {"", "save", "first", "init", "delete"}, id : Nat, name : Labels,
            guarded : BOOLEAN, assign : BOOLEAN]

RTypeOK ==
  /\ rows \subseteq Row /\ nextId \in Nat /\ calls \in Nat
  /\ at \in [Procs -> CallPlaces] /\ call \in [Procs -> Command] /\ out \in [Procs -> Row]
  /\ told \in [Procs -> BOOLEAN] /\ alone \in [Procs -> BOOLEAN]
  /\ \A p \in Procs : at[p] # "idle" => pc[p] = "done"

\* What a call on its own way to a row has of it.
OnItsWay(p) ==
  /\ at[p] \notin {"idle", "delete"}
  /\ out[p].live /\ out[p].name = call[p].name
  /\ at[p] = "look" => out[p].id = 0 \/ Live(ById(rows, out[p].id)) \subseteq {out[p]}
  /\ at[p] \in {"assign", "returned"} => out[p] \in rows
Lands(p) == Writes(call[p]) /\ ~call[p].guarded /\ ~told[p] /\ alone[p] => OnItsWay(p)

\* The row of r is there, or its name is noted.
Traced(r) == r.name \in moved \/ \E s \in rows : s.id = r.id /\ s.name = r.name
Traces ==
  /\ IsUnique => ~Duplicates
  /\ \A g \in got : Traced(g) /\ (g.safe => IsUnique)
  /\ \A p \in Procs : at[p] = "assign" => Traced(out[p])

RInv == RTypeOK /\ (\A p \in Procs : Lands(p)) /\ Traces

\* There is a first row, by key.
LEMMA FirstThere ==
  ASSUME NEW S, S \subseteq Row, S # {}
  PROVE  First(S) \in S
<1> DEFINE ids == {r.id : r \in S}
<1>1. ids \subseteq Nat /\ ids # {}
  BY DEF Row
<1> HIDE DEF ids
<1>2. \E x \in ids : \A y \in ids : ~(<<y, x>> \in OpToRel(<, Nat))
  BY <1>1, WFMin, NatLessThanWellFounded, Zenon
<1>3. PICK x \in ids : \A y \in ids : ~(<<y, x>> \in OpToRel(<, Nat))
  BY <1>2
<1>4. \A y \in ids : ~(y < x)
  BY <1>1, <1>3 DEF OpToRel
<1>5. \A y \in ids : x <= y
  BY <1>1, <1>4
<1>6. PICK r \in S : r.id = x
  BY DEF ids
<1>7. \A s \in S : r.id <= s.id
  BY <1>5, <1>6 DEF ids
<1>8. QED
  BY <1>7 DEF First

LEMMA RowType ==
  ASSUME RTypeOK, NEW p \in Procs
  PROVE  /\ out[p] \in Row /\ call[p] \in Command /\ at[p] \in CallPlaces
         /\ \A i : Live(ById(rows, i)) \subseteq rows
         /\ \A n : Live(ByName(rows, n)) \subseteq rows
  BY DEF RTypeOK, Live, ById, ByName

\* What is not changed by a step of p in its call.
LEMMA OthersLand ==
  ASSUME RTypeOK, NEW p \in Procs, NEW q \in Procs, q # p, Lands(q), Alone(p),
         at'[q] = at[q], call'[q] = call[q], out'[q] = out[q], told'[q] = told[q]
  PROVE  Lands(q)'
<1>1. alone'[q] => alone[q] /\ rows' = rows
  BY DEF Alone
<1>2. QED
  BY <1>1 DEF Lands, OnItsWay, Writes, Live, ById

LEMMA OthersLandToo ==
  ASSUME RTypeOK, NEW q \in Procs, Lands(q), rows' = rows, alone'[q] = alone[q],
         at'[q] = at[q], call'[q] = call[q], out'[q] = out[q], told'[q] = told[q]
  PROVE  Lands(q)'
  BY DEF Lands, OnItsWay, Writes, Live, ById

-----------------------------------------------------------------------------
(* A call.                                                                 *)

LEMMA OpsAreCommands ==
  ASSUME NEW ops, NEW ids, NEW names, NEW guards, NEW assigns,
         ops \subseteq {"", "save", "first", "init", "delete"}, ids \subseteq Nat,
         names \subseteq Labels, guards \subseteq BOOLEAN, assigns \subseteq BOOLEAN
  PROVE  Ops(ops, ids, names, guards, assigns) \subseteq Command
  BY DEF Ops, Command

LEMMA OpsFields ==
  ASSUME NEW ops, NEW ids, NEW names, NEW guards, NEW assigns,
         NEW c \in Ops(ops, ids, names, guards, assigns)
  PROVE  c.op \in ops /\ c.id \in ids
  BY DEF Ops

LEMMA CallsAreCommands ==
  ASSUME NEW c \in Calls
  PROVE  /\ c \in Command
         /\ c.op \in {"save", "first", "init", "delete"}
         /\ c.op \in {"first", "init"} => c.id = 0
<1> DEFINE all == {"", "save", "first", "init", "delete"}
<1>1. Given \subseteq Nat /\ {0} \subseteq Nat
  BY RowAssumption
<1>2. Names \subseteq Labels /\ {""} \subseteq Labels
  BY DEF Labels
<1>3. {FALSE} \subseteq BOOLEAN /\ BOOLEAN \subseteq BOOLEAN
  OBVIOUS
<1>4. {"save"} \subseteq all /\ {"first"} \subseteq all /\ {"init"} \subseteq all /\ {"delete"} \subseteq all
  OBVIOUS
<1>5. c \in Command
  <2>1. Ops({"save"}, Given, Names, BOOLEAN, {FALSE}) \subseteq Command
    BY <1>1, <1>2, <1>3, <1>4, OpsAreCommands, Zenon
  <2>2. Ops({"save"}, {0}, Names, {FALSE}, {FALSE}) \subseteq Command
    BY <1>1, <1>2, <1>3, <1>4, OpsAreCommands, Zenon
  <2>3. Ops({"first"}, {0}, Names, {FALSE}, BOOLEAN) \subseteq Command
    BY <1>1, <1>2, <1>3, <1>4, OpsAreCommands, Zenon
  <2>4. Ops({"init"}, {0}, Names, {FALSE}, {FALSE}) \subseteq Command
    BY <1>1, <1>2, <1>3, <1>4, OpsAreCommands, Zenon
  <2>5. Ops({"delete"}, Given, {""}, {FALSE}, {FALSE}) \subseteq Command
    BY <1>1, <1>2, <1>3, <1>4, OpsAreCommands, Zenon
  <2>6. QED
    BY <2>1, <2>2, <2>3, <2>4, <2>5 DEF Calls
<1>6. \/ c.op = "save"
      \/ c.op = "first" /\ c.id = 0
      \/ c.op = "init" /\ c.id = 0
      \/ c.op = "delete"
  <2>1. CASE c \in Ops({"save"}, Given, Names, BOOLEAN, {FALSE})
    BY <2>1, OpsFields
  <2>2. CASE c \in Ops({"save"}, {0}, Names, {FALSE}, {FALSE})
    BY <2>2, OpsFields
  <2>3. CASE c \in Ops({"first"}, {0}, Names, {FALSE}, BOOLEAN)
    BY <2>3, OpsFields
  <2>4. CASE c \in Ops({"init"}, {0}, Names, {FALSE}, {FALSE})
    BY <2>4, OpsFields
  <2>5. CASE c \in Ops({"delete"}, Given, {""}, {FALSE}, {FALSE})
    BY <2>5, OpsFields
  <2>6. QED
    BY <2>1, <2>2, <2>3, <2>4, <2>5 DEF Calls
<1>7. QED
  BY <1>5, <1>6

\* Where the call goes first.
LEMMA CallGoes ==
  ASSUME RInv, NEW p \in Procs, NEW c \in Calls, Call(p, c)
  PROVE  \E w \in {"create", "update", "look", "delete"} :
           /\ at' = [at EXCEPT ![p] = w]
           /\ w = "look" => c.id = 0
           /\ w = "delete" => c.op = "delete"
<1>1. CASE c.op = "save" /\ c.id = 0
  BY <1>1 DEF Call, GoesOn
<1>2. CASE c.op = "save" /\ c.id # 0
  BY <1>2 DEF Call, GoesOn
<1>3. CASE c.op \in {"first", "init"}
  BY <1>3, CallsAreCommands DEF Call, GoesOn
<1>4. CASE c.op = "delete"
  BY <1>4 DEF Call, GoesOn
<1>5. QED
  BY <1>1, <1>2, <1>3, <1>4, CallsAreCommands

\* A call of p begins, with struct r, at w.
LEMMA Begins ==
  ASSUME RInv, NEW p \in Procs, pc[p] = "done", pc' = pc, indexes' = indexes,
         NEW r \in Row, NEW c \in Command, r.live, r.name = c.name,
         NEW w \in {"create", "update", "look", "delete"},
         w = "look" => r.id = 0, w = "delete" => c.op = "delete",
         at' = [at EXCEPT ![p] = w], out' = [out EXCEPT ![p] = r], call' = [call EXCEPT ![p] = c],
         told' = [told EXCEPT ![p] = FALSE], alone' = [alone EXCEPT ![p] = TRUE],
         calls' = calls + 1, rows' = rows, nextId' = nextId, got' = got, moved' = moved
  PROVE  RInv'
<1> USE DEF RInv
<1>1. RTypeOK'
  BY DEF RTypeOK, CallPlaces
<1>2. /\ at'[p] = w /\ out'[p] = r /\ call'[p] = c
      /\ \A q \in Procs : q # p => at'[q] = at[q] /\ out'[q] = out[q] /\ call'[q] = call[q]
                                   /\ told'[q] = told[q] /\ alone'[q] = alone[q]
  BY DEF RTypeOK
<1>3. Lands(p)'
  BY <1>2 DEF Lands, OnItsWay, Writes
<1>4. \A q \in Procs : q # p => Lands(q)'
  BY <1>2, OthersLandToo
<1>5. Traces'
  BY <1>2 DEF Traces, Traced, IsUnique, Duplicates
<1>6. QED
  BY <1>1, <1>3, <1>4, <1>5

LEMMA CallStep ==
  ASSUME RInv, NEW p \in Procs, NEW c \in Calls, Call(p, c)
  PROVE  RInv'
<1> DEFINE r == [id |-> c.id, name |-> c.name, val |-> calls + 1, live |-> TRUE]
<1>1. c.id \in Nat /\ c.name \in Labels /\ c \in Command
  BY CallsAreCommands DEF Command
<1>2. calls + 1 \in Nat
  BY DEF RInv, RTypeOK
<1>3. r \in Row /\ r.live /\ r.name = c.name /\ r.id = c.id
  BY <1>1, <1>2 DEF Row
<1>4. /\ out' = [out EXCEPT ![p] = r] /\ call' = [call EXCEPT ![p] = c]
      /\ told' = [told EXCEPT ![p] = FALSE] /\ alone' = [alone EXCEPT ![p] = TRUE]
      /\ rows' = rows /\ nextId' = nextId /\ got' = got /\ moved' = moved /\ calls' = calls + 1
      /\ pc[p] = "done" /\ pc' = pc /\ indexes' = indexes
  BY DEF Call, migrationVars, work, schema
<1>5. PICK s \in Row : s = r
  BY <1>3
<1>6. PICK w \in {"create", "update", "look", "delete"} :
           /\ at' = [at EXCEPT ![p] = w]
           /\ w = "look" => c.id = 0
           /\ w = "delete" => c.op = "delete"
  BY CallGoes
<1> HIDE DEF r
<1>7. QED
  BY <1>1, <1>3, <1>4, <1>5, <1>6, Begins

LEMMA SaveUnchangedStep ==
  ASSUME RInv, NEW p \in Procs, NEW r \in Live(rows), SaveUnchanged(p, r)
  PROVE  RInv'
<1> DEFINE c == A("save", r.id, r.name, FALSE, FALSE)
<1>1. r \in Row /\ r.live
  BY DEF RInv, RTypeOK, Live
<1>2. c \in Command /\ c.name = r.name
  BY <1>1 DEF A, Command, Row
<1>3. /\ out' = [out EXCEPT ![p] = r] /\ call' = [call EXCEPT ![p] = c]
      /\ told' = [told EXCEPT ![p] = FALSE] /\ alone' = [alone EXCEPT ![p] = TRUE]
      /\ rows' = rows /\ nextId' = nextId /\ got' = got /\ moved' = moved /\ calls' = calls + 1
      /\ at' = [at EXCEPT ![p] = "update"]
      /\ pc[p] = "done" /\ pc' = pc /\ indexes' = indexes
  BY DEF SaveUnchanged, GoesOn, migrationVars, work, schema
<1>4. PICK w \in {"create", "update", "look", "delete"} : w = "update"
  OBVIOUS
<1> HIDE DEF c
<1>5. QED
  BY <1>1, <1>2, <1>3, <1>4, Begins

-----------------------------------------------------------------------------
(* The operations of a call.                                               *)

\* Every row is still there under its key and its name, or its name is noted.
RowsFollow ==
  /\ moved \subseteq moved'
  /\ \A r \in rows : r.name \in moved' \/ \E s \in rows' : s.id = r.id /\ s.name = r.name

LEMMA TracedStays ==
  ASSUME RowsFollow, NEW r, Traced(r)
  PROVE  Traced(r)'
  BY DEF RowsFollow, Traced

\* Names are unique once a program that wants them so has migrated without an error.
LEMMA SafeIsUnique ==
  ASSUME MInv, NEW p \in Procs, pc[p] = "done", ~err[p], Wants(p)
  PROVE  IsUnique
<1>1. Has(p)
  BY DEF MInv, Fine, Sound, Finished
<1>2. PICK m \in ModelsOf(p) : m.table = RowTable /\ UniqueIndex \in m.indexes
  BY DEF Wants
<1>3. {m.table} \X m.indexes \subseteq indexes
  BY <1>1 DEF Has, Complete
<1>4. QED
  BY <1>2, <1>3 DEF IsUnique

GotTraced == \A g \in got : Traced(g) /\ (g.safe => IsUnique)

LEMMA GotStays ==
  ASSUME GotTraced, RowsFollow, indexes' = indexes, got' = got
  PROVE  GotTraced'
  BY TracedStays DEF GotTraced, IsUnique

LEMMA GetsTraced ==
  ASSUME MInv, GotTraced, RowsFollow, indexes' = indexes, NEW p \in Procs, pc[p] = "done",
         NEW r, Gets(p, r), Traced(r)'
  PROVE  GotTraced'
<1> DEFINE g == [name |-> r.name, id |-> r.id, safe |-> ~err[p] /\ Wants(p)]
<1>1. \A h \in got : Traced(h)' /\ (h.safe => IsUnique')
  BY TracedStays DEF GotTraced, IsUnique
<1>2. g.safe => IsUnique'
  <2>1. g.safe => ~err[p] /\ Wants(p)
    OBVIOUS
  <2> HIDE DEF g
  <2>2. QED
    BY <2>1, SafeIsUnique DEF IsUnique
<1>3. g.name = r.name /\ g.id = r.id
  OBVIOUS
<1>4. got' = got \/ got' = got \cup {g}
  BY DEF Gets
<1> HIDE DEF g
<1>5. PICK x : x = g
  OBVIOUS
<1>6. Traced(x)' /\ (x.safe => IsUnique')
  BY <1>2, <1>3, <1>5 DEF Traced
<1>7. QED
  BY <1>1, <1>4, <1>5, <1>6 DEF GotTraced

\* What a step of p within its call leaves alone.
Within(p) ==
  /\ at[p] # "idle" /\ pc' = pc /\ indexes' = indexes /\ call' = call /\ calls' = calls
  /\ \E w \in CallPlaces \ {"idle", "delete", "update"} : at' = [at EXCEPT ![p] = w]

LEMMA WithinFacts ==
  ASSUME RTypeOK, NEW p \in Procs, Within(p)
  PROVE  /\ pc[p] = "done" /\ IsUnique' = IsUnique
         /\ at' \in [Procs -> CallPlaces] /\ \A q \in Procs : at'[q] # "idle" => pc'[q] = "done"
         /\ \A q \in Procs : q # p => at'[q] = at[q]
         /\ at'[p] \notin {"idle", "delete", "update"}
  BY DEF RTypeOK, Within, IsUnique

LEMMA FailsStep ==
  ASSUME RInv, NEW p \in Procs, Within(p), Fails(p)
  PROVE  RInv'
<1> USE DEF RInv
<1>1. /\ told' = [told EXCEPT ![p] = TRUE] /\ at' = [at EXCEPT ![p] = "returned"]
      /\ rows' = rows /\ nextId' = nextId /\ out' = out /\ alone' = alone /\ got' = got /\ moved' = moved
      /\ call' = call /\ calls' = calls
  BY DEF Fails, Within
<1>2. RTypeOK'
  BY <1>1, WithinFacts DEF RTypeOK
<1>3. Lands(p)'
  BY <1>1 DEF Lands, RTypeOK
<1>4. \A q \in Procs : q # p => Lands(q)'
  <2>1. \A q \in Procs : q # p => at'[q] = at[q] /\ told'[q] = told[q]
    BY <1>1 DEF RTypeOK
  <2>2. QED
    BY <1>1, <2>1, OthersLandToo
<1>5. Traces'
  BY <1>1, WithinFacts DEF Traces, Traced, Duplicates, RTypeOK
<1>6. QED
  BY <1>2, <1>3, <1>4, <1>5

LEMMA StatementFailsStep ==
  ASSUME RInv, NEW p \in Procs, StatementFails(p)
  PROVE  RInv'
<1>1. Within(p)
  BY DEF StatementFails, Fails, Within, migrationVars, work, schema, CallPlaces
<1>2. QED
  BY <1>1, FailsStep DEF StatementFails

\* A step of p within its call that changes rows, or gives one.
LEMMA WithinStep ==
  ASSUME RInv, NEW p \in Procs, Within(p), Lands(p)', Alone(p), told' = told,
         rows' \subseteq Row, nextId' \in Nat,
         NEW r \in Row, out' = [out EXCEPT ![p] = r], RowsFollow,
         (IsUnique => ~Duplicates)', GotTraced', at'[p] = "assign" => Traced(r)'
  PROVE  RInv'
<1> USE DEF RInv
<1>1. RTypeOK'
  <2>1. alone' \in [Procs -> BOOLEAN]
    BY DEF Alone, RTypeOK
  <2>2. QED
    BY <2>1, WithinFacts DEF RTypeOK, Within
<1>2. \A q \in Procs : q # p => at'[q] = at[q] /\ out'[q] = out[q]
  BY WithinFacts DEF RTypeOK
<1>3. \A q \in Procs : q # p => Lands(q)'
  BY <1>2, OthersLand DEF Within
<1>4. ASSUME NEW q \in Procs, at'[q] = "assign" PROVE Traced(out[q])'
  <2>1. CASE q = p
    <3>1. out'[q] = r
      BY <2>1 DEF RTypeOK
    <3>2. QED
      BY <1>4, <2>1, <3>1 DEF Traced
  <2>2. CASE q # p
    <3>1. PICK s : s = out[q] /\ Traced(s)
      BY <1>2, <1>4, <2>2 DEF Traces
    <3>2. Traced(s)'
      BY <3>1, TracedStays
    <3>3. QED
      BY <1>2, <2>2, <3>1, <3>2
  <2>3. QED
    BY <2>1, <2>2
<1>5. Traces'
  BY <1>4 DEF Traces, GotTraced
<1>6. QED
  BY <1>1, <1>3, <1>5

LEMMA UpdateStep ==
  ASSUME MInv, RInv, NEW p \in Procs, Update(p)
  PROVE  RInv'
<1> DEFINE u == out[p]
           m0 == {s \in Live(ById(rows, u.id)) : call[p].guarded => s.val = 0}
<1>1. PICK r : r = u
  OBVIOUS
<1>2. PICK m : m = m0
  OBVIOUS
<1>3. at[p] = "update" /\ pc' = pc /\ indexes' = indexes /\ call' = call /\ calls' = calls
  BY DEF Update, migrationVars, work, schema
<1>4. \/ Fails(p)
      \/ /\ m # {} => ~Clashes(r, rows \ m)
         /\ rows' = IF m = {} THEN rows ELSE (rows \ m) \cup {r}
         /\ moved' = moved \cup {s.name : s \in {t \in m : t.name # r.name}}
         /\ GoesOn(p, IF Affected(r, m) = 0 THEN "look" ELSE "returned")
         /\ Alone(p)
         /\ nextId' = nextId /\ out' = out /\ told' = told /\ got' = got
  BY <1>1, <1>2 DEF Update
<1>5. r \in Row /\ m \subseteq rows /\ rows \subseteq Row /\ \A s \in m : s.id = r.id
  BY <1>1, <1>2 DEF RInv, RTypeOK, Live, ById
<1>6. ~call[p].guarded => m = Live(ById(rows, r.id))
  BY <1>1, <1>2 DEF Live, ById
<1> HIDE DEF m0
<1>7. CASE Fails(p)
  <2>1. Within(p)
    BY <1>3, <1>7 DEF Within, Fails, CallPlaces
  <2>2. QED
    BY <1>7, <2>1, FailsStep
<1>8. CASE /\ m # {} => ~Clashes(r, rows \ m)
           /\ rows' = IF m = {} THEN rows ELSE (rows \ m) \cup {r}
           /\ moved' = moved \cup {s.name : s \in {t \in m : t.name # r.name}}
           /\ GoesOn(p, IF Affected(r, m) = 0 THEN "look" ELSE "returned")
           /\ Alone(p)
           /\ nextId' = nextId /\ out' = out /\ told' = told /\ got' = got
  <2>1. PICK w \in {"look", "returned"} :
          at' = [at EXCEPT ![p] = w] /\ (w = "returned" => Affected(r, m) # 0)
    BY <1>8 DEF GoesOn
  <2>2. Within(p)
    BY <1>3, <2>1 DEF Within, CallPlaces
  <2>3. at'[p] = w /\ out'[p] = r /\ out' = [out EXCEPT ![p] = r]
    BY <1>1, <1>8, <2>1 DEF RInv, RTypeOK
  <2>4. w = "returned" => m # {}
    <3>1. Affected(r, {}) = 0
      BY FS_EmptySet DEF Affected
    <3>2. QED
      BY <2>1, <3>1
  <2>5. Lands(p)'
    <3>1. SUFFICES ASSUME (Writes(call[p]) /\ ~call[p].guarded /\ ~told[p] /\ alone[p])'
                   PROVE  OnItsWay(p)'
      BY DEF Lands
    <3>2. alone[p] /\ OnItsWay(p) /\ m = Live(ById(rows, r.id))
      BY <1>3, <1>6, <1>8, <3>1 DEF Alone, RInv, Lands, Writes
    <3>3. CASE m = {}
      BY <1>1, <1>3, <1>8, <2>3, <2>4, <3>2, <3>3 DEF OnItsWay
    <3>4. CASE m # {}
      <4>1. rows' = (rows \ m) \cup {r}
        BY <1>8, <3>4
      <4>2. Live(ById(rows', r.id)) \subseteq {r}
        BY <3>2, <4>1 DEF Live, ById
      <4>3. QED
        BY <1>1, <1>3, <2>3, <3>2, <4>1, <4>2 DEF OnItsWay
    <3>5. QED
      BY <3>3, <3>4
  <2>6. rows' \subseteq Row
    BY <1>5, <1>8
  <2>7. RowsFollow
    <3>1. ASSUME NEW x \in rows
          PROVE  x.name \in moved' \/ \E s \in rows' : s.id = x.id /\ s.name = x.name
      <4>1. CASE x \in rows'
        BY <4>1
      <4>2. CASE x \notin rows'
        <5>1. x \in m /\ r \in rows'
          BY <1>8, <4>2
        <5>2. x.id = r.id
          BY <1>5, <5>1
        <5>3. CASE x.name = r.name
          BY <5>1, <5>2, <5>3
        <5>4. CASE x.name # r.name
          BY <1>8, <5>1, <5>4
        <5>5. QED
          BY <5>3, <5>4
      <4>3. QED
        BY <4>1, <4>2
    <3>2. QED
      BY <1>8, <3>1 DEF RowsFollow
  <2>8. (IsUnique => ~Duplicates)'
    <3>1. SUFFICES ASSUME IsUnique PROVE ~Duplicates'
      BY <2>2, WithinFacts DEF RInv
    <3>2. ~Duplicates
      BY <3>1 DEF RInv, Traces
    <3>3. m # {} => ByName(rows \ m, r.name) = {}
      BY <1>8, <3>1 DEF Clashes
    <3>4. QED
      BY <1>8, <3>2, <3>3 DEF Duplicates, ByName
  <2>9. GotTraced'
    BY <1>3, <1>8, <2>7, GotStays DEF RInv, Traces, GotTraced
  <2>10. nextId' \in Nat /\ at'[p] # "assign"
    BY <1>8, <2>3 DEF RInv, RTypeOK
  <2>11. QED
    BY <1>5, <1>8, <2>2, <2>3, <2>5, <2>6, <2>7, <2>8, <2>9, <2>10, WithinStep
<1>9. QED
  BY <1>4, <1>7, <1>8

LEMMA LookStep ==
  ASSUME MInv, RInv, NEW p \in Procs, Look(p)
  PROVE  RInv'
<1> DEFINE found0 == Live(IF out[p].id # 0 THEN ById(rows, out[p].id) ELSE ByName(rows, out[p].name))
<1>1. PICK found : found = found0
  OBVIOUS
<1>2. /\ at[p] = "look" /\ pc' = pc /\ indexes' = indexes /\ call' = call /\ calls' = calls
      /\ rows' = rows /\ nextId' = nextId /\ told' = told /\ alone' = alone /\ moved' = moved
  BY DEF Look, migrationVars, work, schema
<1>3. \/ /\ found # {}
         /\ out' = [out EXCEPT ![p] = First(found)]
         /\ GoesOn(p, IF call[p].assign THEN "assign" ELSE "returned")
         /\ got' = got \/ Gets(p, First(found))
      \/ /\ found = {}
         /\ GoesOn(p, IF call[p].op = "init" THEN "returned" ELSE "create")
         /\ out' = out /\ got' = got
  BY <1>1 DEF Look
<1>4. /\ found \subseteq rows /\ found \subseteq Row
      /\ \A s \in found : s.live
      /\ out[p].id # 0 => found = Live(ById(rows, out[p].id))
      /\ out[p].id = 0 => \A s \in found : s.name = out[p].name
  BY <1>1 DEF RInv, RTypeOK, Live, ById, ByName
<1> HIDE DEF found0
<1>5. /\ Alone(p) /\ RowsFollow /\ rows' \subseteq Row /\ nextId' \in Nat
      /\ (IsUnique => ~Duplicates)'
  BY <1>2 DEF Alone, RowsFollow, RInv, RTypeOK, Traces, IsUnique, Duplicates
<1>6. PICK w \in {"assign", "returned", "create"} :
        /\ at' = [at EXCEPT ![p] = w]
        /\ w = "create" => found = {}
        /\ w = "returned" /\ found = {} => ~Writes(call[p])
        /\ w = "assign" => found # {}
  BY <1>3 DEF GoesOn, Writes
<1>7. Within(p) /\ at'[p] = w
  BY <1>2, <1>6 DEF Within, CallPlaces, RInv, RTypeOK
<1>8. GotTraced
  BY DEF RInv, Traces, GotTraced
<1>9. pc[p] = "done"
  BY <1>7, WithinFacts DEF RInv
<1>10. CASE found # {}
  <2>1. PICK r \in found : r = First(found)
    BY <1>4, <1>10, FirstThere
  <2>2. r \in Row /\ r \in rows /\ r.live /\ out' = [out EXCEPT ![p] = r] /\ out'[p] = r
    BY <1>3, <1>4, <1>10, <2>1 DEF RInv, RTypeOK
  <2>3. Traced(r)'
    BY <1>2, <2>2 DEF Traced
  <2>4. GotTraced'
    <3>1. got' = got \/ Gets(p, r)
      BY <1>3, <1>10, <2>1
    <3>2. QED
      BY <1>2, <1>5, <1>8, <1>9, <2>3, <3>1, GotStays, GetsTraced
  <2>5. Lands(p)'
    <3>1. SUFFICES ASSUME (Writes(call[p]) /\ ~call[p].guarded /\ ~told[p] /\ alone[p])'
                   PROVE  OnItsWay(p)'
      BY DEF Lands
    <3>2. OnItsWay(p)
      BY <1>2, <3>1 DEF RInv, Lands, Writes
    <3>3. r.name = out[p].name
      BY <1>2, <1>4, <2>1, <3>2 DEF OnItsWay
    <3>4. at'[p] \in {"assign", "returned"}
      BY <1>6, <1>7, <1>10
    <3>5. QED
      BY <1>2, <2>2, <3>2, <3>3, <3>4 DEF OnItsWay
  <2>6. QED
    BY <1>2, <1>5, <1>7, <2>2, <2>3, <2>4, <2>5, WithinStep
<1>11. CASE found = {}
  <2>1. PICK r : r = out[p]
    OBVIOUS
  <2>2. r \in Row /\ out' = [out EXCEPT ![p] = r] /\ out'[p] = r
    BY <1>3, <1>11, <2>1 DEF RInv, RTypeOK
  <2>3. GotTraced'
    BY <1>2, <1>3, <1>5, <1>8, <1>11, GotStays
  <2>4. at'[p] # "assign"
    BY <1>6, <1>7, <1>11
  <2>5. Lands(p)'
    <3>1. SUFFICES ASSUME (Writes(call[p]) /\ ~call[p].guarded /\ ~told[p] /\ alone[p])'
                   PROVE  OnItsWay(p)'
      BY DEF Lands
    <3>2. OnItsWay(p) /\ Writes(call[p])
      BY <1>2, <3>1 DEF RInv, Lands, Writes
    <3>3. at'[p] = "create"
      BY <1>6, <1>7, <1>11, <3>2
    <3>4. QED
      BY <1>2, <2>1, <2>2, <3>2, <3>3 DEF OnItsWay
  <2>6. QED
    BY <1>2, <1>5, <1>7, <2>2, <2>3, <2>4, <2>5, WithinStep
<1>12. QED
  BY <1>10, <1>11

LEMMA AssignStep ==
  ASSUME MInv, RInv, NEW p \in Procs, Assign(p)
  PROVE  RInv'
<1> DEFINE r0 == [out[p] EXCEPT !.val = calls]
           m0 == Live(ById(rows, r0.id))
<1>1. PICK r : r = r0
  OBVIOUS
<1>2. PICK m : m = m0
  OBVIOUS
<1>3. /\ at[p] = "assign" /\ pc' = pc /\ indexes' = indexes /\ call' = call /\ calls' = calls
      /\ nextId' = nextId /\ told' = told /\ moved' = moved /\ Alone(p)
      /\ at' = [at EXCEPT ![p] = "returned"]
  BY DEF Assign, GoesOn, migrationVars, work, schema
<1>4. /\ rows' = (rows \ m) \cup {[s EXCEPT !.val = r.val] : s \in m}
      /\ out' = [out EXCEPT ![p] = r]
      /\ Gets(p, r)
  BY <1>1, <1>2 DEF Assign
<1>5. out[p] \in Row /\ calls \in Nat /\ rows \subseteq Row
  BY DEF RInv, RTypeOK
<1>6. /\ r \in Row /\ r.id = out[p].id /\ r.name = out[p].name /\ r.live = out[p].live
      /\ r.val = calls /\ r = [out[p] EXCEPT !.val = r.val]
  BY <1>1, <1>5 DEF Row
<1>7. m \subseteq rows /\ m = Live(ById(rows, out[p].id))
  BY <1>1, <1>2, <1>6 DEF Live, ById
<1> HIDE DEF r0, m0
<1>8. Within(p) /\ at'[p] = "returned" /\ out'[p] = r
  BY <1>3, <1>4 DEF Within, CallPlaces, RInv, RTypeOK
<1>9. \A s \in m : /\ [s EXCEPT !.val = r.val] \in Row
                   /\ [s EXCEPT !.val = r.val].id = s.id /\ [s EXCEPT !.val = r.val].name = s.name
  BY <1>5, <1>6, <1>7 DEF Row
<1>10. rows' \subseteq Row
  BY <1>4, <1>5, <1>9
<1>11. RowsFollow
  <2>1. ASSUME NEW x \in rows PROVE \E s \in rows' : s.id = x.id /\ s.name = x.name
    <3>1. CASE x \in m
      BY <1>4, <1>9, <3>1
    <3>2. CASE x \notin m
      BY <1>4, <3>2
    <3>3. QED
      BY <3>1, <3>2
  <2>2. QED
    BY <1>3, <2>1 DEF RowsFollow
<1>12. \A x \in rows' : \E s \in rows : /\ s.name = x.name
                                        /\ (x = s /\ s \notin m) \/ (x = [s EXCEPT !.val = r.val] /\ s \in m)
  BY <1>4, <1>7, <1>9
<1>13. (IsUnique => ~Duplicates)'
  <2>1. SUFFICES ASSUME IsUnique, NEW x \in rows', NEW y \in rows', x.name = y.name PROVE x = y
    BY <1>8, WithinFacts DEF RInv, Duplicates
  <2>2. PICK s \in rows : /\ s.name = x.name
                          /\ (x = s /\ s \notin m) \/ (x = [s EXCEPT !.val = r.val] /\ s \in m)
    BY <1>12
  <2>3. PICK t \in rows : /\ t.name = y.name
                          /\ (y = t /\ t \notin m) \/ (y = [t EXCEPT !.val = r.val] /\ t \in m)
    BY <1>12
  <2>4. s = t
    BY <2>1, <2>2, <2>3 DEF RInv, Traces, Duplicates
  <2>5. QED
    BY <2>2, <2>3, <2>4
<1>14. Traced(r)'
  <2>1. Traced(r)
    BY <1>3, <1>6 DEF RInv, Traces, Traced
  <2>2. QED
    BY <1>11, <2>1, TracedStays
<1>15. GotTraced'
  <2>1. pc[p] = "done" /\ GotTraced
    BY <1>8, WithinFacts DEF RInv, Traces, GotTraced
  <2>2. QED
    BY <1>3, <1>4, <1>11, <1>14, <2>1, GetsTraced
<1>16. Lands(p)'
  <2>1. SUFFICES ASSUME (Writes(call[p]) /\ ~call[p].guarded /\ ~told[p] /\ alone[p])'
                 PROVE  OnItsWay(p)'
    BY DEF Lands
  <2>2. alone[p] /\ OnItsWay(p)
    BY <1>3, <2>1 DEF Alone, RInv, Lands, Writes
  <2>3. out[p] \in m
    BY <1>3, <1>7, <2>2 DEF OnItsWay, Live, ById
  <2>4. r \in rows'
    BY <1>4, <1>6, <2>3
  <2>5. QED
    BY <1>3, <1>6, <1>8, <2>2, <2>4 DEF OnItsWay
<1>17. nextId' \in Nat /\ at'[p] # "assign"
  BY <1>3, <1>8 DEF RInv, RTypeOK
<1>18. QED
  BY <1>3, <1>4, <1>6, <1>8, <1>10, <1>11, <1>13, <1>15, <1>16, <1>17, WithinStep

LEMMA CreateStep ==
  ASSUME MInv, RInv, NEW p \in Procs, Create(p)
  PROVE  RInv'
<1> DEFINE r0 == [out[p] EXCEPT !.id = IF @ = 0 THEN nextId ELSE @]
<1>1. PICK r : r = r0
  OBVIOUS
<1>2. at[p] = "create" /\ pc' = pc /\ indexes' = indexes /\ call' = call /\ calls' = calls
  BY DEF Create, migrationVars, work, schema
<1>3. \/ Fails(p)
      \/ /\ ~Clashes(r, rows)
         /\ rows' = rows \cup {r}
         /\ nextId' = IF out[p].id = 0 THEN nextId + 1 ELSE nextId
         /\ out' = [out EXCEPT ![p] = r]
         /\ Gets(p, r)
         /\ at' = [at EXCEPT ![p] = "returned"]
         /\ Alone(p) /\ told' = told /\ moved' = moved
  BY <1>1 DEF Create, GoesOn
<1>4. out[p] \in Row /\ nextId \in Nat /\ rows \subseteq Row
  BY DEF RInv, RTypeOK
<1>5. r \in Row /\ r.name = out[p].name /\ r.live = out[p].live
  BY <1>1, <1>4 DEF Row
<1> HIDE DEF r0
<1>6. CASE Fails(p)
  <2>1. Within(p)
    BY <1>2, <1>6 DEF Within, Fails, CallPlaces
  <2>2. QED
    BY <1>6, <2>1, FailsStep
<1>7. CASE /\ ~Clashes(r, rows)
           /\ rows' = rows \cup {r}
           /\ nextId' = IF out[p].id = 0 THEN nextId + 1 ELSE nextId
           /\ out' = [out EXCEPT ![p] = r]
           /\ Gets(p, r)
           /\ at' = [at EXCEPT ![p] = "returned"]
           /\ Alone(p) /\ told' = told /\ moved' = moved
  <2>1. Within(p) /\ at'[p] = "returned" /\ out'[p] = r
    BY <1>2, <1>7 DEF Within, CallPlaces, RInv, RTypeOK
  <2>2. rows' \subseteq Row /\ nextId' \in Nat
    BY <1>4, <1>5, <1>7
  <2>3. RowsFollow
    BY <1>7 DEF RowsFollow
  <2>4. (IsUnique => ~Duplicates)'
    <3>1. SUFFICES ASSUME IsUnique PROVE ~Duplicates'
      BY <2>1, WithinFacts DEF RInv
    <3>2. ~Duplicates /\ ByName(rows, r.name) = {}
      BY <1>7, <3>1 DEF RInv, Traces, Clashes
    <3>3. QED
      BY <1>7, <3>2 DEF Duplicates, ByName
  <2>5. Traced(r)'
    BY <1>7 DEF Traced
  <2>6. GotTraced'
    <3>1. pc[p] = "done" /\ GotTraced
      BY <2>1, WithinFacts DEF RInv, Traces, GotTraced
    <3>2. QED
      BY <1>2, <1>7, <2>3, <2>5, <3>1, GetsTraced
  <2>7. Lands(p)'
    <3>1. SUFFICES ASSUME (Writes(call[p]) /\ ~call[p].guarded /\ ~told[p] /\ alone[p])'
                   PROVE  OnItsWay(p)'
      BY DEF Lands
    <3>2. alone[p] /\ OnItsWay(p)
      BY <1>2, <1>7, <3>1 DEF Alone, RInv, Lands, Writes
    <3>3. out'[p] \in rows' /\ out'[p].live /\ out'[p].name = call'[p].name
      <4>1. r \in rows'
        BY <1>7
      <4>2. QED
        BY <1>2, <1>5, <2>1, <3>2, <4>1 DEF OnItsWay
    <3>4. QED
      BY <2>1, <3>3 DEF OnItsWay
  <2>8. at'[p] # "assign"
    BY <2>1
  <2>9. QED
    BY <1>5, <1>7, <2>1, <2>2, <2>3, <2>4, <2>6, <2>7, <2>8, WithinStep
<1>8. QED
  BY <1>3, <1>6, <1>7

LEMMA DeleteStep ==
  ASSUME MInv, RInv, NEW p \in Procs, Delete(p)
  PROVE  RInv'
<1>1. PICK m : m = Live(ById(rows, call[p].id))
  OBVIOUS
<1>2. PICK r : r = out[p]
  OBVIOUS
<1>3. /\ at[p] = "delete" /\ pc' = pc /\ indexes' = indexes /\ call' = call /\ calls' = calls
      /\ nextId' = nextId /\ told' = told /\ out' = out /\ got' = got /\ Alone(p)
      /\ at' = [at EXCEPT ![p] = "returned"]
  BY DEF Delete, GoesOn, migrationVars, work, schema
<1>4. /\ rows' = (rows \ m) \cup (IF soft THEN {[s EXCEPT !.live = FALSE] : s \in m} ELSE {})
      /\ moved' = moved \cup {s.name : s \in m}
  BY <1>1 DEF Delete
<1>5. m \subseteq rows /\ rows \subseteq Row /\ r \in Row
  BY <1>1, <1>2 DEF Live, ById, RInv, RTypeOK
<1>6. Within(p) /\ at'[p] = "returned" /\ out' = [out EXCEPT ![p] = r]
  BY <1>2, <1>3 DEF Within, CallPlaces, RInv, RTypeOK
<1>7. \A s \in m : [s EXCEPT !.live = FALSE] \in Row /\ [s EXCEPT !.live = FALSE].name = s.name
  BY <1>5 DEF Row
<1>8. rows' \subseteq Row
  BY <1>4, <1>5, <1>7
<1>9. RowsFollow
  BY <1>4 DEF RowsFollow
<1>10. \A x \in rows' : \E s \in rows : /\ s.name = x.name
                                        /\ (x = s /\ s \notin m) \/ (x = [s EXCEPT !.live = FALSE] /\ s \in m)
  BY <1>4, <1>5, <1>7
<1>11. (IsUnique => ~Duplicates)'
  <2>1. SUFFICES ASSUME IsUnique, NEW x \in rows', NEW y \in rows', x.name = y.name PROVE x = y
    BY <1>6, WithinFacts DEF RInv, Duplicates
  <2>2. PICK s \in rows : /\ s.name = x.name
                          /\ (x = s /\ s \notin m) \/ (x = [s EXCEPT !.live = FALSE] /\ s \in m)
    BY <1>10
  <2>3. PICK t \in rows : /\ t.name = y.name
                          /\ (y = t /\ t \notin m) \/ (y = [t EXCEPT !.live = FALSE] /\ t \in m)
    BY <1>10
  <2>4. s = t
    BY <2>1, <2>2, <2>3 DEF RInv, Traces, Duplicates
  <2>5. QED
    BY <2>2, <2>3, <2>4
<1>12. GotTraced'
  BY <1>3, <1>9, GotStays DEF RInv, Traces, GotTraced
<1>13. Lands(p)'
  BY <1>3 DEF RInv, Lands, OnItsWay, Writes, Alone
<1>14. nextId' \in Nat /\ at'[p] # "assign"
  BY <1>3, <1>6 DEF RInv, RTypeOK
<1>15. QED
  BY <1>3, <1>5, <1>6, <1>8, <1>9, <1>11, <1>12, <1>13, <1>14, WithinStep

-----------------------------------------------------------------------------
(* All steps together.                                                     *)

\* No index makes names unique that are not.
LEMMA IndexIsTrue ==
  ASSUME NEW p \in Procs, NEW clash, clash <=> (cur[p] = UniqueIndex /\ Duplicates),
         MigrationStep(p, clash), IsUnique', ~IsUnique
  PROVE  ~Duplicates
<1>1. indexes' # indexes
  BY DEF IsUnique
<1>2. MakeIndex(p, clash)
  BY <1>1 DEF MigrationStep, schema, Start, Stop, LookTable, CollectColumn, LookColumn, AddColumn,
              LookJoin, MakeJoin, NestedLook, NestedColumn, NestedAdd, CreateTable, LookIndex, NextModel
<1>3. indexes' = indexes \cup {<<Table(p), cur[p]>>} /\ ~clash
  BY <1>1, <1>2 DEF MakeIndex, Exec
<1>4. cur[p] = UniqueIndex
  BY <1>3 DEF IsUnique
<1>5. QED
  BY <1>3, <1>4

LEMMA MigratesStep ==
  ASSUME MInv, RInv, NEW p \in Procs, Migrates(p)
  PROVE  RInv'
<1> USE DEF RInv
<1>1. PICK clash \in BOOLEAN : /\ clash <=> (cur[p] = UniqueIndex /\ Duplicates)
                               /\ MigrationStep(p, clash)
  BY MigratesIs
<1>2. /\ at[p] = "idle" /\ rows' = rows /\ nextId' = nextId /\ at' = at /\ call' = call /\ out' = out
      /\ told' = told /\ calls' = calls /\ alone' = alone /\ got' = got /\ moved' = moved
  BY DEF Migrates, rowVars
<1>3. Frame(p) /\ Grows
  BY <1>1, StepFrame, StepGrows DEF MInv
<1>4. RTypeOK'
  <2>1. \A q \in Procs : q # p => pc'[q] = pc[q]
    BY <1>3 DEF Frame, Kept
  <2>2. QED
    BY <1>2, <2>1 DEF RTypeOK
<1>5. \A q \in Procs : Lands(q)'
  BY <1>2, OthersLandToo
<1>6. (IsUnique => ~Duplicates)'
  <2>1. Duplicates' = Duplicates
    BY <1>2 DEF Duplicates
  <2>2. IsUnique' => ~Duplicates
    BY <1>1, IndexIsTrue DEF Traces
  <2>3. QED
    BY <2>1, <2>2
<1>7. IsUnique => IsUnique'
  BY <1>3 DEF Grows, IsUnique
<1>8. Traces'
  BY <1>2, <1>6, <1>7 DEF Traces, Traced
<1>9. QED
  BY <1>4, <1>5, <1>8

LEMMA RowIdleStep ==
  ASSUME RInv, UNCHANGED vars
  PROVE  RInv'
<1> USE DEF RInv, vars, rowVars, migrationVars, work, schema
<1>1. RTypeOK'
  BY DEF RTypeOK
<1>2. \A q \in Procs : Lands(q)'
  BY OthersLandToo
<1>3. Traces'
  BY DEF Traces, Traced, IsUnique, Duplicates
<1>4. QED
  BY <1>1, <1>2, <1>3

LEMMA RInit ==
  ASSUME Init
  PROVE  RInv
<1>1. rows \subseteq Row
  <2>1. PICK n \in Nat : Given = 1 .. n /\ n = Cardinality(Given)
    BY RowAssumption
  <2>2. Given \subseteq Nat
    BY <2>1
  <2>3. rows \in OldRows
    BY DEF Init
  <2>4. rows \subseteq [id : Given, name : Names, val : Nat, live : BOOLEAN]
    BY <2>3, RowAssumption
  <2>5. QED
    BY <2>2, <2>4 DEF Row, Labels
<1>2. nextId \in Nat /\ calls \in Nat
  <2>1. PICK n \in Nat : n = Cardinality(Given)
    BY RowAssumption
  <2>2. nextId = Cardinality(Given) + 1 /\ calls = 0
    BY DEF Init
  <2>3. nextId = n + 1
    BY <2>1, <2>2
  <2>4. QED
    BY <2>2, <2>3
<1>3. A("", 0, "", FALSE, FALSE) \in Command
  BY DEF A, Command, Labels
<1>4. [id |-> 0, name |-> "", val |-> 0, live |-> TRUE] \in Row
  BY DEF Row, Labels
<1>5. RTypeOK
  BY <1>1, <1>2, <1>3, <1>4 DEF RTypeOK, Init, CallPlaces
<1>6. \A p \in Procs : Lands(p)
  BY DEF Init, Lands, Writes, A
<1>7. Traces
  BY DEF Init, MigrationInit, Traces, IsUnique
<1>8. QED
  BY <1>5, <1>6, <1>7 DEF RInv

LEMMA RStep == MInv /\ RInv /\ [Next]_vars => RInv'
<1> SUFFICES ASSUME MInv, RInv, [Next]_vars PROVE RInv'
  OBVIOUS
<1>1. CASE UNCHANGED vars
  BY <1>1, RowIdleStep
<1>2. ASSUME NEW p \in Procs, Migrates(p) PROVE RInv'
  BY <1>2, MigratesStep
<1>3. ASSUME NEW p \in Procs, RowStep(p) PROVE RInv'
  BY <1>3, CallStep, SaveUnchangedStep, StatementFailsStep, UpdateStep, LookStep, AssignStep,
     CreateStep, DeleteStep DEF RowStep
<1>4. QED
  BY <1>1, <1>2, <1>3 DEF Next

\* RInv holds of every run: names are unique once the index is there, a call on its
\* way finds its row, and a row that was given is there or its name is noted (main.go
\* Save, FirstOrCreate).
THEOREM CallInvariance == Spec => [](MInv /\ RInv)
<1>1. Init => MInv /\ RInv
  BY InitFine, RInit
<1>2. MInv /\ RInv /\ [Next]_vars => (MInv /\ RInv)'
  BY MStep, RStep
<1>3. QED
  BY <1>1, <1>2, PTL DEF Spec

LEMMA LandedAndAgreed == RInv => CallLands /\ AgreeOnRow
<1> SUFFICES ASSUME RInv PROVE CallLands /\ AgreeOnRow
  OBVIOUS
<1> USE DEF RInv
<1>1. CallLands
  BY DEF CallLands, Lands, OnItsWay, Returned, Live
<1>2. ASSUME NEW g \in got, NEW h \in got, g.safe, h.safe, g.name = h.name, g.name \notin moved
      PROVE  g.id = h.id
  <2>1. ~Duplicates
    BY <1>2 DEF Traces
  <2>2. PICK s \in rows : s.id = g.id /\ s.name = g.name
    BY <1>2 DEF Traces, Traced
  <2>3. PICK t \in rows : t.id = h.id /\ t.name = h.name
    BY <1>2 DEF Traces, Traced
  <2>4. QED
    BY <1>2, <2>1, <2>2, <2>3 DEF Duplicates
<1>3. AgreeOnRow
  BY <1>2 DEF AgreeOnRow
<1>4. QED
  BY <1>1, <1>3

\* A Save or FirstOrCreate on a handle without conditions, with no other writer in
\* between, that reports no error has its row in the table as the struct has it
\* (main.go Save, FirstOrCreate).
THEOREM CallsLand == Spec => []CallLands
  BY CallInvariance, LandedAndAgreed, PTL

\* Programs that migrated without an error get one row for one name (scope.go autoIndex,
\* main.go FirstOrCreate), however many they are and in whatever order they look and create.
THEOREM ProgramsAgree == Spec => []AgreeOnRow
  BY CallInvariance, LandedAndAgreed, PTL
=============================================================================
