------------------------- MODULE SliceLoops_proofs -------------------------
(***************************************************************************)
(* Proofs about Batch, for any calls, slices, rows and limits: nothing of  *)
(* a call is committed before all is, a transaction of its own is over     *)
(* when the call is, the error of the call says what became of it, every   *)
(* element is written and the keys the structs are given are those of      *)
(* their rows.  About PreloadQuery, for any rows and any queries of a      *)
(* handle: what a preload puts into a field belongs there, nothing that    *)
(* was there all the time is missing, and nothing comes twice.  And about  *)
(* CallbackRegistry, for any requests: the package's callbacks keep their  *)
(* order, and those of one user get the places they ask for.               *)
(*                                                                         *)
(* All are loops over a slice, so the facts on loops come first, among     *)
(* them that of induction over the steps of a statement, from the          *)
(* well-foundedness of the natural numbers.                                *)
(***************************************************************************)
EXTENDS Batch, PreloadQuery, CallbackRegistry, FiniteSetTheorems, WellFoundedInduction, TLAPS

-----------------------------------------------------------------------------
(* Loops over places.                                                      *)

Rank(S) == [i \in S |-> Cardinality({k \in S : k < i})]

\* A member has as many members below it as its place says, so ranks are all
\* different and fill 0 .. Cardinality(S) - 1.
LEMMA RankBijective ==
  ASSUME NEW S, IsFiniteSet(S), S \subseteq Int
  PROVE  /\ Cardinality(S) \in Nat
         /\ Rank(S) \in [S -> 0 .. Cardinality(S) - 1]
         /\ \A i, j \in S : i < j => Rank(S)[i] < Rank(S)[j]
         /\ \A n \in 0 .. Cardinality(S) - 1 : \E i \in S : Rank(S)[i] = n
<1> DEFINE below(i) == {k \in S : k < i}
<1>1. Cardinality(S) \in Nat BY FS_CardinalityType
<1>2. ASSUME NEW i \in S
      PROVE  /\ IsFiniteSet(below(i)) /\ Cardinality(below(i)) \in Nat
             /\ Cardinality(below(i)) \in 0 .. Cardinality(S) - 1
             /\ IsFiniteSet(below(i) \cup {i})
             /\ Cardinality(below(i) \cup {i}) = Cardinality(below(i)) + 1
  <2>1. below(i) \in SUBSET S /\ i \notin below(i) /\ below(i) \cup {i} \in SUBSET S OBVIOUS
  <2> HIDE DEF below
  <2>2. IsFiniteSet(below(i)) BY <2>1, FS_Subset
  <2>3. Cardinality(below(i)) \in Nat BY <2>2, FS_CardinalityType
  <2>4. /\ IsFiniteSet(below(i) \cup {i})
        /\ Cardinality(below(i) \cup {i}) = Cardinality(below(i)) + 1
    BY <2>1, <2>2, FS_AddElement
  <2>5. Cardinality(below(i) \cup {i}) <= Cardinality(S) BY <2>1, FS_Subset
  <2> QED BY <1>1, <2>2, <2>3, <2>4, <2>5
<1>3. Rank(S) \in [S -> 0 .. Cardinality(S) - 1] BY <1>2 DEF Rank
<1>4. ASSUME NEW i \in S, NEW j \in S, i < j PROVE Rank(S)[i] < Rank(S)[j]
  <2>0. ASSUME NEW k \in below(i) \cup {i} PROVE k \in below(j)
    <3>1. k \in S /\ k \in Int /\ i \in Int /\ j \in Int OBVIOUS
    <3>2. k < i \/ k = i OBVIOUS
    <3>3. k < j BY <1>4, <3>1, <3>2
    <3> QED BY <3>1, <3>3
  <2>1. below(i) \cup {i} \in SUBSET below(j) BY <2>0
  <2>2. IsFiniteSet(below(j)) /\ Cardinality(below(j)) \in Nat /\ Cardinality(below(i)) \in Nat
    BY <1>2
  <2>3. Cardinality(below(i) \cup {i}) = Cardinality(below(i)) + 1 BY <1>2
  <2>4. Rank(S)[i] = Cardinality(below(i)) /\ Rank(S)[j] = Cardinality(below(j)) BY DEF Rank
  <2> HIDE DEF below
  <2>5. Cardinality(below(i) \cup {i}) <= Cardinality(below(j)) BY <2>1, <2>2, FS_Subset
  <2> QED BY <2>2, <2>3, <2>4, <2>5
<1>5. ASSUME NEW n \in 0 .. Cardinality(S) - 1 PROVE \E i \in S : Rank(S)[i] = n
  <2>1. PICK c : c = Cardinality(S) OBVIOUS
  <2>2. PICK T : T = 0 .. c - 1 OBVIOUS
  <2>3. PICK f : f = Rank(S) OBVIOUS
  <2>4. IsFiniteSet(T) /\ Cardinality(T) = c
    <3>1. c \in Nat BY <1>1, <2>1
    <3>2. IsFiniteSet(0 .. c - 1)
          /\ Cardinality(0 .. c - 1) = IF 0 > c - 1 THEN 0 ELSE (c - 1) - 0 + 1
      BY <3>1, FS_Interval
    <3> QED BY <2>2, <3>1, <3>2
  <2>5. f \in [S -> T] BY <1>3, <2>1, <2>2, <2>3
  <2>6. \A i, j \in S : f[i] = f[j] => i = j
    <3> SUFFICES ASSUME NEW i \in S, NEW j \in S, f[i] = f[j] PROVE i = j OBVIOUS
    <3>1. f[i] \in Int BY <2>2, <2>5
    <3>2. ~(i < j) BY <1>4, <2>3, <3>1
    <3>3. ~(j < i) BY <1>4, <2>3, <3>1
    <3> QED BY <3>2, <3>3
  <2>7. f \in Injection(S, T) BY <2>5, <2>6 DEF Injection, IsInjective
  <2>8. f \in Surjection(S, T) BY <2>1, <2>4, <2>7, FS_Injection
  <2>9. n \in T BY <2>1, <2>2
  <2> QED BY <2>3, <2>8, <2>9 DEF Surjection
<1> QED BY <1>1, <1>3, <1>4, <1>5

\* The loop meets every place once, from the first to the last.
LEMMA InOrderFacts ==
  ASSUME NEW S, IsFiniteSet(S), S \subseteq Int
  PROVE  /\ Cardinality(S) \in Nat
         /\ InOrder(S) \in [1 .. Cardinality(S) -> S]
         /\ \A a, b \in 1 .. Cardinality(S) : a < b => InOrder(S)[a] < InOrder(S)[b]
         /\ \A i \in S : \E n \in 1 .. Cardinality(S) : InOrder(S)[n] = i
<1>0. /\ Cardinality(S) \in Nat
      /\ Rank(S) \in [S -> 0 .. Cardinality(S) - 1]
      /\ \A i, j \in S : i < j => Rank(S)[i] < Rank(S)[j]
      /\ \A n \in 0 .. Cardinality(S) - 1 : \E i \in S : Rank(S)[i] = n
  BY RankBijective
<1>1. ASSUME NEW n \in 1 .. Cardinality(S)
      PROVE  InOrder(S)[n] \in S /\ Rank(S)[InOrder(S)[n]] = n - 1
  <2>1. n - 1 \in 0 .. Cardinality(S) - 1 BY <1>0
  <2>2. \E i \in S : Cardinality({k \in S : k < i}) = n - 1 BY <1>0, <2>1 DEF Rank
  <2>3. InOrder(S)[n] = CHOOSE i \in S : Cardinality({k \in S : k < i}) = n - 1 BY DEF InOrder
  <2> QED BY <2>2, <2>3 DEF Rank
<1>2. InOrder(S) = [n \in 1 .. Cardinality(S) |-> InOrder(S)[n]] BY SMTT(30) DEF InOrder
<1>3. InOrder(S) \in [1 .. Cardinality(S) -> S] BY <1>1, <1>2
<1>4. ASSUME NEW a \in 1 .. Cardinality(S), NEW b \in 1 .. Cardinality(S), a < b
      PROVE  InOrder(S)[a] < InOrder(S)[b]
  <2>1. PICK i \in S : i = InOrder(S)[a] /\ Rank(S)[i] = a - 1 BY <1>1
  <2>2. PICK j \in S : j = InOrder(S)[b] /\ Rank(S)[j] = b - 1 BY <1>1
  <2>3. i \in Int /\ j \in Int /\ ~(j < i) /\ i # j BY <1>0, <1>4, <2>1, <2>2
  <2> QED BY <2>1, <2>2, <2>3
<1>5. ASSUME NEW i \in S PROVE \E n \in 1 .. Cardinality(S) : InOrder(S)[n] = i
  <2>1. PICK n : n = Rank(S)[i] + 1 OBVIOUS
  <2>2. n \in 1 .. Cardinality(S) BY <1>0, <2>1
  <2>3. PICK j \in S : j = InOrder(S)[n] /\ Rank(S)[j] = n - 1 BY <1>1, <2>2
  <2>4. Rank(S)[j] = Rank(S)[i] BY <1>0, <2>1, <2>3
  <2>5. ~(i < j) /\ ~(j < i) BY <1>0, <2>4
  <2>6. i = j BY <2>5
  <2> QED BY <2>2, <2>3, <2>6
<1> QED BY <1>0, <1>3, <1>4, <1>5

\* What a sequence is, and a function that is one.
LEMMA SeqFacts ==
  ASSUME NEW S, NEW s \in Seq(S)
  PROVE  /\ Len(s) \in Nat /\ DOMAIN s = 1 .. Len(s) /\ s \in [1 .. Len(s) -> S]
         /\ (s = <<>> <=> Len(s) = 0) /\ \A n \in DOMAIN s : s[n] \in S
OBVIOUS

LEMMA IsSeq ==
  ASSUME NEW S, NEW n \in Nat, NEW s \in [1 .. n -> S]
  PROVE  s \in Seq(S) /\ Len(s) = n /\ DOMAIN s = 1 .. n
OBVIOUS

-----------------------------------------------------------------------------
(* Steps of a loop: what holds before the first and is kept by each.        *)

LEMMA NatRel == \E R : IsWellFoundedOn(R, Nat) /\ \A m, n \in Nat : m < n => <<m, n>> \in R
<1>1. PICK R : R = OpToRel(<, Nat) OBVIOUS
<1>2. IsWellFoundedOn(R, Nat) BY <1>1, NatLessThanWellFounded
<1>3. \A m, n \in Nat : m < n => <<m, n>> \in R BY <1>1 DEF OpToRel
<1> QED BY <1>2, <1>3

\* A set of numbers that is not empty has a least one.
LEMMA Least ==
  ASSUME NEW T, T \subseteq Nat, T # {}
  PROVE  \E x \in T : \A y \in T : x <= y
<1>1. PICK R : IsWellFoundedOn(R, Nat) /\ \A m, n \in Nat : m < n => <<m, n>> \in R
  BY NatRel
<1>2. PICK x \in T : \A y \in T : ~ (<<y, x>> \in R) BY <1>1, WFMin, ZenonT(60)
<1>3. ASSUME NEW y \in T PROVE x <= y
  <2>1. x \in Nat /\ y \in Nat OBVIOUS
  <2>2. ~(y < x) BY <1>1, <1>2, <2>1
  <2> QED BY <2>1, <2>2
<1> QED BY <1>3

\* A set of numbers that has no more than n of its members has a greatest one.
LEMMA Greatest ==
  ASSUME NEW T, NEW n \in Nat, T \subseteq 0 .. n, T # {}
  PROVE  \E x \in T : \A y \in T : y <= x
<1>1. PICK U : U = {k \in 0 .. n : n - k \in T} OBVIOUS
<1>2. U \subseteq Nat BY <1>1
<1>3. PICK y \in T : TRUE OBVIOUS
<1>4. y \in 0 .. n /\ n - y \in 0 .. n /\ n - (n - y) = y BY <1>3
<1>5. n - y \in U BY <1>1, <1>3, <1>4
<1>6. PICK x \in U : \A z \in U : x <= z BY <1>2, <1>5, Least
<1>7. n - x \in T BY <1>1, <1>6
<1>8. ASSUME NEW z \in T PROVE z <= n - x
  <2>1. z \in 0 .. n /\ n - z \in 0 .. n /\ n - (n - z) = z OBVIOUS
  <2>2. n - z \in U BY <1>1, <2>1
  <2>3. x <= n - z BY <1>6, <2>2
  <2> QED BY <1>2, <2>1, <2>3
<1> QED BY <1>7, <1>8

\* What the first state has, and every step keeps, the last state has.
LEMMA Steps ==
  ASSUME NEW n \in Nat, NEW S, 0 \in S, \A k \in 0 .. n - 1 : k \in S => k + 1 \in S
  PROVE  0 .. n \subseteq S
<1> DEFINE T == (0 .. n) \ S
<1>1. SUFFICES ASSUME T # {} PROVE FALSE OBVIOUS
<1>2. T \subseteq Nat OBVIOUS
<1>3. PICK x \in T : \A y \in T : x <= y BY <1>1, <1>2, Least
<1>4. x \in 0 .. n /\ x # 0 OBVIOUS
<1>5. x - 1 \in 0 .. n - 1 /\ (x - 1) + 1 = x /\ ~(x <= x - 1) BY <1>4
<1>6. x - 1 \in S BY <1>3, <1>5
<1>7. x \in S BY <1>5, <1>6
<1> QED BY <1>7

-----------------------------------------------------------------------------
(* The transaction of a batch.                                             *)

Finished == {"committed", "callerCommitted"}

\* A call commits at its end only; it has no transaction before it begins one,
\* and only a call on a handle that is none has one of its own.
TxKnown ==
  /\ call \in Calls /\ err \in BOOLEAN
  /\ tx \in Finished => pc \in Ended
  /\ pc \in {"idle", "begin"} => tx = "none"
  /\ tx = "open" \/ pc \in {"begin", "commit"} => Own
  /\ pc = "begin" /\ err => call.failed

IInv == TxKnown /\ AllOrNothing

-----------------------------------------------------------------------------
LEMMA InitInv == Init => IInv
BY BatchAssumption DEF Init, IInv, TxKnown, Finished, AllOrNothing, BatchAssumption

\* What every action may do to the store while the call is not committed.
LEMMA StoreKept ==
  ASSUME AllOrNothing, tx \notin Finished \/ tx' \in Finished, store' = store
  PROVE  AllOrNothing'
BY DEF AllOrNothing, Finished

LEMMA UndoKeeps ==
  ASSUME TxKnown, Undo
  PROVE  /\ tx' # "open" /\ (tx' \in Finished <=> tx \in Finished)
         /\ tx = "none" => tx' = "none"
BY DEF Undo, Finished

LEMMA NextInv == IInv /\ [Next]_vars => IInv'
<1> SUFFICES ASSUME IInv, [Next]_vars PROVE IInv'
    OBVIOUS
<1> USE DEF IInv
<1>0. TxKnown /\ AllOrNothing OBVIOUS
<1>1. ASSUME NEW in \in Inputs, Start(in) PROVE IInv'
  <2>1. /\ pc = "idle" /\ UNCHANGED <<call, store>>
        /\ tx' \in {"shared", "none"} /\ pc' \in {"returned", "prepare", "begin"}
        /\ err' \in BOOLEAN /\ (tx' = "shared" => call.shared)
        /\ pc' = "begin" => tx' = "none" /\ ~call.shared /\ (err' => call.failed)
    BY <1>0, <1>1, BatchAssumption DEF Start, callVars, dbVars, TxKnown, BatchAssumption
  <2>2. TxKnown' BY <1>0, <2>1 DEF TxKnown, Finished, Own
  <2> QED BY <1>0, <2>1, <2>2, StoreKept DEF TxKnown, Finished
<1>2. CASE Begin
  <2>1. /\ pc = "begin" /\ tx' = "open" /\ pc' \in {"returned", "prepare"}
        /\ UNCHANGED <<call, err, store>>
    BY <1>2 DEF Begin, callVars, dbVars
  <2>2. TxKnown' BY <1>0, <2>1 DEF TxKnown, Finished, Own
  <2> QED BY <1>0, <2>1, <2>2, StoreKept DEF TxKnown, Finished
<1>3. CASE BeginFails
  <2>1. /\ pc = "begin" /\ tx' = "nil" /\ pc' \in {"returned", "prepare"} /\ err' = TRUE
        /\ UNCHANGED <<call, store>>
    BY <1>3 DEF BeginFails, callVars, dbVars
  <2>2. TxKnown' BY <1>0, <2>1 DEF TxKnown, Finished, Own
  <2> QED BY <1>0, <2>1, <2>2, StoreKept DEF TxKnown, Finished
<1>4. CASE Prepare \/ Execute \/ After
  <2>1. /\ pc \in {"prepare", "execute", "after"} /\ pc' \in {"execute", "after"}
        /\ UNCHANGED <<call, err, store, tx>>
    BY <1>4 DEF Prepare, Execute, After, callVars, dbVars
  <2>2. TxKnown' BY <1>0, <2>1 DEF TxKnown, Ended, Own, Finished
  <2> QED BY <1>0, <2>1, <2>2, StoreKept
<1>5. CASE PrepareFails \/ ExecuteFails \/ AfterFails \/ Panic
  <2>1. /\ pc' \in Ended /\ err' \in BOOLEAN /\ Undo /\ UNCHANGED <<call, store>>
    BY <1>0, <1>5 DEF PrepareFails, ExecuteFails, AfterFails, Panic, Return, callVars, Ended,
                TxKnown
  <2>2. TxKnown' BY <1>0, <2>1, UndoKeeps DEF TxKnown, Ended
  <2> QED BY <1>0, <2>1, <2>2, StoreKept, UndoKeeps
<1>6. CASE NextChunk
  <2>1. /\ pc = "execute" /\ pc' \in {"prepare", "commit", "returned"}
        /\ pc' = "commit" => Own
        /\ UNCHANGED <<call, err, store, tx>>
    BY <1>6 DEF NextChunk, callVars, dbVars
  <2>2. TxKnown' BY <1>0, <2>1 DEF TxKnown, Ended, Own
  <2> QED BY <1>0, <2>1, <2>2, StoreKept
<1>7. CASE Commit
  <2>1. /\ tx' = "committed" /\ pc' = "returned" /\ err' = err /\ call' = call
    BY <1>7 DEF Commit, Return, callVars
  <2> QED BY <1>0, <2>1 DEF TxKnown, Ended, Finished, AllOrNothing
<1>8. CASE CommitFails
  <2>1. /\ pc = "commit" /\ tx' = "rolledback" /\ pc' = "returned" /\ err' = TRUE
        /\ UNCHANGED <<call, store>>
    BY <1>8 DEF CommitFails, Return, callVars
  <2>2. TxKnown' BY <1>0, <2>1 DEF TxKnown, Ended, Finished
  <2> QED BY <1>0, <2>1, <2>2, StoreKept DEF TxKnown, Ended
<1>9. CASE CallerEnds
  <2>1. /\ pc \in Ended /\ tx = "shared" /\ UNCHANGED <<pc, call, err>>
        /\ tx' = "callerCommitted" \/ (tx' = "callerRolledback" /\ store' = store)
    BY <1>9 DEF CallerEnds, Ended, callVars
  <2>2. TxKnown' BY <1>0, <2>1 DEF TxKnown, Ended, Finished
  <2> QED BY <1>0, <2>1, <2>2 DEF AllOrNothing
<1>10. ASSUME NEW k \in OtherKeys, OtherInserts(k) PROVE IInv'
  <2>1. /\ UNCHANGED <<pc, call, err, tx>>
        /\ store' = store \cup {[id |-> nextId, key |-> k, val |-> 0]}
    BY <1>10 DEF OtherInserts, callVars
  <2>2. TxKnown' BY <1>0, <2>1 DEF TxKnown, Own
  <2>3. AllOrNothing' BY <1>0, <2>1 DEF AllOrNothing
  <2> QED BY <2>2, <2>3
<1>11. CASE UNCHANGED vars
  <2>1. UNCHANGED <<pc, call, err, tx, store>> BY <1>11 DEF vars, callVars, dbVars
  <2>2. TxKnown' BY <1>0, <2>1 DEF TxKnown, Own
  <2>3. AllOrNothing' BY <1>0, <2>1 DEF AllOrNothing
  <2> QED BY <2>2, <2>3
<1> QED BY <1>1, <1>2, <1>3, <1>4, <1>5, <1>6, <1>7, <1>8, <1>9, <1>10, <1>11 DEF Next

LEMMA Invariance == Spec => []IInv
BY InitInv, NextInv, PTL DEF Spec

\* No row of a call is committed before the call or its caller commits, whatever
\* fails or panics between its statements, for slices and chunks of any size.
THEOREM BatchesAreAtomic == Spec => []AllOrNothing
<1>1. IInv => AllOrNothing BY DEF IInv
<1> QED BY <1>1, Invariance, PTL

-----------------------------------------------------------------------------
(* The end of a transaction of the call's own.  A handle that has an error *)
(* before a CreateInBatches or SaveInBatches is excluded: Begin gives it a  *)
(* transaction then which nobody ends.                                      *)

FailedIsShared ==
  \A c \in Calls : c.failed => c.shared \/ c.op = "onConflict"

LEMMA EndStep ==
  ASSUME FailedIsShared, IInv, OwnTxEnds, [Next]_vars
  PROVE  OwnTxEnds'
<1>0. TxKnown BY DEF IInv
<1>1. ASSUME NEW in \in Inputs, Start(in) PROVE OwnTxEnds'
  BY <1>1 DEF Start, OwnTxEnds
<1>2. CASE Begin
  <2>1. ~err \/ call.op = "onConflict"
    BY <1>0, <1>2 DEF Begin, TxKnown, FailedIsShared, Own
  <2> QED BY <1>2, <2>1 DEF Begin, OwnTxEnds, Ended
<1>3. CASE BeginFails \/ Commit \/ CommitFails \/ CallerEnds
  BY <1>3 DEF BeginFails, Commit, CommitFails, CallerEnds, OwnTxEnds
<1>4. CASE Prepare \/ Execute \/ After
  BY <1>4 DEF Prepare, Execute, After, OwnTxEnds, Ended
<1>5. CASE PrepareFails \/ ExecuteFails \/ AfterFails \/ Panic
  <2>1. Undo BY <1>5 DEF PrepareFails, ExecuteFails, AfterFails, Panic
  <2> QED BY <1>0, <2>1, UndoKeeps DEF OwnTxEnds
<1>6. CASE NextChunk
  <2>1. tx' = tx /\ (pc' \in Ended => ~Own) BY <1>6 DEF NextChunk, Ended
  <2> QED BY <1>0, <2>1 DEF TxKnown, OwnTxEnds
<1>7. ASSUME NEW k \in OtherKeys, OtherInserts(k) PROVE OwnTxEnds'
  BY <1>7 DEF OtherInserts, OwnTxEnds
<1>8. CASE UNCHANGED vars BY <1>8 DEF vars, OwnTxEnds
<1> QED BY <1>1, <1>2, <1>3, <1>4, <1>5, <1>6, <1>7, <1>8 DEF Next

\* A transaction that a call began is committed or rolled back when the call
\* returns or panics, unless its handle had an error before.
THEOREM OwnTransactionsEnd ==
  ASSUME FailedIsShared PROVE Spec => []OwnTxEnds
<1>1. Init => OwnTxEnds BY DEF Init, OwnTxEnds, Ended
<1>2. IInv /\ OwnTxEnds /\ [Next]_vars => OwnTxEnds' BY EndStep
<1> QED BY <1>1, <1>2, Invariance, PTL DEF Spec

-----------------------------------------------------------------------------
(* The answer.  createBatchWithOption does not look at the handle's error   *)
(* at all, so the excluded handles are those of any call not in a           *)
(* transaction of its caller.                                               *)

FreshHandles == \A c \in Calls : c.failed => c.shared

\* While a call with a transaction of its own runs it has no error, but for one
\* whose Begin failed; that one writes nothing and does not come to its commit.
Running == {"begin", "prepare", "execute", "after", "commit"}
NoErrorYet ==
  /\ pc \in {"idle", "begin", "prepare"} => group = <<>>
  /\ Own /\ err /\ pc \in Running =>
       tx = "nil" /\ pc \in {"prepare", "execute"} /\ call.op = "onConflict" /\ group = <<>>

AnswerInv == NoErrorYet /\ AnswerTrue

LEMMA AnswerStep ==
  ASSUME FreshHandles, IInv, AnswerInv, [Next]_vars
  PROVE  AnswerInv'
<1>0. TxKnown /\ NoErrorYet /\ AnswerTrue BY DEF IInv, AnswerInv
<1>1. ASSUME NEW in \in Inputs, Start(in) PROVE AnswerInv'
  <2>1. /\ pc = "idle" /\ UNCHANGED <<call, group>> /\ input' = in
        /\ tx' \in {"shared", "none"} /\ pc' \in {"returned", "prepare", "begin"}
        /\ pc' = "returned" /\ ~call.shared => in = <<>> \/ err'
        /\ pc' # "returned" /\ err' => call.failed
    BY <1>1 DEF Start, callVars
  <2>2. call \in Calls /\ (call.failed => ~Own) BY <1>0 DEF TxKnown, FreshHandles, Own
  <2>3. NoErrorYet' BY <1>0, <2>1, <2>2 DEF NoErrorYet, Running, Own
  <2>4. AnswerTrue' BY <1>0, <2>1 DEF AnswerTrue, Own, TxKnown
  <2> QED BY <2>3, <2>4 DEF AnswerInv
<1>2. CASE Begin
  <2>1. ~err BY <1>0, <1>2 DEF Begin, TxKnown, FreshHandles, Own
  <2>2. pc = "begin" /\ pc' = "prepare" /\ UNCHANGED <<call, err, group>>
    BY <1>2, <2>1 DEF Begin, callVars
  <2> QED BY <1>0, <2>1, <2>2 DEF AnswerInv, NoErrorYet, AnswerTrue, Running
<1>3. CASE BeginFails
  <2>1. /\ pc = "begin" /\ tx' = "nil" /\ err' = TRUE /\ UNCHANGED <<call, group>>
        /\ pc' = IF call.op # "onConflict" THEN "returned" ELSE "prepare"
    BY <1>3 DEF BeginFails, callVars
  <2> QED BY <1>0, <2>1 DEF AnswerInv, NoErrorYet, AnswerTrue, Running, Own
<1>4. CASE Prepare
  <2>1. pc = "prepare" /\ pc' = "execute" /\ UNCHANGED <<call, err, tx, group>>
    BY <1>4 DEF Prepare, callVars
  <2> QED BY <1>0, <2>1 DEF AnswerInv, NoErrorYet, AnswerTrue, Running, Own
<1>5. CASE Execute
  <2>1. /\ pc = "execute" /\ pc' = "after" /\ UNCHANGED <<call, err, tx>>
        /\ tx \in {"open", "shared"}
    BY <1>5 DEF Execute, callVars
  <2>2. Own => ~err BY <1>0, <2>1 DEF NoErrorYet, Running
  <2> QED BY <1>0, <2>1, <2>2 DEF AnswerInv, NoErrorYet, AnswerTrue, Running, Own
<1>6. CASE After
  <2>1. /\ pc = "after" /\ pc' = "execute" /\ UNCHANGED <<call, err, tx>>
    BY <1>6 DEF After, callVars
  <2> QED BY <1>0, <2>1 DEF AnswerInv, NoErrorYet, AnswerTrue, Running, Own
<1>7. CASE PrepareFails \/ ExecuteFails \/ AfterFails
  <2>1. /\ pc \in Running /\ pc' = "returned" /\ err' = TRUE /\ Undo
    BY <1>7 DEF PrepareFails, ExecuteFails, AfterFails, Return, Running
  <2>2. tx' # "committed"
    BY <1>0, <2>1, UndoKeeps DEF TxKnown, Finished, Ended, Running, Undo
  <2> QED BY <2>1, <2>2 DEF AnswerInv, NoErrorYet, AnswerTrue, Running
<1>8. CASE Panic
  BY <1>8 DEF Panic, AnswerInv, NoErrorYet, AnswerTrue, Running
<1>9. CASE NextChunk
  <2>1. /\ pc = "execute" /\ (call.op = "onConflict" => group # <<>>) /\ group' = <<>>
        /\ pc' \in {"prepare", "commit", "returned"} /\ (pc' = "returned" => ~Own)
        /\ UNCHANGED <<call, err, tx>>
    BY <1>9 DEF NextChunk, callVars
  <2>2. Own => ~err BY <1>0, <2>1 DEF NoErrorYet, Running
  <2> QED BY <2>1, <2>2 DEF AnswerInv, NoErrorYet, AnswerTrue, Own
<1>10. CASE Commit
  <2>1. pc = "commit" /\ tx' = "committed" /\ err' = err /\ pc' = "returned"
    BY <1>10 DEF Commit, Return
  <2>2. Own /\ ~err BY <1>0, <2>1 DEF TxKnown, NoErrorYet, Running
  <2> QED BY <2>1, <2>2 DEF AnswerInv, NoErrorYet, AnswerTrue, Running
<1>11. CASE CommitFails
  BY <1>11 DEF CommitFails, Return, AnswerInv, NoErrorYet, AnswerTrue, Running
<1>12. CASE CallerEnds
  <2>1. /\ pc \in Ended /\ tx = "shared" /\ tx' \in {"callerCommitted", "callerRolledback"}
        /\ UNCHANGED <<pc, call, input, err, group>>
    BY <1>12 DEF CallerEnds, Ended, callVars
  <2> QED BY <1>0, <2>1 DEF AnswerInv, NoErrorYet, AnswerTrue, Running, Own, Ended
<1>13. CASE (\E k \in OtherKeys : OtherInserts(k)) \/ UNCHANGED vars
  <2>1. UNCHANGED <<pc, call, input, tx, err, group>>
    BY <1>13 DEF OtherInserts, vars, callVars
  <2> QED BY <1>0, <2>1 DEF AnswerInv, NoErrorYet, AnswerTrue, Own
<1> QED BY <1>1, <1>2, <1>3, <1>4, <1>5, <1>6, <1>7, <1>8, <1>9, <1>10, <1>11, <1>12, <1>13
        DEF Next

\* A call with a transaction of its own returns an error exactly if nothing of
\* it was committed, whatever failed: Begin, a hook, a statement or the commit.
THEOREM AnswersAreTrue ==
  ASSUME FreshHandles PROVE Spec => []AnswerTrue
<1>1. Init => AnswerInv BY DEF Init, AnswerInv, NoErrorYet, AnswerTrue, Running
<1>2. AnswerInv => AnswerTrue BY DEF AnswerInv
<1>3. IInv /\ AnswerInv /\ [Next]_vars => AnswerInv' BY AnswerStep
<1> QED BY <1>1, <1>2, <1>3, Invariance, PTL DEF Spec

-----------------------------------------------------------------------------
(* What a batch writes: the invariant.                                      *)

StructRecords == [id : Nat, key : Nat, full : BOOLEAN]
TableRows == [id : Nat, key : Nat, val : Nat]

BatchTypes ==
  /\ call \in Calls /\ input \in Seq(StructRecords) /\ input \in Inputs \cup {<<>>}
  /\ ids \in [DOMAIN input -> Nat] /\ start \in Nat \ {0} /\ rows \in Seq(Nat)
  /\ total \in Nat /\ nextId \in Nat /\ lastId \in Nat /\ LastOldId < nextId

\* A call that has not failed so far.
Holding ==
  \/ pc \in {"idle", "begin", "prepare", "execute", "after", "commit"}
  \/ pc = "returned" /\ ~err /\ tx \in {"committed", "shared"}

\* Elements that have been in a statement.
Done ==
  {i \in Elements : \/ i < start
                    \/ pc \in {"execute", "after"} /\ i \in Chunk /\ i \notin ToSet(rows)}

\* What is left of the chunk, in order; where a loop is before and after it.
LoopPlaces ==
  /\ pc = "idle" => input = <<>>
  /\ pc \in {"idle", "begin"} => start = 1
  /\ pc \in {"execute", "after"} =>
       /\ \A n \in DOMAIN rows : rows[n] \in Chunk
       /\ \A a, b \in DOMAIN rows : a < b => rows[a] < rows[b]
       /\ \A i \in Chunk : i \notin ToSet(rows) => \A n \in DOMAIN rows : i < rows[n]
  /\ pc = "commit" \/ (pc = "returned" /\ Holding) => start > Len(input)

\* MySQL updates for any key, and may give a row to another element.
Plain == call.db = "mysql" => Target = "none"

\* A row that is an element's says which; an element's row is its own or a
\* later element's for the same row.
Known(tab, done) ==
  \A r \in tab : r.val # 0 =>
    /\ r.val \in done /\ r.key = input[r.val].key
    /\ Target = "id" => \/ r.id = input[r.val].id
                        \/ input[r.val].id = 0 /\ r.id > LastOldId
Covered(tab, done) ==
  \A i \in done : \E j \in done : /\ i = j \/ (j > i /\ SameRow(i, j))
                                  /\ \E r \in tab : r.val = j
Sound(tab, next) ==
  tab \in SUBSET TableRows /\ Unique(tab) /\ \A r \in tab : r.id < next

Good(tab, next, done) ==
  /\ Sound(tab, next)
  /\ Plain => Known(tab, done)
  /\ Plain /\ call.option # "nothing" => Covered(tab, done)

TableHolds ==
  Holding =>
    /\ Good(table, nextId, Done) /\ Sound(store, nextId)
    /\ Target = "none" => total = Cardinality(Done)
    /\ pc = "returned" => affected = total

\* A struct that was given a key has the one of its row.
Inserting == call.op = "create" /\ call.option # "update"
KeysHold ==
  /\ call.op # "create" => \A i \in DOMAIN ids : ids[i] = input[i].id
  /\ Holding /\ Inserting => \A i \in DOMAIN ids : ids[i] # input[i].id =>
       \E r \in table : r.id = ids[i] /\ r.val = i

WrittenInv == BatchTypes /\ LoopPlaces /\ TableHolds /\ KeysHold /\ StaleKeysHarmless

-----------------------------------------------------------------------------
(* Columns and groups.                                                      *)

LEMMA ElementFacts ==
  ASSUME BatchTypes, NEW i \in Elements
  PROVE  /\ i \in Nat \ {0} /\ i <= Len(input) /\ i \in DOMAIN input /\ input[i] \in StructRecords
         /\ input[i].id \in Nat /\ input[i].key \in Nat /\ input[i].id <= LastOldId
<1>1. input \in Seq(StructRecords) /\ input \in Inputs \cup {<<>>} BY DEF BatchTypes
<1>2. i \in DOMAIN input BY DEF Elements
<1>3. Len(input) \in Nat /\ i \in 1 .. Len(input) /\ input[i] \in StructRecords BY <1>1, <1>2, SeqFacts
<1>4. input \in Inputs BY <1>1, <1>2
<1>5. input[i].id <= LastOldId BY <1>2, <1>4, BatchAssumption DEF BatchAssumption
<1> QED BY <1>2, <1>3, <1>5 DEF StructRecords

LEMMA ElementsFinite ==
  ASSUME BatchTypes
  PROVE  IsFiniteSet(Elements) /\ \A D \in SUBSET Elements : IsFiniteSet(D)
<1>1. PICK n \in Nat : n = Len(input) BY SeqFacts DEF BatchTypes
<1>2. IsFiniteSet(1 .. n) BY FS_Interval
<1>3. Elements \in SUBSET (1 .. n) BY <1>1, ElementFacts
<1>4. ASSUME NEW D \in SUBSET Elements PROVE IsFiniteSet(D) BY <1>2, <1>3, <1>4, FS_Subset
<1> QED BY <1>4

LEMMA ColumnsFacts ==
  ASSUME NEW e
  PROVE  Cardinality(Columns(e)) \in Nat \ {0}
<1>1. PICK c : c = Columns(e) OBVIOUS
<1>2. c \in SUBSET {"id", "key", "val", "dflt"} /\ "key" \in c BY <1>1 DEF Columns
<1>3. IsFiniteSet({"id", "key", "val", "dflt"})
  <2>1. IsFiniteSet({}) BY FS_EmptySet
  <2>2. IsFiniteSet({} \cup {"id"}) BY <2>1, FS_AddElement
  <2>3. IsFiniteSet(({} \cup {"id"}) \cup {"key"}) BY <2>2, FS_AddElement
  <2>4. IsFiniteSet((({} \cup {"id"}) \cup {"key"}) \cup {"val"}) BY <2>3, FS_AddElement
  <2>5. IsFiniteSet(((({} \cup {"id"}) \cup {"key"}) \cup {"val"}) \cup {"dflt"}) BY <2>4, FS_AddElement
  <2>6. {"id", "key", "val", "dflt"} = ((({} \cup {"id"}) \cup {"key"}) \cup {"val"}) \cup {"dflt"}
    OBVIOUS
  <2> QED BY <2>5, <2>6
<1>4. IsFiniteSet(c) BY <1>2, <1>3, FS_Subset
<1>5. Cardinality(c) \in Nat /\ (Cardinality(c) = 0 => c = {}) BY <1>4, FS_CardinalityType, FS_EmptySet
<1> QED BY <1>1, <1>2, <1>5

LEMMA MaxRowsFacts ==
  ASSUME NEW e
  PROVE  MaxRows(e) \in Nat /\ MaxRows(e) >= 1 /\ (call.db = "dm" => MaxRows(e) = 1)
<1>1. PICK c \in Nat \ {0} : c = Cardinality(Columns(e)) BY ColumnsFacts
<1>2. MaxVars \in Nat \ {0} BY BatchAssumption DEF BatchAssumption
<1>3. c <= MaxVars => MaxVars \div c \in Nat /\ MaxVars \div c >= 1
  <2>1. SUFFICES ASSUME c <= MaxVars PROVE MaxVars \div c \in Nat /\ MaxVars \div c >= 1 OBVIOUS
  <2>2. PICK q : q = MaxVars \div c OBVIOUS
  <2>3. q \in Int /\ c * q <= MaxVars /\ MaxVars < c * q + c BY <1>1, <1>2, <2>2
  <2>4. ~(q <= 0)
    <3>1. SUFFICES ASSUME q <= 0 PROVE FALSE OBVIOUS
    <3>2. c * q <= 0 BY <2>3, <3>1, <1>1
    <3>3. c * q \in Int BY <2>3, <1>1
    <3> QED BY <1>1, <1>2, <2>1, <2>3, <3>2, <3>3
  <2> QED BY <2>2, <2>3, <2>4
<1> QED BY <1>1, <1>2, <1>3 DEF MaxRows

LEMMA MaxOfFacts ==
  ASSUME NEW S, NEW n \in Nat, S \subseteq 0 .. n, S # {}
  PROVE  MaxOf(S) \in S
<1>1. \E x \in S : \A y \in S : y <= x BY Greatest
<1> QED BY <1>1 DEF MaxOf

LEMMA SubSeqFacts ==
  ASSUME NEW S, NEW s \in Seq(S), NEW n \in Nat, n <= Len(s)
  PROVE  /\ SubSeq(s, 1, n) \in Seq(S) /\ Len(SubSeq(s, 1, n)) = n
         /\ DOMAIN SubSeq(s, 1, n) = 1 .. n
         /\ \A k \in 1 .. n : SubSeq(s, 1, n)[k] = s[k]
         /\ SubSeq(s, n + 1, Len(s)) \in Seq(S)
         /\ Len(SubSeq(s, n + 1, Len(s))) = Len(s) - n
         /\ DOMAIN SubSeq(s, n + 1, Len(s)) = 1 .. Len(s) - n
         /\ \A k \in 1 .. Len(s) - n : SubSeq(s, n + 1, Len(s))[k] = s[n + k]
<1>1. Len(s) \in Nat /\ DOMAIN s = 1 .. Len(s) /\ \A k \in 1 .. Len(s) : s[k] \in S BY SeqFacts
<1>2. SubSeq(s, 1, n) \in Seq(S) /\ Len(SubSeq(s, 1, n)) = n BY <1>1
<1>3. DOMAIN SubSeq(s, 1, n) = 1 .. n BY <1>2, SeqFacts
<1>4. \A k \in 1 .. n : SubSeq(s, 1, n)[k] = s[k] BY <1>1
<1>5. SubSeq(s, n + 1, Len(s)) \in Seq(S) /\ Len(SubSeq(s, n + 1, Len(s))) = Len(s) - n
  <2>1. PICK L \in Nat : L = Len(s) /\ n <= L BY <1>1
  <2>2. PICK r : r = SubSeq(s, n + 1, L) OBVIOUS
  <2>3. \A k \in n + 1 .. L : s[k] \in S BY <1>1, <2>1
  <2>4. r \in Seq(S) BY <2>1, <2>2, <2>3
  <2>5. Len(r) = L - n BY <2>1, <2>2
  <2> QED BY <2>1, <2>2, <2>4, <2>5
<1>6. DOMAIN SubSeq(s, n + 1, Len(s)) = 1 .. Len(s) - n BY <1>5, SeqFacts
<1>7. \A k \in 1 .. Len(s) - n : SubSeq(s, n + 1, Len(s))[k] = s[n + k] BY <1>1
<1> QED BY <1>2, <1>3, <1>4, <1>5, <1>6, <1>7

LEMMA GroupFacts ==
  ASSUME BatchTypes, rows # <<>>
  PROVE  /\ GroupLen \in 1 .. Len(rows) /\ (call.db = "dm" => GroupLen = 1)
         /\ \A k \in 1 .. GroupLen : Columns(input[rows[1]]) = Columns(input[rows[k]])
<1>1. PICK n \in Nat : n = Len(rows) /\ n # 0 BY SeqFacts DEF BatchTypes
<1>2. PICK first : first = input[rows[1]] OBVIOUS
<1>3. PICK T : T = {k \in 1 .. n : k <= MaxRows(first)
                                   /\ \A m \in 1 .. k : Alike(first, input[rows[m]])}
  OBVIOUS
<1>4. 1 \in T
  <2>1. 1 \in 1 .. n /\ 1 <= MaxRows(first) BY <1>1, MaxRowsFacts
  <2>2. \A m \in 1 .. 1 : Alike(first, input[rows[m]]) BY <1>2 DEF Alike
  <2> QED BY <1>3, <2>1, <2>2
<1>5. GroupLen = MaxOf(T) BY <1>1, <1>2, <1>3 DEF GroupLen
<1>6. T \subseteq 0 .. n BY <1>3
<1>7. GroupLen \in T BY <1>1, <1>4, <1>5, <1>6, MaxOfFacts
<1>8. GroupLen \in 1 .. n /\ GroupLen <= MaxRows(first) BY <1>3, <1>7
<1>9. \A m \in 1 .. GroupLen : Alike(first, input[rows[m]]) BY <1>3, <1>7
<1>10. call.db = "dm" => GroupLen = 1
  <2>1. call.db = "dm" => MaxRows(first) = 1 BY MaxRowsFacts
  <2> QED BY <1>8, <2>1
<1> QED BY <1>1, <1>2, <1>8, <1>9, <1>10 DEF Alike

\* A statement takes the rows from the front, all of the same columns but where
\* the conflict clause is the caller's.
LEMMA StatementFacts ==
  ASSUME BatchTypes, rows # <<>>
  PROVE  \E n \in 1 .. Len(rows) :
           /\ Statement = SubSeq(rows, 1, n) /\ Statement \in Seq(Nat)
           /\ Len(Statement) = n /\ DOMAIN Statement = 1 .. n
           /\ \A k \in 1 .. n : Statement[k] = rows[k]
           /\ call.op # "onConflict" =>
                /\ call.db = "dm" => n = 1
                /\ \A k \in 1 .. n : Columns(input[rows[1]]) = Columns(input[rows[k]])
<1>1. rows \in Seq(Nat) /\ Len(rows) \in Nat /\ Len(rows) # 0 BY SeqFacts DEF BatchTypes
<1>2. CASE call.op = "onConflict"
  <2>1. Statement = rows BY <1>2 DEF Statement
  <2>2. rows = SubSeq(rows, 1, Len(rows)) BY <1>1
  <2>3. Len(rows) \in 1 .. Len(rows) /\ DOMAIN rows = 1 .. Len(rows) BY <1>1, SeqFacts
  <2> QED BY <1>1, <1>2, <2>1, <2>2, <2>3
<1>3. CASE call.op # "onConflict"
  <2>1. PICK n : n = GroupLen OBVIOUS
  <2>2. /\ n \in 1 .. Len(rows) /\ (call.db = "dm" => n = 1)
        /\ \A k \in 1 .. n : Columns(input[rows[1]]) = Columns(input[rows[k]])
    BY <2>1, GroupFacts
  <2>3. Statement = SubSeq(rows, 1, n) BY <1>3, <2>1 DEF Statement
  <2>4. n \in Nat /\ n <= Len(rows) BY <1>1, <2>2
  <2>5. /\ SubSeq(rows, 1, n) \in Seq(Nat) /\ Len(SubSeq(rows, 1, n)) = n
        /\ DOMAIN SubSeq(rows, 1, n) = 1 .. n
        /\ \A k \in 1 .. n : SubSeq(rows, 1, n)[k] = rows[k]
    BY <1>1, <2>4, SubSeqFacts
  <2> QED BY <2>2, <2>3, <2>5
<1> QED BY <1>2, <1>3

-----------------------------------------------------------------------------
(* The rows of one statement, one after another.                            *)

Before == [table |-> table, next |-> nextId, last |-> lastId, new |-> 0,
           count |-> 0, hit |-> {}, ok |-> TRUE]

\* The states between the rows of a statement.
LEMMA ExecSteps ==
  ASSUME NEW g \in Seq(Nat)
  PROVE  \E a : /\ a[0] = Before /\ Exec(g) = a[Len(g)]
                /\ \A k \in 0 .. Len(g) - 1 : a[k + 1] = Put(a[k], g[k + 1])
<1>1. PICK n \in Nat : n = Len(g) BY SeqFacts
<1>2. PICK S : S = {m \in Nat : \E h : h = [k \in 0 .. m |->
                                  IF k = 0 THEN Before ELSE Put(h[k - 1], g[k])]}
  OBVIOUS
<1>3. 0 \in S
  <2>1. PICK h : h = [k \in 0 .. 0 |-> Before] OBVIOUS
  <2>2. h = [k \in 0 .. 0 |-> IF k = 0 THEN Before ELSE Put(h[k - 1], g[k])] BY <2>1
  <2> QED BY <1>2, <2>2
<1>4. ASSUME NEW m \in 0 .. n - 1, m \in S PROVE m + 1 \in S
  <2>1. PICK h : h = [k \in 0 .. m |-> IF k = 0 THEN Before ELSE Put(h[k - 1], g[k])]
    BY <1>2, <1>4
  <2>2. PICK b : b = Put(h[m], g[m + 1]) OBVIOUS
  <2>3. PICK f : f = [k \in 0 .. m + 1 |-> IF k = m + 1 THEN b ELSE h[k]] OBVIOUS
  <2>4. ASSUME NEW k \in 0 .. m + 1
        PROVE  f[k] = IF k = 0 THEN Before ELSE Put(f[k - 1], g[k])
    <3>1. CASE k = m + 1
      <4>1. k # 0 /\ k - 1 = m /\ m \in 0 .. m + 1 /\ m # m + 1 BY <3>1
      <4>2. f[k] = b /\ f[m] = h[m] BY <2>3, <3>1, <4>1
      <4> QED BY <2>2, <3>1, <4>1, <4>2
    <3>2. CASE k # m + 1
      <4>1. k \in 0 .. m /\ (k # 0 => k - 1 \in 0 .. m /\ k - 1 \in 0 .. m + 1 /\ k - 1 # m + 1)
        BY <3>2
      <4>2. f[k] = h[k] /\ (k # 0 => f[k - 1] = h[k - 1]) BY <2>3, <3>2, <4>1
      <4>3. h[k] = IF k = 0 THEN Before ELSE Put(h[k - 1], g[k]) BY <2>1, <4>1
      <4> QED BY <4>2, <4>3
    <3> QED BY <3>1, <3>2
  <2>5. f = [k \in 0 .. m + 1 |-> f[k]] BY <2>3
  <2>6. f = [k \in 0 .. m + 1 |-> IF k = 0 THEN Before ELSE Put(f[k - 1], g[k])]
    BY <2>4, <2>5
  <2>7. m + 1 \in Nat OBVIOUS
  <2> QED BY <1>2, <2>6, <2>7
<1>5. n \in S
  <2>1. 0 .. n \subseteq S BY <1>3, <1>4, Steps
  <2> QED BY <2>1
<1>6. \E h : h = [k \in 0 .. n |-> IF k = 0 THEN Before ELSE Put(h[k - 1], g[k])] BY <1>2, <1>5
<1>7. PICK a : a = CHOOSE h : h = [k \in 0 .. n |-> IF k = 0 THEN Before ELSE Put(h[k - 1], g[k])]
  OBVIOUS
<1>8. a = [k \in 0 .. n |-> IF k = 0 THEN Before ELSE Put(a[k - 1], g[k])] BY <1>6, <1>7
<1>9. Exec(g) = a[n] BY <1>1, <1>7 DEF Exec, Before
<1>10. a[0] = Before BY <1>8
<1>11. ASSUME NEW k \in 0 .. n - 1 PROVE a[k + 1] = Put(a[k], g[k + 1])
  <2>1. k + 1 \in 0 .. n /\ k + 1 # 0 /\ (k + 1) - 1 = k BY <1>11
  <2> QED BY <1>8, <2>1
<1> QED BY <1>1, <1>9, <1>10, <1>11

States == [table : SUBSET TableRows, next : Nat, last : Nat, new : Nat, count : Nat,
           hit : SUBSET Nat, ok : BOOLEAN]

\* The row of an element, and the four things a statement does with it.
LEMMA PutIs ==
  ASSUME BatchTypes, NEW st \in States, st.ok, NEW i \in Elements
  PROVE  \E r \in TableRows :
           /\ r.key = input[i].key /\ r.val = i
           /\ \/ r.id = input[i].id /\ r.id # 0 /\ call.op # "saveKey"
              \/ r.id = st.next /\ (input[i].id = 0 \/ call.op = "saveKey")
           /\ \/ Aimed(st.table, r) = {} /\ Clash(st.table, r) = {} /\ Put(st, i) = Insert(st, r)
              \/ Aimed(st.table, r) = {} /\ Clash(st.table, r) # {} /\ ~Put(st, i).ok
              \/ Aimed(st.table, r) # {} /\ call.option = "nothing" /\ Put(st, i) = st
              \/ /\ call.option # "nothing"
                 /\ \E s \in Aimed(st.table, r) : Put(st, i) = Update(st, s, r)
<1>1. i \in Nat /\ input[i].id \in Nat /\ input[i].key \in Nat BY ElementFacts
<1>2. st.next \in Nat BY DEF States
<1>3. PICK e : e = input[i] OBVIOUS
<1>4. PICK r : r = [id |-> IF "id" \in Columns(e) THEN e.id ELSE st.next,
                    key |-> e.key, val |-> i]
  OBVIOUS
<1>5. r \in TableRows BY <1>1, <1>2, <1>3, <1>4 DEF TableRows
<1>6. r.key = input[i].key /\ r.val = i BY <1>3, <1>4
<1>7. "id" \in Columns(e) <=> e.id # 0 /\ call.op # "saveKey" BY DEF Columns
<1>8. r.id = IF "id" \in Columns(e) THEN e.id ELSE st.next BY <1>4
<1>9. \/ r.id = input[i].id /\ r.id # 0 /\ call.op # "saveKey"
      \/ r.id = st.next /\ (input[i].id = 0 \/ call.op = "saveKey")
  BY <1>3, <1>7, <1>8
<1>10. PICK aimed : aimed = Aimed(st.table, r) OBVIOUS
<1>11. Put(st, i) =
         CASE ~st.ok                    -> st
           [] st.ok /\ aimed = {}       -> IF Clash(st.table, r) = {} THEN Insert(st, r)
                                           ELSE [st EXCEPT !.ok = FALSE]
           [] st.ok /\ aimed # {}       ->
                IF call.option = "nothing" THEN st
                ELSE Update(st, CHOOSE s \in aimed : s.id = r.id \/ \A t \in aimed : t.id # r.id, r)
  BY <1>3, <1>4, <1>10 DEF Put
<1>12. CASE aimed = {} /\ Clash(st.table, r) = {}
  <2>1. Put(st, i) = Insert(st, r) BY <1>11, <1>12
  <2> QED BY <1>5, <1>6, <1>9, <1>10, <1>12, <2>1
<1>13. CASE aimed = {} /\ Clash(st.table, r) # {}
  <2>1. Put(st, i) = [st EXCEPT !.ok = FALSE] BY <1>11, <1>13
  <2>2. ~[st EXCEPT !.ok = FALSE].ok BY DEF States
  <2>3. ~Put(st, i).ok BY <2>1, <2>2
  <2> QED BY <1>5, <1>6, <1>9, <1>10, <1>13, <2>3
<1>14. CASE aimed # {} /\ call.option = "nothing"
  <2>1. Put(st, i) = st BY <1>11, <1>14
  <2> QED BY <1>5, <1>6, <1>9, <1>10, <1>14, <2>1
<1>15. CASE aimed # {} /\ call.option # "nothing"
  <2>1. Put(st, i) = Update(st, CHOOSE s \in aimed : s.id = r.id \/ \A t \in aimed : t.id # r.id, r)
    BY <1>11, <1>15
  <2>2. \E s \in aimed : s.id = r.id \/ \A t \in aimed : t.id # r.id BY <1>15
  <2>3. PICK s \in aimed : s = CHOOSE x \in aimed : x.id = r.id \/ \A t \in aimed : t.id # r.id
    BY <2>2
  <2>4. Put(st, i) = Update(st, s, r) BY <2>1, <2>3
  <2> QED BY <1>5, <1>6, <1>9, <1>10, <1>15, <2>4
<1> QED BY <1>12, <1>13, <1>14, <1>15

LEMMA InsertIs ==
  ASSUME NEW st \in States, NEW r \in TableRows
  PROVE  /\ Insert(st, r) \in States
         /\ Insert(st, r).table = st.table \cup {r} /\ Insert(st, r).ok = st.ok
         /\ Insert(st, r).new = st.new + 1 /\ Insert(st, r).count = st.count + 1
         /\ Insert(st, r).next = IF r.id = st.next THEN st.next + 1 ELSE st.next
         /\ Insert(st, r).hit = st.hit \cup {r.id}
         /\ Insert(st, r).last = IF call.db = "mysql" /\ st.new > 0 THEN st.last ELSE r.id
<1>1. r.id \in Nat BY DEF TableRows
<1>2. /\ st.table \in SUBSET TableRows /\ st.next \in Nat /\ st.last \in Nat /\ st.new \in Nat
      /\ st.count \in Nat /\ st.hit \in SUBSET Nat /\ st.ok \in BOOLEAN
  BY DEF States
<1>3. PICK tb \in SUBSET TableRows : tb = st.table \cup {r} BY <1>2
<1>4. PICK nw \in Nat : nw = st.new + 1 BY <1>2
<1>5. PICK ct \in Nat : ct = st.count + 1 BY <1>2
<1>6. PICK nx \in Nat : nx = IF r.id = st.next THEN st.next + 1 ELSE st.next BY <1>2
<1>7. PICK ht \in SUBSET Nat : ht = st.hit \cup {r.id} BY <1>1, <1>2
<1>8. PICK la \in Nat : la = IF call.db = "mysql" /\ st.new > 0 THEN st.last ELSE r.id BY <1>1, <1>2
<1>9. PICK q : q = Insert(st, r) OBVIOUS
<1>10. q = [st EXCEPT !.table = tb, !.new = nw, !.count = ct, !.next = nx, !.hit = ht, !.last = la]
  BY <1>3, <1>4, <1>5, <1>6, <1>7, <1>8, <1>9, Zenon DEF Insert
<1>11. q = [table |-> tb, next |-> nx, last |-> la, new |-> nw, count |-> ct, hit |-> ht, ok |-> st.ok]
  BY <1>10 DEF States
<1>12. q \in States BY <1>2, <1>11 DEF States
<1>13. /\ q.table = tb /\ q.ok = st.ok /\ q.new = nw /\ q.count = ct /\ q.next = nx
       /\ q.hit = ht /\ q.last = la
  BY <1>11
<1> QED BY <1>3, <1>4, <1>5, <1>6, <1>7, <1>8, <1>9, <1>12, <1>13

LEMMA UpdateIs ==
  ASSUME NEW st \in States, NEW r \in TableRows, NEW s \in st.table, st.ok
  PROVE  LET u == Updated(s, r)
             st2 == Update(st, s, r)
         IN /\ u \in TableRows /\ u.id = s.id /\ u.val = r.val
            /\ u.key = IF Target = "id" THEN r.key ELSE s.key
            /\ st2 \in States
            /\ st2.ok <=> ~ \/ Clash(st.table \ {s}, u) # {}
                            \/ call.db = "sqlite3" /\ Clash(st.table, r) # {s}
                            \/ call.db = "postgres" /\ s.id \in st.hit
            /\ st2.ok => /\ st2.table = (st.table \ {s}) \cup {u} /\ st2.next = st.next
                         /\ st2.hit = st.hit \cup {s.id}
                         /\ st2.last = st.last /\ st2.new = st.new
<1> DEFINE u == Updated(s, r)
           st2 == Update(st, s, r)
           no == \/ Clash(st.table \ {s}, u) # {}
                 \/ call.db = "sqlite3" /\ Clash(st.table, r) # {s}
                 \/ call.db = "postgres" /\ s.id \in st.hit
<1>1. /\ st.table \in SUBSET TableRows /\ st.next \in Nat /\ st.last \in Nat /\ st.new \in Nat
      /\ st.count \in Nat /\ st.hit \in SUBSET Nat /\ st.ok \in BOOLEAN
  BY DEF States
<1>2. s \in TableRows BY <1>1
<1>3. PICK ky : ky = IF Target = "id" THEN r.key ELSE s.key OBVIOUS
<1>10. u = [s EXCEPT !.val = r.val, !.key = ky] BY <1>3 DEF Updated
<1>11. u = [id |-> s.id, key |-> ky, val |-> r.val] BY <1>2, <1>10 DEF TableRows
<1>4. u \in TableRows /\ u.id = s.id /\ u.val = r.val
      /\ u.key = IF Target = "id" THEN r.key ELSE s.key
  BY <1>2, <1>3, <1>11 DEF TableRows
<1>5. s.id \in Nat BY <1>2 DEF TableRows
<1> HIDE DEF u
<1>6. CASE no
  <2>1. st2 = [st EXCEPT !.ok = FALSE] BY <1>6 DEF Update, u
  <2>2. [st EXCEPT !.ok = FALSE] \in States BY DEF States
  <2>3. ~[st EXCEPT !.ok = FALSE].ok BY DEF States
  <2>4. st2 \in States /\ ~st2.ok BY <2>1, <2>2, <2>3
  <2> HIDE DEF st2
  <2> QED BY <1>4, <1>6, <2>4 DEF u, st2
<1>7. CASE ~no
  <2>1. st2 = [st EXCEPT !.table = (@ \ {s}) \cup {u}, !.hit = @ \cup {s.id},
                         !.count = @ + (IF call.db = "mysql" THEN 2 ELSE 1)]
    BY <1>7 DEF Update, u
  <2>2. PICK c \in Nat : c = st.count + (IF call.db = "mysql" THEN 2 ELSE 1) BY <1>1
  <2>3. st2 = [table |-> (st.table \ {s}) \cup {u}, next |-> st.next, last |-> st.last,
               new |-> st.new, count |-> c, hit |-> st.hit \cup {s.id}, ok |-> st.ok]
    BY <2>1, <2>2 DEF States
  <2>4. st2 \in States BY <1>1, <1>4, <1>5, <2>2, <2>3 DEF States
  <2>5. /\ st2.ok /\ st2.table = (st.table \ {s}) \cup {u} /\ st2.next = st.next
        /\ st2.hit = st.hit \cup {s.id} /\ st2.last = st.last /\ st2.new = st.new
    BY <2>3
  <2> HIDE DEF st2
  <2> QED BY <1>4, <1>7, <2>4, <2>5 DEF u, st2
<1> QED BY <1>6, <1>7

\* A key and a unique value stay those of one row, and the generator is ahead
\* of every key.
LEMMA InsertSound ==
  ASSUME BatchTypes, NEW st \in States, NEW i \in Elements,
         LastOldId < st.next, Sound(st.table, st.next), NEW r \in TableRows,
         r.id = input[i].id \/ r.id = st.next, Clash(st.table, r) = {},
         NEW next \in Nat, next = IF r.id = st.next THEN st.next + 1 ELSE st.next
  PROVE  Sound(st.table \cup {r}, next)
<1>1. PICK tab : tab = st.table \cup {r} OBVIOUS
<1>2. st.next \in Nat /\ st.table \in SUBSET TableRows BY DEF States
<1>3. r.id \in Nat /\ r.id < next /\ st.next <= next
  <2>1. r.id \in Nat BY DEF TableRows
  <2>2. input[i].id <= LastOldId BY ElementFacts
  <2>3. LastOldId \in Nat BY BatchAssumption DEF BatchAssumption
  <2> QED BY <1>2, <2>1, <2>2, <2>3
<1>4. tab \in SUBSET TableRows BY <1>1, <1>2
<1>5. \A s \in st.table : s.id # r.id /\ s.key # r.key BY DEF Clash
<1>6. Unique(st.table) /\ \A s \in st.table : s.id < st.next BY DEF Sound
<1>7. Unique(tab) BY <1>1, <1>5, <1>6 DEF Unique
<1>8. \A s \in tab : s.id < next
  <2>1. ASSUME NEW s \in st.table PROVE s.id < next
    <3>1. s.id \in Nat BY <1>2 DEF TableRows
    <3> QED BY <1>2, <1>3, <1>6, <3>1
  <2> QED BY <1>1, <1>3, <2>1
<1> QED BY <1>1, <1>4, <1>7, <1>8 DEF Sound

LEMMA UpdateSound ==
  ASSUME NEW st \in States, Sound(st.table, st.next), NEW s \in st.table,
         NEW u \in TableRows, u.id = s.id, Clash(st.table \ {s}, u) = {}
  PROVE  Sound((st.table \ {s}) \cup {u}, st.next)
<1>1. PICK tab : tab = (st.table \ {s}) \cup {u} OBVIOUS
<1>2. st.table \in SUBSET TableRows BY DEF States
<1>3. s.id < st.next BY DEF Sound
<1>4. tab \in SUBSET TableRows BY <1>1, <1>2
<1>5. \A t \in st.table \ {s} : t.id # u.id /\ t.key # u.key BY DEF Clash
<1>6. Unique(st.table) /\ \A t \in st.table : t.id < st.next BY DEF Sound
<1>7. Unique(tab) BY <1>1, <1>5, <1>6 DEF Unique
<1>8. \A t \in tab : t.id < st.next BY <1>1, <1>3, <1>6
<1> QED BY <1>1, <1>4, <1>7, <1>8 DEF Sound

\* Statements put rows in a table that stays sound, and a later row of the same
\* statement is what is left of two for one key.
LEMMA InsertGood ==
  ASSUME BatchTypes, NEW st \in States, NEW done \in SUBSET Elements, NEW i \in Elements,
         \A j \in done : j < i, LastOldId < st.next, Good(st.table, st.next, done),
         NEW r \in TableRows, r.key = input[i].key, r.val = i,
         \/ r.id = input[i].id /\ r.id # 0 /\ call.op # "saveKey"
         \/ r.id = st.next /\ (input[i].id = 0 \/ call.op = "saveKey"),
         Clash(st.table, r) = {},
         NEW next \in Nat, next = IF r.id = st.next THEN st.next + 1 ELSE st.next
  PROVE  Good(st.table \cup {r}, next, done \cup {i})
<1>1. PICK tab : tab = st.table \cup {r} OBVIOUS
<1>2. st.next \in Nat /\ st.table \in SUBSET TableRows BY DEF States
<1>4. Sound(tab, next) BY <1>1, InsertSound DEF Good
<1>5. Target = "id" => \/ r.id = input[r.val].id
                       \/ input[r.val].id = 0 /\ r.id > LastOldId
  <2>1. LastOldId \in Nat BY BatchAssumption DEF BatchAssumption
  <2> QED BY <1>2, <2>1 DEF Target
<1>6. Plain => Known(tab, done \cup {i})
  <2>1. SUFFICES ASSUME Plain, NEW s \in tab, s.val # 0
                 PROVE  /\ s.val \in done \cup {i} /\ s.key = input[s.val].key
                        /\ Target = "id" => \/ s.id = input[s.val].id
                                            \/ input[s.val].id = 0 /\ s.id > LastOldId
    BY DEF Known
  <2>2. CASE s = r BY <1>5, <2>2
  <2>3. CASE s # r
    <3>1. s \in st.table BY <1>1, <2>1, <2>3
    <3>2. Known(st.table, done) BY <2>1 DEF Good
    <3> QED BY <2>1, <3>1, <3>2 DEF Known
  <2> QED BY <2>2, <2>3
<1>7. Plain /\ call.option # "nothing" => Covered(tab, done \cup {i})
  <2>1. SUFFICES ASSUME Plain, call.option # "nothing", NEW k \in done \cup {i}
                 PROVE  \E j \in done \cup {i} : /\ k = j \/ (j > k /\ SameRow(k, j))
                                                 /\ \E s \in tab : s.val = j
    BY DEF Covered
  <2>2. CASE k = i BY <1>1, <2>2
  <2>3. CASE k # i
    <3>1. Covered(st.table, done) /\ k \in done BY <2>1, <2>3 DEF Good
    <3> QED BY <1>1, <3>1 DEF Covered
  <2> QED BY <2>2, <2>3
<1> QED BY <1>1, <1>4, <1>6, <1>7 DEF Good

LEMMA SameRowTransitive ==
  ASSUME NEW i, NEW j, NEW k, SameRow(i, j), SameRow(j, k)
  PROVE  SameRow(i, k)
<1>1. CASE Target = "key" BY <1>1 DEF SameRow
<1>2. CASE Target = "id" BY <1>2 DEF SameRow
<1> QED BY <1>1, <1>2 DEF SameRow

LEMMA UpdateGood ==
  ASSUME BatchTypes, NEW st \in States, NEW done \in SUBSET Elements, NEW i \in Elements,
         \A j \in done : j < i, LastOldId < st.next, Good(st.table, st.next, done),
         NEW r \in TableRows, r.key = input[i].key, r.val = i,
         \/ r.id = input[i].id /\ r.id # 0 /\ call.op # "saveKey"
         \/ r.id = st.next /\ (input[i].id = 0 \/ call.op = "saveKey"),
         NEW s \in Aimed(st.table, r), NEW u \in TableRows, u.id = s.id, u.val = r.val,
         u.key = IF Target = "id" THEN r.key ELSE s.key,
         Clash(st.table \ {s}, u) = {}
  PROVE  Good((st.table \ {s}) \cup {u}, st.next, done \cup {i})
<1>1. PICK tab : tab = (st.table \ {s}) \cup {u} OBVIOUS
<1>2. st.next \in Nat /\ st.table \in SUBSET TableRows /\ s \in st.table BY DEF States, Aimed
<1>3. s.id \in Nat /\ s.id < st.next BY <1>2 DEF Good, Sound, TableRows
<1>4. Sound(tab, st.next) BY <1>1, <1>2, UpdateSound DEF Good
\* Without MySQL's other keys, the row that is taken is the element's.
<1>5. Plain => \/ Target = "key" /\ s.key = r.key /\ u.key = r.key
               \/ /\ Target = "id" /\ s.id = r.id /\ u.key = r.key
                  /\ s.id = input[i].id /\ s.id # 0 /\ s.id <= LastOldId
  <2>1. SUFFICES ASSUME Plain PROVE \/ Target = "key" /\ s.key = r.key /\ u.key = r.key
                                    \/ /\ Target = "id" /\ s.id = r.id /\ u.key = r.key
                                       /\ s.id = input[i].id /\ s.id # 0 /\ s.id <= LastOldId
    OBVIOUS
  <2>2. ~AnyKey BY <2>1 DEF Plain, AnyKey
  <2>3. (Target = "id" /\ s.id = r.id) \/ (Target = "key" /\ s.key = r.key) BY <2>2 DEF Aimed
  <2>4. CASE Target = "key" /\ s.key = r.key BY <2>4
  <2>5. CASE Target = "id" /\ s.id = r.id
    <3>1. r.id # st.next BY <1>2, <1>3, <2>5
    <3>2. r.id = input[i].id /\ r.id # 0 BY <3>1
    <3>3. input[i].id <= LastOldId BY ElementFacts
    <3> QED BY <2>5, <3>2, <3>3
  <2> QED BY <2>3, <2>4, <2>5
<1>6. Plain => Known(tab, done \cup {i})
  <2>1. SUFFICES ASSUME Plain, NEW t \in tab, t.val # 0
                 PROVE  /\ t.val \in done \cup {i} /\ t.key = input[t.val].key
                        /\ Target = "id" => \/ t.id = input[t.val].id
                                            \/ input[t.val].id = 0 /\ t.id > LastOldId
    BY DEF Known
  <2>2. CASE t = u
    <3>1. u.key = r.key BY <1>5, <2>1
    <3>2. Target = "id" => u.id = input[i].id BY <1>5, <2>1
    <3> QED BY <2>2, <3>1, <3>2
  <2>3. CASE t # u
    <3>1. t \in st.table BY <1>1, <2>1, <2>3
    <3>2. Known(st.table, done) BY <2>1 DEF Good
    <3> QED BY <2>1, <3>1, <3>2 DEF Known
  <2> QED BY <2>2, <2>3
<1>7. Plain /\ call.option # "nothing" => Covered(tab, done \cup {i})
  <2>1. SUFFICES ASSUME Plain, call.option # "nothing", NEW k \in done \cup {i}
                 PROVE  \E j \in done \cup {i} : /\ k = j \/ (j > k /\ SameRow(k, j))
                                                 /\ \E t \in tab : t.val = j
    BY DEF Covered
  <2>2. u \in tab /\ u.val = i BY <1>1
  <2>3. CASE k = i BY <2>2, <2>3
  <2>4. CASE k # i
    <3>1. Covered(st.table, done) /\ Known(st.table, done) /\ k \in done BY <2>1, <2>4 DEF Good
    <3>2. PICK j \in done : (k = j \/ (j > k /\ SameRow(k, j))) /\ \E t \in st.table : t.val = j
      BY <3>1 DEF Covered
    <3>3. PICK t \in st.table : t.val = j BY <3>2
    <3>4. CASE t # s BY <1>1, <3>2, <3>3, <3>4
    <3>5. CASE t = s
      <4>1. j \in Nat \ {0} /\ k \in Nat /\ i \in Nat /\ j < i /\ k < i BY <3>1, ElementFacts
      <4>2. /\ s.key = input[j].key
            /\ Target = "id" => \/ s.id = input[j].id
                                \/ input[j].id = 0 /\ s.id > LastOldId
        BY <3>1, <3>3, <3>5, <4>1 DEF Known
      <4>3. SameRow(j, i)
        <5>1. CASE Target = "key" /\ s.key = r.key BY <4>2, <5>1 DEF SameRow
        <5>2. CASE Target = "id" /\ s.id = input[i].id /\ s.id # 0 /\ s.id <= LastOldId
          <6>1. LastOldId \in Nat BY BatchAssumption DEF BatchAssumption
          <6>2. ~(s.id > LastOldId) BY <1>3, <5>2, <6>1
          <6>3. s.id = input[j].id BY <4>2, <5>2, <6>2
          <6> QED BY <5>2, <6>3 DEF SameRow
        <5> QED BY <1>5, <2>1, <5>1, <5>2
      <4>4. SameRow(k, i) BY <3>2, <4>3, SameRowTransitive
      <4> QED BY <2>2, <4>1, <4>4
    <3> QED BY <3>4, <3>5
  <2> QED BY <2>3, <2>4
<1> QED BY <1>1, <1>4, <1>6, <1>7 DEF Good

LEMMA PutGood ==
  ASSUME BatchTypes, NEW st \in States, NEW done \in SUBSET Elements, NEW i \in Elements,
         \A j \in done : j < i, LastOldId < st.next, Good(st.table, st.next, done),
         st.ok, Put(st, i).ok
  PROVE  /\ Put(st, i) \in States /\ st.next <= Put(st, i).next
         /\ Good(Put(st, i).table, Put(st, i).next, done \cup {i})
         /\ Target = "none" => Put(st, i).count = st.count + 1
<1>0. st.next \in Nat BY DEF States
<1>1. PICK r \in TableRows :
         /\ r.key = input[i].key /\ r.val = i
         /\ \/ r.id = input[i].id /\ r.id # 0 /\ call.op # "saveKey"
            \/ r.id = st.next /\ (input[i].id = 0 \/ call.op = "saveKey")
         /\ \/ Aimed(st.table, r) = {} /\ Clash(st.table, r) = {} /\ Put(st, i) = Insert(st, r)
            \/ Aimed(st.table, r) = {} /\ Clash(st.table, r) # {} /\ ~Put(st, i).ok
            \/ Aimed(st.table, r) # {} /\ call.option = "nothing" /\ Put(st, i) = st
            \/ /\ call.option # "nothing"
               /\ \E s \in Aimed(st.table, r) : Put(st, i) = Update(st, s, r)
  BY PutIs
<1>2. PICK q : q = Put(st, i) OBVIOUS
<1>3. Target = "none" => Aimed(st.table, r) = {} BY DEF Aimed, AnyKey
<1>4. CASE Aimed(st.table, r) = {} /\ Clash(st.table, r) = {} /\ Put(st, i) = Insert(st, r)
  <2>1. /\ q \in States /\ q.table = st.table \cup {r} /\ q.count = st.count + 1
        /\ q.next = IF r.id = st.next THEN st.next + 1 ELSE st.next
    BY <1>2, <1>4, InsertIs
  <2>2. q.next \in Nat BY <2>1 DEF States
  <2>3. Good(st.table \cup {r}, q.next, done \cup {i}) BY <1>1, <1>4, <2>1, <2>2, InsertGood
  <2>4. st.next <= q.next BY <1>0, <2>1
  <2> QED BY <1>2, <2>1, <2>3, <2>4
<1>5. CASE Aimed(st.table, r) # {} /\ call.option = "nothing" /\ Put(st, i) = st
  <2>1. Plain => Known(st.table, done \cup {i}) BY DEF Good, Known
  <2>2. Good(st.table, st.next, done \cup {i}) BY <1>5, <2>1 DEF Good
  <2> QED BY <1>0, <1>3, <1>5, <2>2
<1>6. CASE \E s \in Aimed(st.table, r) : Put(st, i) = Update(st, s, r)
  <2>1. PICK s \in Aimed(st.table, r) : q = Update(st, s, r) BY <1>2, <1>6
  <2>2. s \in st.table BY DEF Aimed
  <2>3. PICK u : u = Updated(s, r) OBVIOUS
  <2>4. /\ u \in TableRows /\ u.id = s.id /\ u.val = r.val
        /\ u.key = IF Target = "id" THEN r.key ELSE s.key
        /\ q \in States
        /\ q.ok <=> ~ \/ Clash(st.table \ {s}, u) # {}
                      \/ call.db = "sqlite3" /\ Clash(st.table, r) # {s}
                      \/ call.db = "postgres" /\ s.id \in st.hit
        /\ q.ok => q.table = (st.table \ {s}) \cup {u} /\ q.next = st.next
    BY <2>1, <2>2, <2>3, UpdateIs
  <2>5. Clash(st.table \ {s}, u) = {} BY <1>2, <2>4
  <2>6. Good((st.table \ {s}) \cup {u}, st.next, done \cup {i}) BY <1>1, <2>4, <2>5, UpdateGood
  <2>7. Target # "none" BY <1>3
  <2>8. q \in States /\ q.table = (st.table \ {s}) \cup {u} /\ q.next = st.next BY <1>2, <2>4
  <2>9. Good(q.table, q.next, done \cup {i}) BY <2>6, <2>8
  <2>10. st.next <= q.next BY <1>0, <2>8
  <2> QED BY <1>2, <2>7, <2>8, <2>9, <2>10
<1> QED BY <1>1, <1>4, <1>5, <1>6

\* A statement that was refused does nothing more.
LEMMA PutStops ==
  ASSUME NEW st, NEW i, ~st.ok
  PROVE  Put(st, i) = st
BY DEF Put

LEMMA BeforeIs ==
  ASSUME BatchTypes, table \in SUBSET TableRows
  PROVE  /\ Before \in States /\ Before.table = table /\ Before.next = nextId
         /\ Before.last = lastId /\ Before.new = 0 /\ Before.count = 0 /\ Before.hit = {}
         /\ Before.ok
BY DEF Before, States, BatchTypes

LEMMA ToSetIs ==
  ASSUME NEW S, NEW g \in Seq(S)
  PROVE  ToSet(g) = {g[k] : k \in 1 .. Len(g)} /\ ToSet(g) \subseteq S
BY SeqFacts DEF ToSet

\* A statement that is accepted leaves a sound table with all its elements.
LEMMA ExecGood ==
  ASSUME BatchTypes, NEW g \in Seq(Nat), NEW done \in SUBSET Elements,
         \A k \in 1 .. Len(g) : g[k] \in Elements,
         \A a, b \in 1 .. Len(g) : a < b => g[a] < g[b],
         \A j \in done : \A k \in 1 .. Len(g) : j < g[k],
         Good(table, nextId, done), Exec(g).ok
  PROVE  /\ Exec(g) \in States /\ nextId <= Exec(g).next
         /\ Good(Exec(g).table, Exec(g).next, done \cup ToSet(g))
         /\ Target = "none" => Cardinality(done \cup ToSet(g)) = Cardinality(done) + Exec(g).count
<1>1. PICK n \in Nat : n = Len(g) BY SeqFacts
<1>2. PICK a : /\ a[0] = Before /\ Exec(g) = a[n]
               /\ \A k \in 0 .. n - 1 : a[k + 1] = Put(a[k], g[k + 1])
  BY <1>1, ExecSteps
<1>3. nextId \in Nat /\ LastOldId \in Nat /\ LastOldId < nextId
  BY BatchAssumption DEF BatchTypes, BatchAssumption
<1> DEFINE upto(k) == done \cup {g[m] : m \in 1 .. k}
           Fine(k) == /\ a[k] \in States /\ nextId <= a[k].next
                      /\ Good(a[k].table, a[k].next, upto(k))
                      /\ Target = "none" =>
                           Cardinality(upto(k)) = Cardinality(done) + a[k].count
<1>4. PICK S : S = {k \in 0 .. n : a[k].ok => Fine(k)} OBVIOUS
<1>5. 0 \in S
  <2>1. upto(0) = done OBVIOUS
  <2>2. table \in SUBSET TableRows BY DEF Good, Sound
  <2>3. a[0] \in States /\ a[0].table = table /\ a[0].next = nextId /\ a[0].count = 0
    BY <1>2, <2>2, BeforeIs
  <2>4. IsFiniteSet(done) BY ElementsFinite
  <2>5. Cardinality(done) \in Nat BY <2>4, FS_CardinalityType
  <2>6. Fine(0)
    <3> HIDE DEF upto
    <3>1. Good(a[0].table, a[0].next, upto(0)) BY <2>1, <2>3
    <3>2. Cardinality(upto(0)) = Cardinality(done) + a[0].count BY <2>1, <2>3, <2>5
    <3>3. nextId <= a[0].next BY <1>3, <2>3
    <3> QED BY <2>3, <3>1, <3>2, <3>3
  <2>7. 0 \in 0 .. n BY <1>1
  <2> HIDE DEF Fine
  <2> QED BY <1>4, <2>6, <2>7
<1>6. ASSUME NEW k \in 0 .. n - 1, k \in S PROVE k + 1 \in S
  <2>1. k \in 0 .. n /\ k + 1 \in 0 .. n /\ k + 1 \in 1 .. n BY <1>1, <1>6
  <2>2. SUFFICES ASSUME a[k + 1].ok PROVE Fine(k + 1) BY <1>4, <2>1
  <2>3. PICK i : i = g[k + 1] OBVIOUS
  <2>4. i \in Elements BY <1>1, <2>1, <2>3
  <2>5. a[k + 1] = Put(a[k], i) BY <1>2, <1>6, <2>3
  <2>6. a[k].ok
    <3>1. ~a[k].ok => a[k + 1] = a[k] BY <2>5, PutStops
    <3> QED BY <2>2, <3>1
  <2>7. Fine(k) BY <1>4, <1>6, <2>6
  <2>8. PICK st \in States : st = a[k] BY <2>7
  <2>9. upto(k) \in SUBSET Elements BY <1>1, <2>1
  <2>10. ASSUME NEW j \in upto(k) PROVE j < i
    <3>1. CASE j \in done BY <1>1, <2>1, <2>3, <3>1
    <3>2. CASE j \notin done
      <4>1. PICK m \in 1 .. k : j = g[m] BY <3>2
      <4>2. m \in 1 .. n /\ m < k + 1 BY <2>1
      <4> QED BY <1>1, <2>1, <2>3, <4>1, <4>2
    <3> QED BY <3>1, <3>2
  <2>11. upto(k + 1) = upto(k) \cup {i}
    <3>1. 1 .. k + 1 = (1 .. k) \cup {k + 1} BY <1>6
    <3> QED BY <2>3, <3>1
  <2>12. i \notin upto(k)
    <3>1. i \in Nat BY <2>4, ElementFacts
    <3> QED BY <2>10, <3>1
  <2>13. PICK u \in SUBSET Elements : u = upto(k) BY <2>9
  <2>14. PICK q : q = Put(st, i) OBVIOUS
  <2>15. st.next \in Nat /\ LastOldId < st.next /\ nextId <= st.next
    <3>1. st.next \in Nat BY DEF States
    <3> QED BY <1>3, <2>7, <2>8, <3>1
  <2>16. Good(st.table, st.next, u) BY <2>7, <2>8, <2>13
  <2>17. \A j \in u : j < i BY <2>10, <2>13
  <2>18. st.ok /\ Put(st, i).ok BY <2>2, <2>5, <2>6, <2>8
  <2>19. /\ q \in States /\ st.next <= q.next /\ Good(q.table, q.next, u \cup {i})
         /\ Target = "none" => q.count = st.count + 1
    BY <2>4, <2>14, <2>15, <2>16, <2>17, <2>18, PutGood
  <2>20. Target = "none" => Cardinality(u \cup {i}) = Cardinality(done) + q.count
    <3>1. IsFiniteSet(u) /\ IsFiniteSet(done) BY ElementsFinite
    <3>2. Cardinality(u) \in Nat /\ Cardinality(done) \in Nat BY <3>1, FS_CardinalityType
    <3>3. Cardinality(u \cup {i}) = Cardinality(u) + 1 BY <2>12, <2>13, <3>1, FS_AddElement
    <3>4. st.count \in Nat BY DEF States
    <3>5. Target = "none" => Cardinality(u) = Cardinality(done) + st.count BY <2>7, <2>8, <2>13
    <3> QED BY <2>19, <3>2, <3>3, <3>4, <3>5
  <2>21. q.next \in Nat BY <2>19 DEF States
  <2>22. a[k + 1] = q BY <2>5, <2>8, <2>14
  <2>23. nextId <= q.next BY <1>3, <2>15, <2>19, <2>21
  <2>24. upto(k + 1) = u \cup {i} BY <2>11, <2>13
  <2> HIDE DEF upto
  <2> QED BY <2>19, <2>20, <2>22, <2>23, <2>24
<1>7. 0 .. n \subseteq S
  <2> HIDE DEF Fine
  <2> QED BY <1>5, <1>6, Steps
<1>8. Fine(n)
  <2>1. n \in S /\ a[n].ok BY <1>1, <1>2, <1>7
  <2> HIDE DEF Fine
  <2> QED BY <1>4, <2>1
<1>9. upto(n) = done \cup ToSet(g) BY <1>1, ToSetIs
<1> HIDE DEF upto
<1> QED BY <1>2, <1>8, <1>9

\* An INSERT that updates nothing adds the row or leaves the table as it is.
LEMMA PutInserts ==
  ASSUME BatchTypes, Inserting, NEW st \in States, NEW i \in Elements, st.ok, Put(st, i).ok
  PROVE  \/ Put(st, i) = st
         \/ \E r \in TableRows :
              /\ Put(st, i) = Insert(st, r) /\ r.val = i
              /\ input[i].id = 0 => r.id = st.next
<1>1. PICK r \in TableRows :
         /\ r.key = input[i].key /\ r.val = i
         /\ \/ r.id = input[i].id /\ r.id # 0 /\ call.op # "saveKey"
            \/ r.id = st.next /\ (input[i].id = 0 \/ call.op = "saveKey")
         /\ \/ Aimed(st.table, r) = {} /\ Clash(st.table, r) = {} /\ Put(st, i) = Insert(st, r)
            \/ Aimed(st.table, r) = {} /\ Clash(st.table, r) # {} /\ ~Put(st, i).ok
            \/ Aimed(st.table, r) # {} /\ call.option = "nothing" /\ Put(st, i) = st
            \/ /\ call.option # "nothing"
               /\ \E s \in Aimed(st.table, r) : Put(st, i) = Update(st, s, r)
  BY PutIs
<1>2. CASE Put(st, i) = Insert(st, r) BY <1>1, <1>2
<1>3. CASE Put(st, i) = st BY <1>3
<1>4. CASE call.option # "nothing" /\ \E s \in Aimed(st.table, r) : Put(st, i) = Update(st, s, r)
  <2>1. call.option \in {"none", "update", "nothing"}
    BY BatchAssumption DEF BatchAssumption, BatchTypes
  <2>2. call.option = "none" /\ call.op = "create" BY <1>4, <2>1 DEF Inserting
  <2>3. Target = "none" BY <2>2 DEF Target
  <2>4. Aimed(st.table, r) = {} BY <2>3 DEF Aimed, AnyKey
  <2> QED BY <1>4, <2>4
<1> QED BY <1>1, <1>2, <1>3, <1>4

\* The keys of an INSERT whose rows were all inserted follow each other, and the
\* last one the connection tells of is the first of them or the last.
LEMMA ExecKeys ==
  ASSUME BatchTypes, Inserting, table \in SUBSET TableRows, NEW g \in Seq(Nat),
         \A k \in 1 .. Len(g) : g[k] \in Elements, Exec(g).ok
  PROVE  /\ Exec(g) \in States /\ table \subseteq Exec(g).table
         /\ Exec(g).count = Len(g) /\ Len(g) > 0 /\ (\A k \in 1 .. Len(g) : input[g[k]].id = 0) =>
              /\ Exec(g).last = IF call.db = "mysql" THEN nextId ELSE nextId + Len(g) - 1
              /\ \A m \in 1 .. Len(g) : \E r \in Exec(g).table :
                   r.id = nextId + m - 1 /\ r.val = g[m]
<1>1. PICK n \in Nat : n = Len(g) BY SeqFacts
<1>2. PICK a : /\ a[0] = Before /\ Exec(g) = a[n]
               /\ \A k \in 0 .. n - 1 : a[k + 1] = Put(a[k], g[k + 1])
  BY <1>1, ExecSteps
<1>3. nextId \in Nat BY DEF BatchTypes
<1> DEFINE zero == \A k \in 1 .. n : input[g[k]].id = 0
           Given(k) == \A m \in 1 .. k : \E r \in a[k].table : r.id = nextId + m - 1 /\ r.val = g[m]
           Grown(k) == /\ a[k] \in States /\ table \subseteq a[k].table
                       /\ a[k].count <= k /\ a[k].new = a[k].count
                       /\ zero => /\ a[k].next = nextId + a[k].count
                                  /\ a[k].count > 0 =>
                                       a[k].last = IF call.db = "mysql" THEN nextId
                                                   ELSE nextId + a[k].count - 1
                                  /\ a[k].count = k => Given(k)
<1>4. PICK S : S = {k \in 0 .. n : a[k].ok => Grown(k)} OBVIOUS
<1>5. 0 \in S
  <2>1. /\ a[0] \in States /\ a[0].table = table /\ a[0].next = nextId /\ a[0].count = 0
        /\ a[0].new = 0
    BY <1>2, BeforeIs
  <2>2. Grown(0) BY <1>3, <2>1
  <2>3. 0 \in 0 .. n BY <1>1
  <2> HIDE DEF Grown
  <2> QED BY <1>4, <2>2, <2>3
<1>6. ASSUME NEW k \in 0 .. n - 1, k \in S PROVE k + 1 \in S
  <2>1. k \in 0 .. n /\ k + 1 \in 0 .. n /\ k + 1 \in 1 .. n BY <1>1, <1>6
  <2>2. SUFFICES ASSUME a[k + 1].ok PROVE Grown(k + 1)
    <3> HIDE DEF Grown
    <3> QED BY <1>4, <2>1
  <2>3. PICK i : i = g[k + 1] OBVIOUS
  <2>4. i \in Elements BY <1>1, <2>1, <2>3
  <2>5. a[k + 1] = Put(a[k], i) BY <1>2, <1>6, <2>3
  <2>6. a[k].ok
    <3>1. ~a[k].ok => a[k + 1] = a[k] BY <2>5, PutStops
    <3> QED BY <2>2, <3>1
  <2>7. Grown(k)
    <3> HIDE DEF Grown
    <3> QED BY <1>4, <1>6, <2>6
  <2>8. PICK st \in States : st = a[k] BY <2>7
  <2>9. st.count \in Nat /\ st.new \in Nat /\ st.count <= k /\ st.new = st.count BY <2>7, <2>8 DEF States
  <2>10. st.ok /\ Put(st, i).ok BY <2>2, <2>5, <2>6, <2>8
  <2>11. CASE Put(st, i) = st
    <3>1. a[k + 1] = st BY <2>5, <2>8, <2>11
    <3>2. st.count # k + 1 /\ st.count <= k + 1 BY <2>1, <2>9
    <3>3. a[k + 1].count # k + 1 BY <3>1, <3>2
    <3>4. /\ a[k + 1] \in States /\ table \subseteq a[k + 1].table
          /\ a[k + 1].count <= k + 1 /\ a[k + 1].new = a[k + 1].count
      BY <2>7, <2>8, <3>1, <3>2
    <3>5. zero => /\ a[k + 1].next = nextId + a[k + 1].count
                  /\ a[k + 1].count > 0 =>
                       a[k + 1].last = IF call.db = "mysql" THEN nextId
                                       ELSE nextId + a[k + 1].count - 1
      BY <2>7, <2>8, <3>1
    <3> QED BY <3>3, <3>4, <3>5
  <2>12. CASE \E r \in TableRows : /\ Put(st, i) = Insert(st, r) /\ r.val = i
                                   /\ input[i].id = 0 => r.id = st.next
    <3>1. PICK r \in TableRows : /\ Put(st, i) = Insert(st, r) /\ r.val = i
                                 /\ input[i].id = 0 => r.id = st.next
      BY <2>12
    <3>2. PICK q : q = a[k + 1] OBVIOUS
    <3>3. /\ q \in States /\ q.table = st.table \cup {r}
          /\ q.new = st.new + 1 /\ q.count = st.count + 1
          /\ q.next = IF r.id = st.next THEN st.next + 1 ELSE st.next
          /\ q.last = IF call.db = "mysql" /\ st.new > 0 THEN st.last ELSE r.id
      BY <2>5, <2>8, <3>1, <3>2, InsertIs
    <3>4. zero => r.id = st.next BY <2>1, <2>3, <3>1
    <3>5. zero => st.next = nextId + st.count BY <2>7, <2>8
    <3>6. zero /\ st.count > 0 => st.last = IF call.db = "mysql" THEN nextId
                                            ELSE nextId + st.count - 1
      BY <2>7, <2>8
    <3>7. zero => q.next = nextId + q.count BY <1>3, <2>9, <3>3, <3>4, <3>5
    <3>8. ASSUME zero PROVE q.last = IF call.db = "mysql" THEN nextId ELSE nextId + q.count - 1
      <4>1. CASE call.db = "mysql" /\ st.new > 0 BY <2>9, <3>3, <3>6, <3>8, <4>1
      <4>2. CASE ~(call.db = "mysql" /\ st.new > 0)
        <5>1. q.last = nextId + st.count BY <3>3, <3>4, <3>5, <3>8, <4>2
        <5>2. call.db = "mysql" => st.count = 0 BY <2>9, <4>2
        <5> QED BY <1>3, <2>9, <3>3, <5>1, <5>2
      <4> QED BY <4>1, <4>2
    <3>9. ASSUME zero, q.count = k + 1, NEW m \in 1 .. k + 1
          PROVE  \E x \in q.table : x.id = nextId + m - 1 /\ x.val = g[m]
      <4>1. st.count = k BY <2>1, <2>9, <3>3, <3>9
      <4>2. CASE m = k + 1
        <5>1. r.id = nextId + m - 1 BY <1>3, <2>1, <3>4, <3>5, <3>9, <4>1, <4>2
        <5>2. r.val = g[m] BY <2>3, <3>1, <4>2
        <5> QED BY <3>3, <5>1, <5>2
      <4>3. CASE m # k + 1
        <5>1. m \in 1 .. k BY <4>3
        <5>2. Given(k) BY <2>7, <2>8, <3>9, <4>1
        <5>3. PICK x \in st.table : x.id = nextId + m - 1 /\ x.val = g[m] BY <2>8, <5>1, <5>2
        <5> QED BY <3>3, <5>3
      <4> QED BY <4>2, <4>3
    <3>10. zero /\ q.count = k + 1 => Given(k + 1) BY <3>2, <3>9
    <3>11. table \subseteq q.table BY <2>7, <2>8, <3>3
    <3>12. q.count <= k + 1 /\ q.new = q.count BY <2>1, <2>9, <3>3
    <3> HIDE DEF Given, zero
    <3> QED BY <3>2, <3>3, <3>7, <3>8, <3>10, <3>11, <3>12
  <2> HIDE DEF Grown
  <2> QED BY <2>4, <2>10, <2>11, <2>12, PutInserts
<1>7. 0 .. n \subseteq S
  <2> HIDE DEF Grown
  <2> QED BY <1>5, <1>6, Steps
<1>8. Grown(n)
  <2>1. n \in S /\ a[n].ok BY <1>1, <1>2, <1>7
  <2> HIDE DEF Grown
  <2> QED BY <1>4, <2>1
<1>9. PICK q : q = Exec(g) OBVIOUS
<1>10. q = a[n] BY <1>2, <1>9
<1>11. q \in States /\ table \subseteq q.table BY <1>8, <1>10
<1>12. zero /\ q.count = n /\ n > 0 => q.last = IF call.db = "mysql" THEN nextId ELSE nextId + n - 1
  BY <1>8, <1>10
<1>13. zero /\ q.count = n => \A m \in 1 .. n : \E r \in q.table : r.id = nextId + m - 1 /\ r.val = g[m]
  BY <1>8, <1>10
<1> QED BY <1>1, <1>9, <1>11, <1>12, <1>13

\* A save by the unique column: what a row of the statement may run into.
LEMMA PutSaves ==
  ASSUME BatchTypes, call.op = "saveKey", NEW st \in States, NEW i \in Elements,
         LastOldId < st.next, Sound(st.table, st.next), st.ok
  PROVE  LET q == Put(st, i) IN
         /\ q \in States
         /\ q.ok => /\ Sound(q.table, q.next) /\ st.next <= q.next
                    /\ \A s \in st.table : \E t \in q.table : t.id = s.id /\ t.key = s.key
                    /\ \A h \in q.hit : \/ h \in st.hit
                                        \/ \E t \in q.table : t.id = h /\ t.key = input[i].key
         /\ ~q.ok => /\ call.db = "postgres"
                     /\ \E s \in st.table : s.id \in st.hit /\ s.key = input[i].key
<1>0. /\ st.next \in Nat /\ st.table \in SUBSET TableRows /\ Unique(st.table)
      /\ \A s \in st.table : s.id < st.next /\ s.id \in Nat
  BY DEF States, Sound, TableRows
<1>1. PICK r \in TableRows :
         /\ r.key = input[i].key /\ r.val = i
         /\ \/ r.id = input[i].id /\ r.id # 0 /\ call.op # "saveKey"
            \/ r.id = st.next /\ (input[i].id = 0 \/ call.op = "saveKey")
         /\ \/ Aimed(st.table, r) = {} /\ Clash(st.table, r) = {} /\ Put(st, i) = Insert(st, r)
            \/ Aimed(st.table, r) = {} /\ Clash(st.table, r) # {} /\ ~Put(st, i).ok
            \/ Aimed(st.table, r) # {} /\ call.option = "nothing" /\ Put(st, i) = st
            \/ /\ call.option # "nothing"
               /\ \E s \in Aimed(st.table, r) : Put(st, i) = Update(st, s, r)
  BY PutIs
<1>2. PICK q : q = Put(st, i) OBVIOUS
<1>3. Target = "key" BY DEF Target
\* The key is generated, so no row has it yet.
<1>4. r.id = st.next /\ \A s \in st.table : s.id # r.id BY <1>0, <1>1
<1>5. \A s \in st.table : s \in Aimed(st.table, r) <=> s.key = r.key BY <1>3, <1>4 DEF Aimed
<1>6. \A s \in st.table : s \in Clash(st.table, r) <=> s.key = r.key BY <1>4 DEF Clash
<1>7. Aimed(st.table, r) \subseteq st.table /\ Clash(st.table, r) \subseteq st.table
  BY DEF Aimed, Clash
<1>8. CASE Aimed(st.table, r) = {} /\ Clash(st.table, r) = {} /\ Put(st, i) = Insert(st, r)
  <2>1. /\ q \in States /\ q.table = st.table \cup {r} /\ q.ok = st.ok
        /\ q.next = IF r.id = st.next THEN st.next + 1 ELSE st.next
        /\ q.hit = st.hit \cup {r.id}
    <3>1. q = Insert(st, r) BY <1>2, <1>8
    <3>2. /\ Insert(st, r) \in States
          /\ Insert(st, r).table = st.table \cup {r} /\ Insert(st, r).ok = st.ok
          /\ Insert(st, r).new = st.new + 1 /\ Insert(st, r).count = st.count + 1
          /\ Insert(st, r).next = IF r.id = st.next THEN st.next + 1 ELSE st.next
          /\ Insert(st, r).hit = st.hit \cup {r.id}
      BY InsertIs
    <3> QED BY <3>1, <3>2
  <2>2. q.next \in Nat /\ st.next <= q.next BY <1>0, <2>1
  <2>3. Sound(st.table \cup {r}, q.next) BY <1>4, <1>8, <2>1, <2>2, InsertSound
  <2>4. \A s \in st.table : \E t \in q.table : t.id = s.id /\ t.key = s.key BY <2>1
  <2>5. \A h \in q.hit : \/ h \in st.hit
                         \/ \E t \in q.table : t.id = h /\ t.key = input[i].key
    BY <1>1, <2>1
  <2> QED BY <1>2, <2>1, <2>2, <2>3, <2>4, <2>5
<1>9. CASE Aimed(st.table, r) = {} /\ Clash(st.table, r) # {}
  BY <1>5, <1>6, <1>7, <1>9
<1>10. CASE Put(st, i) = st
  <2>1. st.next <= st.next BY <1>0
  <2> QED BY <1>10, <2>1
<1>11. CASE \E s \in Aimed(st.table, r) : Put(st, i) = Update(st, s, r)
  <2>1. PICK s \in Aimed(st.table, r) : q = Update(st, s, r) BY <1>2, <1>11
  <2>2. s \in st.table /\ s.key = r.key BY <1>5, <1>7
  <2>3. PICK u : u = Updated(s, r) OBVIOUS
  <2>4. /\ u \in TableRows /\ u.id = s.id
        /\ u.key = IF Target = "id" THEN r.key ELSE s.key
        /\ q \in States
        /\ q.ok <=> ~ \/ Clash(st.table \ {s}, u) # {}
                      \/ call.db = "sqlite3" /\ Clash(st.table, r) # {s}
                      \/ call.db = "postgres" /\ s.id \in st.hit
        /\ q.ok => /\ q.table = (st.table \ {s}) \cup {u} /\ q.next = st.next
                   /\ q.hit = st.hit \cup {s.id}
    <3>1. PICK p : p = Update(st, s, r) OBVIOUS
    <3>2. p = q BY <2>1, <3>1
    <3>3. /\ u \in TableRows /\ u.id = s.id /\ u.val = r.val
          /\ u.key = IF Target = "id" THEN r.key ELSE s.key
          /\ p \in States
          /\ p.ok <=> ~ \/ Clash(st.table \ {s}, u) # {}
                        \/ call.db = "sqlite3" /\ Clash(st.table, r) # {s}
                        \/ call.db = "postgres" /\ s.id \in st.hit
          /\ p.ok => /\ p.table = (st.table \ {s}) \cup {u} /\ p.next = st.next
                     /\ p.hit = st.hit \cup {s.id}
                     /\ p.last = st.last /\ p.new = st.new
      BY <2>2, <2>3, <3>1, UpdateIs
    <3> QED BY <3>2, <3>3
  <2>5. u.id = s.id /\ u.key = s.key BY <1>3, <2>4
  <2>6. Clash(st.table \ {s}, u) = {}
    <3>1. \A t \in st.table \ {s} : t.id # s.id /\ t.key # s.key BY <1>0, <2>2 DEF Unique
    <3> QED BY <2>5, <3>1 DEF Clash
  <2>7. Clash(st.table, r) = {s}
    <3>1. \A t \in st.table : t.key = r.key => t = s BY <1>0, <2>2 DEF Unique
    <3> QED BY <1>6, <1>7, <2>2, <3>1
  <2>8. q.ok <=> ~(call.db = "postgres" /\ s.id \in st.hit) BY <2>4, <2>6, <2>7
  <2>9. CASE q.ok
    <3>1. q.table = (st.table \ {s}) \cup {u} /\ q.next = st.next /\ q.hit = st.hit \cup {s.id}
      BY <2>4, <2>9
    <3>2. Sound((st.table \ {s}) \cup {u}, st.next) BY <2>2, <2>4, <2>6, UpdateSound
    <3>3. st.next <= q.next BY <1>0, <3>1
    <3>4. \A x \in st.table : \E t \in q.table : t.id = x.id /\ t.key = x.key BY <2>5, <3>1
    <3>5. \A h \in q.hit : \/ h \in st.hit
                           \/ \E t \in q.table : t.id = h /\ t.key = input[i].key
      BY <1>1, <2>2, <2>5, <3>1
    <3> QED BY <1>2, <2>4, <2>9, <3>1, <3>2, <3>3, <3>4, <3>5
  <2>10. CASE ~q.ok
    <3>1. call.db = "postgres" /\ s.id \in st.hit BY <2>8, <2>10
    <3> QED BY <1>1, <1>2, <2>2, <2>4, <2>10, <3>1
  <2> QED BY <2>9, <2>10
<1> QED BY <1>1, <1>8, <1>9, <1>10, <1>11

\* A save by the unique column is refused by PostgreSQL only, and then because
\* two elements of it have the same key.
LEMMA ExecSaves ==
  ASSUME BatchTypes, call.op = "saveKey", Sound(table, nextId), NEW g \in Seq(Nat),
         \A k \in 1 .. Len(g) : g[k] \in Elements,
         \A a, b \in 1 .. Len(g) : a < b => g[a] < g[b], ~Exec(g).ok
  PROVE  call.db = "postgres" /\ \E i, j \in Elements : i # j /\ SameRow(i, j)
<1>1. PICK n \in Nat : n = Len(g) BY SeqFacts
<1>2. PICK a : /\ a[0] = Before /\ Exec(g) = a[n]
               /\ \A k \in 0 .. n - 1 : a[k + 1] = Put(a[k], g[k + 1])
  BY <1>1, ExecSteps
<1>3. nextId \in Nat /\ LastOldId \in Nat /\ LastOldId < nextId
  BY BatchAssumption DEF BatchTypes, BatchAssumption
<1> DEFINE Twice == call.db = "postgres" /\ \E i, j \in Elements : i # j /\ SameRow(i, j)
           Hits(k) == \A h \in a[k].hit : \E m \in 1 .. k : \E s \in a[k].table :
                        s.id = h /\ s.key = input[g[m]].key
           Fine(k) == /\ a[k] \in States /\ a[k].ok /\ Sound(a[k].table, a[k].next)
                      /\ LastOldId < a[k].next /\ Hits(k)
<1>4. PICK S : S = {k \in 0 .. n : Fine(k) \/ Twice} OBVIOUS
<1>5. 0 \in S
  <2>1. table \in SUBSET TableRows BY DEF Sound
  <2>2. /\ a[0] \in States /\ a[0].table = table /\ a[0].next = nextId /\ a[0].hit = {} /\ a[0].ok
    BY <1>2, <2>1, BeforeIs
  <2>3. Fine(0) BY <1>3, <2>2
  <2>4. 0 \in 0 .. n BY <1>1
  <2> HIDE DEF Fine, Twice
  <2> QED BY <1>4, <2>3, <2>4
<1>6. ASSUME NEW k \in 0 .. n - 1, k \in S PROVE k + 1 \in S
  <2>1. k \in 0 .. n /\ k + 1 \in 0 .. n /\ k + 1 \in 1 .. n BY <1>1, <1>6
  <2>2. SUFFICES ASSUME ~Twice PROVE Fine(k + 1)
    <3> HIDE DEF Fine, Twice
    <3> QED BY <1>4, <2>1
  <2>3. Fine(k)
    <3> HIDE DEF Fine, Twice
    <3> QED BY <1>4, <1>6, <2>2
  <2>4. PICK i : i = g[k + 1] OBVIOUS
  <2>5. i \in Elements BY <1>1, <2>1, <2>4
  <2>6. PICK st \in States : st = a[k] BY <2>3
  <2>7. PICK q : q = Put(st, i) OBVIOUS
  <2>8. a[k + 1] = q BY <1>2, <1>6, <2>4, <2>6, <2>7
  <2>9. LastOldId < st.next /\ Sound(st.table, st.next) /\ st.ok /\ st.next \in Nat
    <3>1. st.next \in Nat BY DEF States
    <3> QED BY <2>3, <2>6, <3>1
  <2>10. /\ q \in States
         /\ q.ok => /\ Sound(q.table, q.next) /\ st.next <= q.next
                    /\ \A s \in st.table : \E t \in q.table : t.id = s.id /\ t.key = s.key
                    /\ \A h \in q.hit : \/ h \in st.hit
                                        \/ \E t \in q.table : t.id = h /\ t.key = input[i].key
         /\ ~q.ok => /\ call.db = "postgres"
                     /\ \E s \in st.table : s.id \in st.hit /\ s.key = input[i].key
    BY <2>5, <2>7, <2>9, PutSaves
  <2>11. q.ok
    <3>1. SUFFICES ASSUME ~q.ok PROVE FALSE OBVIOUS
    <3>2. PICK s \in st.table : s.id \in st.hit /\ s.key = input[i].key BY <2>10, <3>1
    <3>3. PICK m \in 1 .. k : \E t \in st.table : t.id = s.id /\ t.key = input[g[m]].key
      BY <2>3, <2>6, <3>2
    <3>4. s.key = input[g[m]].key BY <2>9, <3>2, <3>3 DEF Sound, Unique
    <3>5. m \in 1 .. n /\ m < k + 1 BY <2>1
    <3>6. g[m] \in Elements /\ g[m] < i BY <1>1, <2>1, <2>4, <3>5
    <3>7. g[m] # i
      <4>1. i \in Nat BY <2>5, ElementFacts
      <4> QED BY <3>6, <4>1
    <3>8. SameRow(g[m], i) BY <3>2, <3>4 DEF SameRow, Target
    <3>9. Twice BY <2>5, <2>10, <3>1, <3>6, <3>7, <3>8
    <3> QED BY <2>2, <3>9
  <2>12. LastOldId < q.next
    <3>1. q.next \in Nat BY <2>10 DEF States
    <3> QED BY <1>3, <2>9, <2>10, <2>11, <3>1
  <2>13. ASSUME NEW h \in q.hit
         PROVE  \E m \in 1 .. k + 1 : \E s \in q.table : s.id = h /\ s.key = input[g[m]].key
    <3>1. CASE h \in st.hit
      <4>1. PICK m \in 1 .. k : \E s \in st.table : s.id = h /\ s.key = input[g[m]].key
        BY <2>3, <2>6, <3>1
      <4>2. \E s \in q.table : s.id = h /\ s.key = input[g[m]].key BY <2>10, <2>11, <4>1
      <4>3. m \in 1 .. k + 1 BY <2>1
      <4> QED BY <4>2, <4>3
    <3>2. CASE \E t \in q.table : t.id = h /\ t.key = input[i].key
      <4>1. k + 1 \in 1 .. k + 1 BY <2>1
      <4> QED BY <2>4, <3>2, <4>1
    <3> QED BY <2>10, <2>11, <2>13, <3>1, <3>2
  <2>14. Hits(k + 1) BY <2>8, <2>13
  <2> HIDE DEF Hits
  <2> QED BY <2>8, <2>10, <2>11, <2>12, <2>14
<1>7. 0 .. n \subseteq S
  <2> HIDE DEF Fine, Twice
  <2> QED BY <1>5, <1>6, Steps
<1>8. Fine(n) \/ Twice
  <2>1. n \in S BY <1>1, <1>7
  <2> HIDE DEF Fine, Twice
  <2> QED BY <1>4, <2>1
<1> QED BY <1>2, <1>8

-----------------------------------------------------------------------------
(* The statement of a group.                                                *)

LEMMA ExecuteRows ==
  ASSUME BatchTypes, LoopPlaces, Execute
  PROVE  /\ pc = "execute" /\ rows # <<>> /\ Len(rows) \in Nat
         /\ \E n \in 1 .. Len(rows) :
              /\ Statement \in Seq(Nat) /\ Len(Statement) = n
              /\ \A k \in 1 .. n : Statement[k] = rows[k] /\ Statement[k] \in Chunk
              /\ \A a, b \in 1 .. n : a < b => Statement[a] < Statement[b]
              /\ \A i \in Done : \A k \in 1 .. n : i < Statement[k]
              /\ rows' \in Seq(Nat) /\ Len(rows') = Len(rows) - n
              /\ \A k \in 1 .. Len(rows) - n : rows'[k] = rows[n + k]
              /\ call.op # "onConflict" =>
                   /\ call.db = "dm" => n = 1
                   /\ \A k \in 1 .. n : Columns(input[rows[1]]) = Columns(input[rows[k]])
<1>1. pc = "execute" /\ rows' = SubSeq(rows, Len(Statement) + 1, Len(rows)) BY DEF Execute
<1>2. rows # <<>>
  <2>1. Statement # <<>> BY DEF Execute, IsComplete
  <2>2. CASE call.op = "onConflict" BY <2>1, <2>2 DEF Statement
  <2>3. CASE call.op # "onConflict" BY <2>3 DEF Execute
  <2> QED BY <2>2, <2>3
<1>3. PICK L \in Nat : L = Len(rows) BY SeqFacts DEF BatchTypes
<1>4. PICK n \in 1 .. L :
         /\ Statement = SubSeq(rows, 1, n) /\ Statement \in Seq(Nat)
         /\ Len(Statement) = n /\ DOMAIN Statement = 1 .. n
         /\ \A k \in 1 .. n : Statement[k] = rows[k]
         /\ call.op # "onConflict" =>
              /\ call.db = "dm" => n = 1
              /\ \A k \in 1 .. n : Columns(input[rows[1]]) = Columns(input[rows[k]])
  BY <1>2, <1>3, StatementFacts
<1>5. rows \in Seq(Nat) /\ n \in Nat /\ n <= L /\ DOMAIN rows = 1 .. L
  BY <1>3, SeqFacts DEF BatchTypes
<1>6. /\ \A k \in 1 .. L : rows[k] \in Chunk
      /\ \A a, b \in 1 .. L : a < b => rows[a] < rows[b]
      /\ \A i \in Chunk : i \notin ToSet(rows) => \A k \in 1 .. L : i < rows[k]
  BY <1>1, <1>5 DEF LoopPlaces
<1>7. \A k \in 1 .. n : k \in 1 .. L BY <1>5
<1>8. \A k \in 1 .. n : Statement[k] = rows[k] /\ Statement[k] \in Chunk BY <1>4, <1>6, <1>7
<1>9. \A a, b \in 1 .. n : a < b => Statement[a] < Statement[b] BY <1>4, <1>6, <1>7
<1>10. ASSUME NEW i \in Done, NEW k \in 1 .. n PROVE i < Statement[k]
  <2>1. rows[k] \in Chunk /\ Statement[k] = rows[k] BY <1>7, <1>8
  <2>2. CASE i < start
    <3>1. i \in Elements /\ rows[k] \in Elements BY <2>1 DEF Done, Chunk
    <3>2. i \in Nat /\ rows[k] \in Nat BY <3>1, ElementFacts
    <3>3. start \in Nat /\ start <= rows[k]
      <4>1. rows[k] \in start .. start + call.size - 1 BY <2>1 DEF Chunk
      <4>2. start \in Nat BY DEF BatchTypes
      <4> QED BY <4>1, <4>2
    <3> QED BY <2>1, <2>2, <3>2, <3>3
  <2>3. CASE ~(i < start)
    <3>1. i \in Chunk /\ i \notin ToSet(rows) BY <2>3 DEF Done
    <3> QED BY <1>6, <1>7, <2>1, <3>1
  <2> QED BY <2>2, <2>3
<1>11. /\ rows' \in Seq(Nat) /\ Len(rows') = L - n
       /\ \A k \in 1 .. L - n : rows'[k] = rows[n + k]
  <2>1. PICK t : t = rows' OBVIOUS
  <2>2. t = SubSeq(rows, n + 1, L) BY <1>1, <1>3, <1>4, <2>1
  <2>3. /\ SubSeq(rows, n + 1, Len(rows)) \in Seq(Nat)
        /\ Len(SubSeq(rows, n + 1, Len(rows))) = Len(rows) - n
        /\ \A k \in 1 .. Len(rows) - n : SubSeq(rows, n + 1, Len(rows))[k] = rows[n + k]
    BY <1>3, <1>5, SubSeqFacts
  <2> QED BY <1>3, <2>1, <2>2, <2>3
<1> QED BY <1>1, <1>2, <1>3, <1>4, <1>8, <1>9, <1>10, <1>11

LEMMA ExecuteDone ==
  ASSUME BatchTypes, LoopPlaces, Execute
  PROVE  Done' = Done \cup ToSet(Statement)
<1>1. PICK L \in Nat : L = Len(rows) BY SeqFacts DEF BatchTypes
<1>2. PICK n \in 1 .. L :
         /\ Statement \in Seq(Nat) /\ Len(Statement) = n
         /\ \A k \in 1 .. n : Statement[k] = rows[k] /\ Statement[k] \in Chunk
         /\ rows' \in Seq(Nat) /\ Len(rows') = L - n
         /\ \A k \in 1 .. L - n : rows'[k] = rows[n + k]
  BY <1>1, ExecuteRows
<1>3. /\ pc = "execute" /\ pc' = "after" /\ UNCHANGED <<call, input, start>>
      /\ Elements' = Elements /\ Chunk' = Chunk
  BY DEF Execute, Elements, Chunk, callVars
<1>4. PICK t : t = rows' OBVIOUS
<1>5. /\ ToSet(rows) = {rows[k] : k \in 1 .. L}
      /\ ToSet(t) = {t[k] : k \in 1 .. L - n}
      /\ ToSet(Statement) = {Statement[k] : k \in 1 .. n}
  <2>1. rows \in Seq(Nat) BY DEF BatchTypes
  <2>2. t \in Seq(Nat) /\ Len(t) = L - n BY <1>2, <1>4
  <2>3. ToSet(rows) = {rows[k] : k \in 1 .. Len(rows)} BY <2>1, ToSetIs
  <2>4. ToSet(t) = {t[k] : k \in 1 .. Len(t)} BY <2>2, ToSetIs
  <2>5. ToSet(Statement) = {Statement[k] : k \in 1 .. Len(Statement)} BY <1>2, ToSetIs
  <2> QED BY <1>1, <1>2, <2>2, <2>3, <2>4, <2>5
<1>6. \A a, b \in 1 .. L : a < b => rows[a] < rows[b] /\ rows[a] \in Nat /\ rows[b] \in Nat
  <2>1. rows \in Seq(Nat) /\ DOMAIN rows = 1 .. L /\ \A k \in 1 .. L : rows[k] \in Nat
    BY <1>1, SeqFacts DEF BatchTypes
  <2> QED BY <1>3, <2>1 DEF LoopPlaces
<1>7. ToSet(rows) = ToSet(Statement) \cup ToSet(t)
  <2>1. ASSUME NEW k \in 1 .. L PROVE rows[k] \in ToSet(Statement) \cup ToSet(t)
    <3>1. CASE k <= n
      <4>1. k \in 1 .. n BY <3>1
      <4> QED BY <1>2, <1>5, <4>1
    <3>2. CASE ~(k <= n)
      <4>1. k - n \in 1 .. L - n /\ n + (k - n) = k BY <3>2
      <4>2. t[k - n] = rows[k] BY <1>2, <1>4, <4>1
      <4> QED BY <1>5, <4>1, <4>2
    <3> QED BY <3>1, <3>2
  <2>2. ASSUME NEW k \in 1 .. n PROVE Statement[k] \in ToSet(rows)
    <3>1. k \in 1 .. L OBVIOUS
    <3> QED BY <1>2, <1>5, <3>1
  <2>3. ASSUME NEW k \in 1 .. L - n PROVE t[k] \in ToSet(rows)
    <3>1. n + k \in 1 .. L /\ t[k] = rows[n + k] BY <1>2, <1>4
    <3> QED BY <1>5, <3>1
  <2> QED BY <1>5, <2>1, <2>2, <2>3
<1>8. ASSUME NEW x \in ToSet(Statement), x \in ToSet(t) PROVE FALSE
  <2>1. PICK a \in 1 .. n : x = rows[a] BY <1>2, <1>5
  <2>2. PICK k \in 1 .. L - n : x = t[k] BY <1>5, <1>8
  <2>3. n + k \in 1 .. L /\ a \in 1 .. L /\ a < n + k /\ x = rows[n + k]
    <3>1. n + k \in 1 .. L /\ a \in 1 .. L /\ a < n + k OBVIOUS
    <3>2. t[k] = rows[n + k] BY <1>2, <1>4
    <3> QED BY <2>2, <3>1, <3>2
  <2>4. rows[a] < rows[n + k] /\ rows[a] \in Nat BY <1>6, <2>3
  <2> QED BY <2>1, <2>3, <2>4
<1>9. \A x \in ToSet(Statement) : x \in Chunk /\ x \in Elements
  <2>1. \A x \in ToSet(Statement) : x \in Chunk BY <1>2, <1>5
  <2> QED BY <2>1 DEF Chunk
<1>10. Done' = {i \in Elements : i < start \/ (i \in Chunk /\ i \notin ToSet(t))}
  <2>1. Done' = {i \in Elements' : \/ i < start'
                                   \/ pc' \in {"execute", "after"} /\ i \in Chunk' /\ i \notin ToSet(rows')}
    BY DEF Done
  <2> QED BY <1>3, <1>4, <2>1
<1>11. Done = {i \in Elements : i < start \/ (i \in Chunk /\ i \notin ToSet(rows))}
  BY <1>3 DEF Done
<1> QED BY <1>7, <1>8, <1>9, <1>10, <1>11

LEMMA DoneElements == Done \subseteq Elements
BY DEF Done

LEMMA ExecuteWrites ==
  ASSUME BatchTypes, LoopPlaces, TableHolds, Execute
  PROVE  \E st \in States :
           /\ st = Exec(Statement) /\ st.ok /\ nextId <= st.next
           /\ Good(st.table, st.next, Done')
           /\ Target = "none" => Cardinality(Done') = Cardinality(Done) + st.count
<1>1. PICK n \in 1 .. Len(rows) :
         /\ Statement \in Seq(Nat) /\ Len(Statement) = n
         /\ \A k \in 1 .. n : Statement[k] = rows[k] /\ Statement[k] \in Chunk
         /\ \A a, b \in 1 .. n : a < b => Statement[a] < Statement[b]
         /\ \A i \in Done : \A k \in 1 .. n : i < Statement[k]
  BY ExecuteRows
<1>2. PICK g : g = Statement OBVIOUS
<1>3. PICK done : done = Done OBVIOUS
<1>4. g \in Seq(Nat) /\ done \in SUBSET Elements BY <1>1, <1>2, <1>3, DoneElements
<1>5. /\ \A k \in 1 .. Len(g) : g[k] \in Elements
      /\ \A a, b \in 1 .. Len(g) : a < b => g[a] < g[b]
      /\ \A j \in done : \A k \in 1 .. Len(g) : j < g[k]
  BY <1>1, <1>2, <1>3 DEF Chunk
<1>6. Exec(g).ok BY <1>2 DEF Execute
<1>7. Good(table, nextId, done) BY <1>3 DEF TableHolds, Holding, Execute
<1>8. /\ Exec(g) \in States /\ nextId <= Exec(g).next
      /\ Good(Exec(g).table, Exec(g).next, done \cup ToSet(g))
      /\ Target = "none" => Cardinality(done \cup ToSet(g)) = Cardinality(done) + Exec(g).count
  BY <1>4, <1>5, <1>6, <1>7, ExecGood
<1>9. PICK st : st = Exec(g) OBVIOUS
<1>10. Done' = done \cup ToSet(g) BY <1>2, <1>3, ExecuteDone
<1>11. PICK after : after = Done' OBVIOUS
<1>12. Good(st.table, st.next, after) BY <1>8, <1>9, <1>10, <1>11
<1>13. Target = "none" => Cardinality(after) = Cardinality(done) + st.count
  BY <1>8, <1>9, <1>10, <1>11
<1> QED BY <1>2, <1>3, <1>6, <1>8, <1>9, <1>11, <1>12, <1>13

\* The keys that go into the structs are numbers of the generator.
LEMMA AssignedFacts ==
  ASSUME ids \in [DOMAIN input -> Nat], NEW st \in States, NEW g \in Seq(Nat)
  PROVE  Assigned(g, st) \in [DOMAIN input -> Nat]
<1>1. PICK n \in Nat : n = Len(g) /\ DOMAIN g = 1 .. n BY SeqFacts
<1>2. st.last \in Nat BY DEF States
<1>3. PICK first : first = IF call.db = "sqlite3" THEN st.last - (Len(g) - 1) ELSE st.last
  OBVIOUS
<1>4. first \in Int BY <1>1, <1>2, <1>3
<1>5. CASE \/ call.op # "create" \/ st.count # Len(g)
           \/ input[g[1]].id # 0 \/ call.db = "postgres" \/ first <= 0
  BY <1>3, <1>5 DEF Assigned
<1>6. CASE ~ \/ call.op # "create" \/ st.count # Len(g)
             \/ input[g[1]].id # 0 \/ call.db = "postgres" \/ first <= 0
  <2>1. PICK f : f = Assigned(g, st) OBVIOUS
  <2>2. f = [i \in DOMAIN ids |->
               IF \E k \in DOMAIN g : g[k] = i /\ ids[i] = 0
               THEN first + (CHOOSE k \in DOMAIN g : g[k] = i) - 1 ELSE ids[i]]
    BY <1>3, <1>6, <2>1 DEF Assigned
  <2>3. DOMAIN ids = DOMAIN input OBVIOUS
  <2>4. ASSUME NEW i \in DOMAIN input PROVE f[i] \in Nat
    <3>1. CASE \E k \in DOMAIN g : g[k] = i /\ ids[i] = 0
      <4>1. \E k \in DOMAIN g : g[k] = i BY <3>1
      <4>2. PICK m \in DOMAIN g : m = CHOOSE k \in DOMAIN g : g[k] = i BY <4>1
      <4>3. f[i] = first + m - 1 BY <2>2, <2>3, <2>4, <3>1, <4>2
      <4>4. m \in 1 .. n BY <1>1
      <4>5. first > 0
        <5>1. ~(first <= 0) BY <1>6
        <5> QED BY <1>4, <5>1
      <4> QED BY <1>4, <4>3, <4>4, <4>5
    <3>2. CASE ~ \E k \in DOMAIN g : g[k] = i /\ ids[i] = 0 BY <2>2, <2>3, <2>4, <3>2
    <3> QED BY <3>1, <3>2
  <2>5. f \in [DOMAIN input -> Nat] BY <2>2, <2>3, <2>4
  <2> QED BY <2>1, <2>5
<1> QED BY <1>5, <1>6

LEMMA ChunkFacts ==
  ASSUME BatchTypes
  PROVE  IsFiniteSet(Chunk) /\ Chunk \subseteq Elements /\ Chunk \subseteq Int
<1>1. Chunk \in SUBSET Elements BY DEF Chunk
<1>2. IsFiniteSet(Chunk) BY <1>1, ElementsFinite
<1>3. \A i \in Elements : i \in Int BY ElementFacts
<1> QED BY <1>1, <1>2, <1>3

LEMMA PrepareRows ==
  ASSUME BatchTypes, Prepare
  PROVE  /\ rows' \in Seq(Nat) /\ DOMAIN rows' = 1 .. Cardinality(Chunk)
         /\ ToSet(rows') = Chunk /\ \A n \in DOMAIN rows' : rows'[n] \in Chunk
         /\ \A a, b \in DOMAIN rows' : a < b => rows'[a] < rows'[b]
<1>1. PICK C : C = Chunk OBVIOUS
<1>2. PICK t : t = rows' OBVIOUS
<1>3. t = InOrder(C) BY <1>1, <1>2 DEF Prepare
<1>4. IsFiniteSet(C) /\ C \subseteq Int /\ C \subseteq Nat
  <2>1. \A i \in Elements : i \in Nat BY ElementFacts
  <2> QED BY <1>1, <2>1, ChunkFacts
<1>5. /\ Cardinality(C) \in Nat
      /\ InOrder(C) \in [1 .. Cardinality(C) -> C]
      /\ \A a, b \in 1 .. Cardinality(C) : a < b => InOrder(C)[a] < InOrder(C)[b]
      /\ \A i \in C : \E n \in 1 .. Cardinality(C) : InOrder(C)[n] = i
  BY <1>4, InOrderFacts
<1>6. PICK c \in Nat : c = Cardinality(C) BY <1>5
<1>7. t \in [1 .. c -> C] BY <1>3, <1>5, <1>6
<1>8. t \in [1 .. c -> Nat] BY <1>4, <1>7
<1>9. t \in Seq(Nat) /\ Len(t) = c /\ DOMAIN t = 1 .. c BY <1>8, IsSeq
<1>10. ToSet(t) = {t[k] : k \in 1 .. c} BY <1>9, ToSetIs
<1>11. ToSet(t) = C BY <1>3, <1>5, <1>6, <1>7, <1>10
<1>12. \A a, b \in 1 .. c : a < b => t[a] < t[b] BY <1>3, <1>5, <1>6
<1> QED BY <1>1, <1>2, <1>6, <1>7, <1>9, <1>11, <1>12

-----------------------------------------------------------------------------
(* What a batch writes: every step keeps the invariant.                     *)

LEMMA WrittenInit == Init => WrittenInv
<1> SUFFICES ASSUME Init PROVE WrittenInv OBVIOUS
<1>1. /\ pc = "idle" /\ tx = "none" /\ call \in Calls /\ input = <<>> /\ ids = <<>>
      /\ start = 1 /\ rows = <<>> /\ group = <<>> /\ total = 0 /\ affected = 0
      /\ table = Old /\ store = Old /\ nextId = LastOldId + 1 /\ lastId = LastOldId
      /\ clashed = FALSE
  BY DEF Init
<1>2. LastOldId \in Nat BY BatchAssumption DEF BatchAssumption
<1>3. BatchTypes BY <1>1, <1>2 DEF BatchTypes
<1>4. LoopPlaces BY <1>1 DEF LoopPlaces
<1>5. Elements = {} /\ Done = {} BY <1>1 DEF Elements, Done
<1>6. Sound(Old, nextId)
  <2>1. Old \subseteq [id : Nat \ {0}, key : Nat, val : {0}] /\ Unique(Old)
        /\ \A r \in Old : r.id <= LastOldId
    BY BatchAssumption DEF BatchAssumption
  <2>2. Old \in SUBSET TableRows BY <2>1 DEF TableRows
  <2>3. \A r \in Old : r.id < nextId
    <3>1. \A r \in Old : r.id \in Nat BY <2>2 DEF TableRows
    <3> QED BY <1>1, <1>2, <2>1, <3>1
  <2> QED BY <2>1, <2>2, <2>3 DEF Sound
<1>7. \A r \in Old : r.val = 0 BY BatchAssumption DEF BatchAssumption
<1>8. Good(Old, nextId, {}) BY <1>6, <1>7 DEF Good, Known, Covered
<1>9. total = Cardinality({}) BY <1>1, FS_EmptySet
<1>10. TableHolds BY <1>1, <1>5, <1>6, <1>8, <1>9 DEF TableHolds
<1>11. DOMAIN ids = {} BY <1>1
<1>12. KeysHold BY <1>11 DEF KeysHold
<1>13. StaleKeysHarmless BY <1>1 DEF StaleKeysHarmless
<1> QED BY <1>3, <1>4, <1>10, <1>12, <1>13 DEF WrittenInv

LEMMA StartIs ==
  ASSUME NEW in \in Inputs, Start(in)
  PROVE  /\ pc = "idle" /\ input' = in /\ ids' = [i \in DOMAIN in |-> in[i].id]
         /\ pc' \in {"returned", "prepare", "begin"} /\ tx' \in {"shared", "none"}
         /\ pc' = "returned" => err' \/ tx' = "none"
         /\ UNCHANGED <<call, start, rows, group, total, affected, table, store, nextId, lastId,
                        clashed, others>>
<1>1. Start(in) OBVIOUS
<1>2. /\ pc = "idle" /\ input' = in /\ ids' = [i \in DOMAIN in |-> in[i].id]
      /\ UNCHANGED <<call, start, rows, group, total, affected, table, store, nextId, lastId,
                     clashed, others>>
  BY <1>1 DEF Start, dbVars
<1>3. pc' \in {"returned", "prepare", "begin"} /\ tx' \in {"shared", "none"}
  BY <1>1 DEF Start
<1>4. pc' = "returned" => err' \/ tx' = "none"
  BY <1>1 DEF Start
<1> QED BY <1>2, <1>3, <1>4

LEMMA TypesStep == WrittenInv /\ [Next]_vars => BatchTypes'
<1> SUFFICES ASSUME WrittenInv, [Next]_vars PROVE BatchTypes' OBVIOUS
<1>0. BatchTypes /\ LoopPlaces /\ TableHolds BY DEF WrittenInv
<1>1. ASSUME NEW in \in Inputs, Start(in) PROVE BatchTypes'
  <2>1. /\ input' = in /\ ids' = [i \in DOMAIN in |-> in[i].id]
        /\ UNCHANGED <<call, start, rows, total, nextId, lastId>>
    BY <1>1, StartIs
  <2>2. in \in Seq(StructRecords) BY BatchAssumption DEF BatchAssumption, StructRecords
  <2>5. \A i \in DOMAIN in : in[i] \in StructRecords BY <2>2, SeqFacts
  <2>3. \A i \in DOMAIN in : in[i].id \in Nat BY <2>5 DEF StructRecords
  <2>4. ids' \in [DOMAIN input' -> Nat] BY <2>1, <2>3
  <2> QED BY <1>0, <2>1, <2>2, <2>4 DEF BatchTypes
<1>2. CASE Prepare
  <2>1. rows' \in Seq(Nat) BY <1>0, <1>2, PrepareRows
  <2>2. UNCHANGED <<call, input, ids, start, total, nextId, lastId>>
    BY <1>2 DEF Prepare, callVars, dbVars
  <2> QED BY <1>0, <2>1, <2>2 DEF BatchTypes
<1>3. CASE Execute
  <2>1. PICK st \in States : st = Exec(Statement) /\ nextId <= st.next
    BY <1>0, <1>3, ExecuteWrites
  <2>2. /\ nextId' = st.next /\ lastId' = st.last /\ total' = total + st.count
        /\ ids' = Assigned(Statement, st) /\ UNCHANGED <<call, input, start>>
    BY <1>3, <2>1 DEF Execute, callVars
  <2>3. rows' \in Seq(Nat) /\ Statement \in Seq(Nat) BY <1>0, <1>3, ExecuteRows
  <2>4. st.next \in Nat /\ st.last \in Nat /\ st.count \in Nat BY DEF States
  <2>5. ids' \in [DOMAIN input -> Nat] BY <1>0, <2>2, <2>3, AssignedFacts DEF BatchTypes
  <2>6. total' \in Nat BY <1>0, <2>2, <2>4 DEF BatchTypes
  <2>7. LastOldId < nextId'
    <3>1. LastOldId \in Nat BY BatchAssumption DEF BatchAssumption
    <3> QED BY <1>0, <2>1, <2>2, <2>4, <3>1 DEF BatchTypes
  <2> QED BY <1>0, <2>2, <2>3, <2>4, <2>5, <2>6, <2>7 DEF BatchTypes
<1>4. CASE NextChunk
  <2>1. start' = start + call.size /\ UNCHANGED <<call, input, ids, rows, total, nextId, lastId>>
    BY <1>4 DEF NextChunk, callVars, dbVars
  <2>2. call.size \in Nat \ {0} BY <1>0, BatchAssumption DEF BatchAssumption, BatchTypes
  <2>3. start' \in Nat \ {0} BY <1>0, <2>1, <2>2 DEF BatchTypes
  <2> QED BY <1>0, <2>1, <2>3 DEF BatchTypes
<1>5. ASSUME NEW k \in OtherKeys, OtherInserts(k) PROVE BatchTypes'
  <2>1. nextId' = nextId + 1 /\ UNCHANGED <<call, input, ids, start, rows, total, lastId>>
    BY <1>5 DEF OtherInserts, callVars
  <2>2. LastOldId < nextId'
    <3>1. LastOldId \in Nat BY BatchAssumption DEF BatchAssumption
    <3> QED BY <1>0, <2>1, <3>1 DEF BatchTypes
  <2>3. nextId' \in Nat BY <1>0, <2>1 DEF BatchTypes
  <2> QED BY <1>0, <2>1, <2>2, <2>3 DEF BatchTypes
<1>6. CASE Begin \/ BeginFails \/ After
  BY <1>0, <1>6 DEF BatchTypes, Begin, BeginFails, After, callVars, dbVars
<1>7. CASE PrepareFails \/ ExecuteFails \/ AfterFails \/ Panic
  BY <1>0, <1>7 DEF BatchTypes, PrepareFails, ExecuteFails, AfterFails, Panic, callVars
<1>8. CASE Commit \/ CommitFails \/ CallerEnds
  BY <1>0, <1>8 DEF BatchTypes, Commit, CommitFails, CallerEnds, callVars
<1>9. CASE UNCHANGED vars BY <1>0, <1>9 DEF BatchTypes, vars, callVars, dbVars
<1> QED BY <1>1, <1>2, <1>3, <1>4, <1>5, <1>6, <1>7, <1>8, <1>9 DEF Next

\* A call that fails is over and holds nothing.
LEMMA FailsIs ==
  ASSUME PrepareFails \/ ExecuteFails \/ AfterFails \/ Panic \/ CommitFails \/ CallerEnds
  PROVE  pc' \in Ended /\ ~Holding' /\ UNCHANGED <<call, input, ids, start, rows, total, nextId>>
<1>1. CASE PrepareFails \/ ExecuteFails \/ AfterFails
  <2>1. pc' = "returned" /\ err' = TRUE
    BY <1>1 DEF PrepareFails, ExecuteFails, AfterFails, Return
  <2>2. UNCHANGED <<call, input, ids, start, rows, total, nextId>>
    BY <1>1 DEF PrepareFails, ExecuteFails, AfterFails, callVars
  <2> QED BY <2>1, <2>2 DEF Holding, Ended
<1>2. CASE Panic BY <1>2 DEF Panic, Holding, Ended, callVars
<1>3. CASE CommitFails BY <1>3 DEF CommitFails, Return, Holding, Ended, callVars
<1>4. CASE CallerEnds BY <1>4 DEF CallerEnds, Holding, Ended, callVars
<1> QED BY <1>1, <1>2, <1>3, <1>4

LEMMA PlacesStep == WrittenInv /\ [Next]_vars => LoopPlaces'
<1> SUFFICES ASSUME WrittenInv, [Next]_vars PROVE LoopPlaces' OBVIOUS
<1>0. BatchTypes /\ LoopPlaces BY DEF WrittenInv
<1>1. ASSUME NEW in \in Inputs, Start(in) PROVE LoopPlaces'
  <2>1. /\ pc = "idle" /\ pc' \in {"returned", "prepare", "begin"} /\ tx' \in {"shared", "none"}
        /\ pc' = "returned" => err' \/ tx' = "none"
        /\ start' = start
    BY <1>1, StartIs
  <2>2. ~(pc' = "returned" /\ Holding') BY <2>1 DEF Holding
  <2> QED BY <1>0, <2>1, <2>2 DEF LoopPlaces
<1>2. CASE Begin \/ BeginFails
  <2>1. pc' \in {"returned", "prepare"} /\ (pc' = "returned" => err')
    BY <1>2 DEF Begin, BeginFails
  <2>2. ~(pc' = "returned" /\ Holding') BY <2>1 DEF Holding
  <2> QED BY <1>0, <2>1, <2>2 DEF LoopPlaces
<1>3. CASE Prepare
  <2>1. /\ ToSet(rows') = Chunk /\ \A n \in DOMAIN rows' : rows'[n] \in Chunk
        /\ \A a, b \in DOMAIN rows' : a < b => rows'[a] < rows'[b]
    BY <1>0, <1>3, PrepareRows
  <2>2. pc' = "execute" /\ Chunk' = Chunk
    BY <1>3 DEF Prepare, Chunk, Elements, callVars
  <2> QED BY <2>1, <2>2 DEF LoopPlaces
<1>4. CASE Execute
  <2>1. PICK L \in Nat : L = Len(rows) BY <1>0, SeqFacts DEF BatchTypes
  <2>2. PICK n \in 1 .. L :
           /\ Statement \in Seq(Nat) /\ Len(Statement) = n
           /\ \A k \in 1 .. n : Statement[k] = rows[k] /\ Statement[k] \in Chunk
           /\ rows' \in Seq(Nat) /\ Len(rows') = L - n
           /\ \A k \in 1 .. L - n : rows'[k] = rows[n + k]
    BY <1>0, <1>4, <2>1, ExecuteRows
  <2>3. pc = "execute" /\ pc' = "after" /\ Chunk' = Chunk
    BY <1>4 DEF Execute, Chunk, Elements, callVars
  <2>4. PICK t : t = rows' OBVIOUS
  <2>5. t \in Seq(Nat) /\ Len(t) = L - n /\ DOMAIN t = 1 .. L - n BY <2>2, <2>4, SeqFacts
  <2>6. DOMAIN rows = 1 .. L /\ rows \in Seq(Nat) /\ \A k \in 1 .. L : rows[k] \in Nat
    BY <1>0, <2>1, SeqFacts DEF BatchTypes
  <2>7. /\ \A k \in 1 .. L : rows[k] \in Chunk
        /\ \A a, b \in 1 .. L : a < b => rows[a] < rows[b]
        /\ \A i \in Chunk : i \notin ToSet(rows) => \A k \in 1 .. L : i < rows[k]
    BY <1>0, <2>3, <2>6 DEF LoopPlaces
  <2>8. \A k \in 1 .. L - n : n + k \in 1 .. L /\ t[k] = rows[n + k] BY <2>2, <2>4
  <2>9. \A k \in DOMAIN t : t[k] \in Chunk BY <2>5, <2>7, <2>8
  <2>10. \A a, b \in DOMAIN t : a < b => t[a] < t[b]
    <3>1. SUFFICES ASSUME NEW a \in 1 .. L - n, NEW b \in 1 .. L - n, a < b PROVE t[a] < t[b]
      BY <2>5
    <3>2. n + a \in 1 .. L /\ n + b \in 1 .. L /\ n + a < n + b BY <3>1
    <3> QED BY <2>7, <2>8, <3>2
  <2>11. ASSUME NEW i \in Chunk, i \notin ToSet(t), NEW k \in DOMAIN t PROVE i < t[k]
    <3>1. n + k \in 1 .. L /\ t[k] = rows[n + k] BY <2>5, <2>8
    <3>2. CASE i \notin ToSet(rows) BY <2>7, <3>1, <3>2
    <3>3. CASE i \in ToSet(rows)
      <4>1. ToSet(rows) = {rows[m] : m \in 1 .. L} BY <2>1, <2>6, ToSetIs
      <4>2. PICK m \in 1 .. L : i = rows[m] BY <3>3, <4>1
      <4>3. m <= n
        <5>1. SUFFICES ASSUME ~(m <= n) PROVE FALSE OBVIOUS
        <5>2. m - n \in 1 .. L - n /\ n + (m - n) = m BY <5>1
        <5>3. t[m - n] = i BY <2>8, <4>2, <5>2
        <5>4. ToSet(t) = {t[x] : x \in 1 .. L - n} BY <2>5, ToSetIs
        <5> QED BY <2>11, <5>2, <5>3, <5>4
      <4>4. m < n + k BY <2>5, <4>3
      <4> QED BY <2>7, <3>1, <4>2, <4>4
    <3> QED BY <3>2, <3>3
  <2> QED BY <2>3, <2>4, <2>9, <2>10, <2>11 DEF LoopPlaces
<1>5. CASE After
  <2>1. pc = "after" /\ pc' = "execute" /\ rows' = rows /\ Chunk' = Chunk
    BY <1>5 DEF After, Chunk, Elements, callVars
  <2> QED BY <1>0, <2>1 DEF LoopPlaces
<1>6. CASE NextChunk
  <2>1. /\ pc' \in {"prepare", "commit", "returned"} /\ (pc' # "prepare" => ~(start' <= Len(input)))
        /\ input' = input
    BY <1>6 DEF NextChunk, callVars
  <2>2. Len(input) \in Nat /\ start' \in Nat
    <3>1. call.size \in Nat \ {0} BY <1>0, BatchAssumption DEF BatchAssumption, BatchTypes
    <3>2. start' = start + call.size BY <1>6 DEF NextChunk
    <3> QED BY <1>0, <3>1, <3>2, SeqFacts DEF BatchTypes
  <2>3. pc' # "prepare" => start' > Len(input') BY <2>1, <2>2
  <2> QED BY <2>1, <2>3 DEF LoopPlaces
<1>7. CASE Commit
  <2>1. pc = "commit" /\ pc' = "returned" /\ UNCHANGED <<input, start>>
    BY <1>7 DEF Commit, Return, callVars
  <2> QED BY <1>0, <2>1 DEF LoopPlaces
<1>8. CASE PrepareFails \/ ExecuteFails \/ AfterFails \/ Panic \/ CommitFails \/ CallerEnds
  <2>1. pc' \in Ended /\ ~Holding' BY <1>8, FailsIs
  <2> QED BY <2>1 DEF LoopPlaces, Ended
<1>9. CASE (\E k \in OtherKeys : OtherInserts(k)) \/ UNCHANGED vars
  <2>1. UNCHANGED <<pc, call, input, start, rows, tx, err>>
    BY <1>9 DEF OtherInserts, vars, callVars
  <2>2. Chunk' = Chunk /\ Holding' = Holding BY <2>1 DEF Chunk, Elements, Holding
  <2> QED BY <1>0, <2>1, <2>2 DEF LoopPlaces
<1> QED BY <1>1, <1>2, <1>3, <1>4, <1>5, <1>6, <1>7, <1>8, <1>9 DEF Next

LEMMA GoodKept ==
  ASSUME UNCHANGED <<call, input>>, Good(table', nextId', Done')
  PROVE  Good(table, nextId, Done)'
<1>1. Plain' = Plain /\ Target' = Target BY DEF Plain, Target
<1>2. Sound(table, nextId)' BY DEF Good, Sound, Unique
<1>3. Plain => Known(table, Done)' BY <1>1 DEF Good, Known
<1>4. \A i, j : SameRow(i, j)' = SameRow(i, j) BY <1>1 DEF SameRow
<1>5. Plain /\ call.option # "nothing" => Covered(table, Done)' BY <1>1, <1>4 DEF Good, Covered
<1> QED BY <1>1, <1>2, <1>3, <1>5 DEF Good

LEMMA DoneKept ==
  ASSUME UNCHANGED <<call, input, start, rows>>,
         pc' \in {"execute", "after"} <=> pc \in {"execute", "after"}
  PROVE  Done' = Done
<1>1. Elements' = Elements /\ Chunk' = Chunk BY DEF Elements, Chunk
<1> QED BY <1>1 DEF Done

\* Steps that write nothing and go on.
LEMMA TableKept ==
  ASSUME BatchTypes, TableHolds, Holding,
         UNCHANGED <<call, input, table, store, nextId, total>>, Done' = Done,
         pc' = "returned" /\ Holding' => affected' = total
  PROVE  TableHolds'
<1>1. Good(table, nextId, Done) /\ Sound(store, nextId)
      /\ (Target = "none" => total = Cardinality(Done))
  BY DEF TableHolds
<1>2. Good(table, nextId, Done)' BY <1>1, GoodKept
<1>3. Sound(store, nextId)' BY <1>1 DEF Sound, Unique
<1>4. Target' = Target BY DEF Target
<1> QED BY <1>1, <1>2, <1>3, <1>4 DEF TableHolds

LEMMA TableStep == WrittenInv /\ [Next]_vars => TableHolds'
<1> SUFFICES ASSUME WrittenInv, [Next]_vars PROVE TableHolds' OBVIOUS
<1>0. BatchTypes /\ LoopPlaces /\ TableHolds BY DEF WrittenInv
<1>1. ASSUME NEW in \in Inputs, Start(in) PROVE TableHolds'
  <2>1. /\ pc = "idle" /\ pc' \in {"returned", "prepare", "begin"} /\ tx' \in {"shared", "none"}
        /\ pc' = "returned" => err' \/ tx' = "none"
        /\ UNCHANGED <<call, start, total, table, store, nextId>> /\ input' = in
    BY <1>1, StartIs
  <2>2. input = <<>> /\ start = 1 BY <1>0, <2>1 DEF LoopPlaces
  <2>3. Done = {} BY <2>2 DEF Done, Elements
  <2>4. Done' = {}
    <3>1. in \in Seq(StructRecords) BY BatchAssumption DEF BatchAssumption, StructRecords
    <3>2. DOMAIN in = 1 .. Len(in) /\ Len(in) \in Nat BY <3>1, SeqFacts
    <3>3. \A i \in Elements' : ~(i < start') BY <2>1, <2>2, <3>2 DEF Elements
    <3> QED BY <2>1, <3>3 DEF Done
  <2>5. Holding BY <2>1 DEF Holding
  <2>6. Good(table, nextId, {}) /\ Sound(store, nextId) /\ (Target = "none" => total = Cardinality({}))
    BY <1>0, <2>3, <2>5 DEF TableHolds
  <2>7. Plain' = Plain /\ Target' = Target BY <2>1 DEF Plain, Target
  <2>8. Sound(table, nextId)' /\ Sound(store, nextId)' BY <2>1, <2>6 DEF Good, Sound, Unique
  <2>9. Plain => \A r \in table : r.val = 0 BY <2>6 DEF Good, Known
  <2>10. Plain => Known(table, Done)' /\ Covered(table, Done)'
    BY <2>1, <2>4, <2>9 DEF Known, Covered
  <2>11. Good(table, nextId, Done)' BY <2>7, <2>8, <2>10 DEF Good
  <2>12. ~(pc' = "returned" /\ Holding') BY <2>1 DEF Holding
  <2>13. Target' = "none" => total' = Cardinality(Done') BY <2>1, <2>4, <2>6, <2>7
  <2> QED BY <2>8, <2>11, <2>12, <2>13 DEF TableHolds
<1>2. CASE Begin \/ BeginFails \/ After
  <2>1. /\ pc \in {"begin", "after"} /\ (pc = "begin" => pc' \in {"prepare", "returned"})
        /\ pc = "after" => pc' = "execute"
        /\ pc' = "returned" => err'
        /\ UNCHANGED <<call, input, start, rows, total, table, store, nextId>>
    BY <1>2 DEF Begin, BeginFails, After, callVars, dbVars
  <2>2. Holding /\ ~(pc' = "returned" /\ Holding') BY <2>1 DEF Holding
  <2>3. Done' = Done BY <2>1, DoneKept
  <2> QED BY <1>0, <2>1, <2>2, <2>3, TableKept
<1>3. CASE Prepare
  <2>1. ToSet(rows') = Chunk BY <1>0, <1>3, PrepareRows
  <2>2. /\ pc = "prepare" /\ pc' = "execute"
        /\ UNCHANGED <<call, input, start, total, table, store, nextId>>
    BY <1>3 DEF Prepare, callVars, dbVars
  <2>3. Elements' = Elements /\ Chunk' = Chunk BY <2>2 DEF Elements, Chunk
  <2>4. Done' = Done BY <2>1, <2>2, <2>3 DEF Done
  <2>5. Holding BY <2>2 DEF Holding
  <2> QED BY <1>0, <2>2, <2>4, <2>5, TableKept
<1>4. CASE Execute
  <2>1. PICK st \in States :
           /\ st = Exec(Statement) /\ st.ok /\ nextId <= st.next
           /\ Good(st.table, st.next, Done')
           /\ Target = "none" => Cardinality(Done') = Cardinality(Done) + st.count
    BY <1>0, <1>4, ExecuteWrites
  <2>2. /\ pc = "execute" /\ pc' = "after" /\ UNCHANGED <<call, input, store>>
        /\ table' = st.table /\ nextId' = st.next /\ total' = total + st.count
    BY <1>4, <2>1 DEF Execute, callVars
  <2>3. Good(table, nextId, Done)' BY <2>1, <2>2, GoodKept
  <2>4. Sound(store, nextId) /\ (Target = "none" => total = Cardinality(Done))
    BY <1>0, <2>2 DEF TableHolds, Holding
  <2>5. Sound(store, nextId)'
    <3>1. \A r \in store : r.id \in Nat /\ r.id < nextId BY <2>4 DEF Sound, TableRows
    <3>2. nextId \in Nat /\ st.next \in Nat BY <1>0 DEF BatchTypes, States
    <3>3. \A r \in store : r.id < st.next BY <2>1, <3>1, <3>2
    <3> QED BY <2>2, <2>4, <3>3 DEF Sound, Unique
  <2>6. Target' = Target BY <2>2 DEF Target
  <2>7. Target' = "none" => total' = Cardinality(Done') BY <2>1, <2>2, <2>4, <2>6
  <2> QED BY <2>2, <2>3, <2>5, <2>7 DEF TableHolds
<1>5. CASE NextChunk
  <2>1. /\ pc = "execute" /\ rows = <<>> /\ start' = start + call.size
        /\ pc' \in {"prepare", "commit", "returned"}
        /\ pc' = "returned" => affected' = total
        /\ UNCHANGED <<call, input, rows, total, table, store, nextId>>
    BY <1>5 DEF NextChunk, callVars, dbVars
  <2>2. Elements' = Elements BY <2>1 DEF Elements
  <2>3. ToSet(rows) = {} BY <2>1 DEF ToSet
  <2>4. Done = {i \in Elements : i < start \/ i \in Chunk} BY <2>1, <2>3 DEF Done
  <2>5. Done' = {i \in Elements : i < start + call.size} BY <2>1, <2>2 DEF Done
  <2>6. ASSUME NEW i \in Elements PROVE i < start \/ i \in Chunk <=> i < start + call.size
    <3>1. call.size \in Nat \ {0} BY <1>0, BatchAssumption DEF BatchAssumption, BatchTypes
    <3>2. start \in Nat BY <1>0 DEF BatchTypes
    <3>3. i \in Nat BY <1>0, ElementFacts
    <3>4. i \in Chunk <=> i \in start .. start + call.size - 1 BY DEF Chunk
    <3> QED BY <3>1, <3>2, <3>3, <3>4
  <2>7. Done' = Done BY <2>4, <2>5, <2>6
  <2>8. Holding BY <2>1 DEF Holding
  <2> QED BY <1>0, <2>1, <2>7, <2>8, TableKept
<1>6. CASE Commit
  <2>1. /\ pc = "commit" /\ pc' = "returned" /\ affected' = total /\ store' = table
        /\ UNCHANGED <<call, input, start, rows, total, table, nextId>>
    BY <1>6 DEF Commit, Return, callVars
  <2>2. Done' = Done BY <2>1, DoneKept
  <2>3. Good(table, nextId, Done) /\ (Target = "none" => total = Cardinality(Done))
    BY <1>0, <2>1 DEF TableHolds, Holding
  <2>4. Good(table, nextId, Done)' BY <2>1, <2>2, <2>3, GoodKept
  <2>5. Sound(store, nextId)' BY <2>1, <2>3 DEF Good, Sound, Unique
  <2>6. Target' = Target BY <2>1 DEF Target
  <2> QED BY <2>1, <2>2, <2>3, <2>4, <2>5, <2>6 DEF TableHolds
<1>7. ASSUME NEW k \in OtherKeys, OtherInserts(k) PROVE TableHolds'
  <2>1. PICK r : r = [id |-> nextId, key |-> k, val |-> 0] OBVIOUS
  <2>2. /\ table' = table \cup {r} /\ store' = store \cup {r} /\ nextId' = nextId + 1
        /\ \A s \in table \cup store : s.key # k
        /\ pc \in {"begin", "prepare", "execute", "after", "commit"}
        /\ UNCHANGED <<pc, call, input, start, rows, total, affected, tx, err>>
    BY <1>7, <2>1 DEF OtherInserts, callVars
  <2>3. Done' = Done BY <2>2, DoneKept
  <2>4. Good(table, nextId, Done) /\ Sound(store, nextId)
        /\ (Target = "none" => total = Cardinality(Done))
    BY <1>0, <2>2 DEF TableHolds, Holding
  <2>5. nextId \in Nat /\ k \in Nat BY <1>0, BatchAssumption DEF BatchTypes, BatchAssumption
  <2>6. r \in TableRows /\ r.id = nextId /\ r.key = k /\ r.val = 0 BY <2>1, <2>5 DEF TableRows
  <2>7. ASSUME NEW tab \in {table, store}, Sound(tab, nextId)
        PROVE  Sound(tab \cup {r}, nextId + 1)
    <3>1. /\ tab \in SUBSET TableRows /\ Unique(tab)
          /\ \A s \in tab : s.id < nextId /\ s.id \in Nat /\ s.key # k
      BY <2>2, <2>7 DEF Sound, TableRows
    <3>2. \A s \in tab : s.id # r.id /\ s.key # r.key BY <2>5, <2>6, <3>1
    <3>3. PICK t : t = tab \cup {r} OBVIOUS
    <3>4. t \in SUBSET TableRows BY <2>6, <3>1, <3>3
    <3>5. Unique(t) BY <3>1, <3>2, <3>3 DEF Unique
    <3>6. \A s \in t : s.id < nextId + 1 BY <2>5, <2>6, <3>1, <3>3
    <3> QED BY <3>3, <3>4, <3>5, <3>6 DEF Sound
  <2>8. Sound(table', nextId') /\ Sound(store', nextId') BY <2>2, <2>4, <2>7 DEF Good
  <2>9. Plain => Known(table', Done)
    <3>1. Plain => Known(table, Done) BY <2>4 DEF Good
    <3> QED BY <2>2, <2>6, <3>1 DEF Known
  <2>10. Plain /\ call.option # "nothing" => Covered(table', Done)
    <3>1. Plain /\ call.option # "nothing" => Covered(table, Done) BY <2>4 DEF Good
    <3> QED BY <2>2, <3>1 DEF Covered
  <2>11. Good(table', nextId', Done') BY <2>3, <2>8, <2>9, <2>10 DEF Good
  <2>12. Good(table, nextId, Done)' BY <2>2, <2>11, GoodKept
  <2>13. Sound(store, nextId)' BY <2>8 DEF Sound, Unique
  <2>14. Target' = Target BY <2>2 DEF Target
  <2> QED BY <2>2, <2>3, <2>4, <2>12, <2>13, <2>14 DEF TableHolds
<1>8. CASE PrepareFails \/ ExecuteFails \/ AfterFails \/ Panic \/ CommitFails \/ CallerEnds
  <2>1. ~Holding' BY <1>8, FailsIs
  <2> QED BY <2>1 DEF TableHolds
<1>9. CASE UNCHANGED vars
  <2>1. UNCHANGED <<pc, call, input, start, rows, total, affected, tx, err, table, store, nextId>>
    BY <1>9 DEF vars, callVars, dbVars
  <2>2. Done' = Done BY <2>1, DoneKept
  <2>3. Holding' = Holding BY <2>1 DEF Holding
  <2>4. Holding => (pc = "returned" => affected = total) BY <1>0 DEF TableHolds
  <2>5. Holding => TableHolds'
    <3>1. SUFFICES ASSUME Holding PROVE TableHolds' OBVIOUS
    <3> QED BY <1>0, <2>1, <2>2, <2>4, <3>1, TableKept
  <2> QED BY <2>3, <2>5 DEF TableHolds
<1> QED BY <1>1, <1>2, <1>3, <1>4, <1>5, <1>6, <1>7, <1>8, <1>9 DEF Next

\* A key that a statement gives to a struct is the key of its row.
LEMMA AssignedMatch ==
  ASSUME BatchTypes, Inserting, table \in SUBSET TableRows, NEW g \in Seq(Nat), Len(g) > 0,
         \A k \in 1 .. Len(g) : g[k] \in Elements,
         \A a, b \in 1 .. Len(g) : a < b => g[a] < g[b],
         call.db = "dm" => Len(g) = 1,
         \A k \in 1 .. Len(g) : Columns(input[g[1]]) = Columns(input[g[k]]),
         Exec(g).ok, NEW i \in DOMAIN input, Assigned(g, Exec(g))[i] # ids[i]
  PROVE  \E r \in Exec(g).table : r.id = Assigned(g, Exec(g))[i] /\ r.val = i
<1>1. PICK n \in Nat : n = Len(g) /\ DOMAIN g = 1 .. n /\ n > 0 BY SeqFacts
<1>2. PICK st : st = Exec(g) OBVIOUS
<1>3. PICK f : f = Assigned(g, st) OBVIOUS
<1>4. PICK first : first = IF call.db = "sqlite3" THEN st.last - (Len(g) - 1) ELSE st.last
  OBVIOUS
<1>5. DOMAIN ids = DOMAIN input /\ nextId \in Nat BY DEF BatchTypes
<1>6. ~ \/ call.op # "create" \/ st.count # Len(g)
        \/ input[g[1]].id # 0 \/ call.db = "postgres" \/ first <= 0
  BY <1>2, <1>4 DEF Assigned
<1>7. f = [x \in DOMAIN ids |->
             IF \E k \in DOMAIN g : g[k] = x /\ ids[x] = 0
             THEN first + (CHOOSE k \in DOMAIN g : g[k] = x) - 1 ELSE ids[x]]
  BY <1>3, <1>4, <1>6 DEF Assigned
<1>8. f[i] # ids[i] BY <1>2, <1>3
<1>9. \E k \in DOMAIN g : g[k] = i /\ ids[i] = 0 BY <1>5, <1>7, <1>8
<1>10. \E k \in DOMAIN g : g[k] = i BY <1>9
<1>11. PICK m \in DOMAIN g : m = (CHOOSE k \in DOMAIN g : g[k] = i) /\ g[m] = i BY <1>10
<1>12. f[i] = first + m - 1 BY <1>5, <1>7, <1>9, <1>11
<1>13. ASSUME NEW k \in 1 .. n PROVE input[g[k]].id = 0
  <2>1. call.op = "create" BY DEF Inserting
  <2>2. "id" \notin Columns(input[g[1]]) BY <1>6 DEF Columns
  <2>3. "id" \notin Columns(input[g[k]]) BY <1>1, <2>2
  <2> QED BY <2>1, <2>3 DEF Columns
<1>14. /\ st.last = IF call.db = "mysql" THEN nextId ELSE nextId + Len(g) - 1
       /\ \A x \in 1 .. Len(g) : \E r \in st.table : r.id = nextId + x - 1 /\ r.val = g[x]
  <2>1. st.count = Len(g) BY <1>6
  <2>2. \A k \in 1 .. Len(g) : input[g[k]].id = 0 BY <1>1, <1>13
  <2> QED BY <1>2, <2>1, <2>2, ExecKeys
<1>15. first = nextId
  <2>1. call.db \in {"sqlite3", "mysql", "postgres", "dm"}
    BY BatchAssumption DEF BatchAssumption, BatchTypes
  <2>2. CASE call.db = "sqlite3" BY <1>1, <1>4, <1>5, <1>14, <2>2
  <2>3. CASE call.db = "mysql" BY <1>4, <1>14, <2>3
  <2>4. CASE call.db = "dm"
    <3>1. st.last = nextId + 1 - 1 BY <1>14, <2>4
    <3> QED BY <1>4, <1>5, <2>4, <3>1
  <2> QED BY <1>6, <2>1, <2>2, <2>3, <2>4
<1>16. m \in 1 .. Len(g) BY <1>1
<1>17. PICK r \in st.table : r.id = nextId + m - 1 /\ r.val = g[m] BY <1>14, <1>16
<1> QED BY <1>2, <1>3, <1>11, <1>12, <1>15, <1>17

LEMMA KeysStep == WrittenInv /\ [Next]_vars => KeysHold'
<1> SUFFICES ASSUME WrittenInv, [Next]_vars PROVE KeysHold' OBVIOUS
<1>0. BatchTypes /\ LoopPlaces /\ TableHolds /\ KeysHold BY DEF WrittenInv
<1>1. ASSUME NEW in \in Inputs, Start(in) PROVE KeysHold'
  <2>1. input' = in /\ ids' = [i \in DOMAIN in |-> in[i].id] BY <1>1, StartIs
  <2> QED BY <2>1 DEF KeysHold
<1>2. CASE Execute
  <2>1. PICK g : g = Statement OBVIOUS
  <2>2. PICK st \in States : st = Exec(g) /\ st.ok BY <1>0, <1>2, <2>1, ExecuteWrites
  <2>3. /\ pc = "execute" /\ UNCHANGED <<call, input>> /\ table' = st.table
        /\ ids' = Assigned(g, st)
    BY <1>2, <2>1, <2>2 DEF Execute, callVars
  <2>4. call'.op # "create" => ids' = ids BY <2>3 DEF Assigned
  <2>5. Holding /\ Inserting' = Inserting BY <2>3 DEF Holding, Inserting
  <2>6. ASSUME Inserting, NEW i \in DOMAIN ids', ids'[i] # input[i].id
        PROVE  \E r \in table' : r.id = ids'[i] /\ r.val = i
    <3>1. PICK n \in 1 .. Len(rows) :
             /\ g \in Seq(Nat) /\ Len(g) = n
             /\ \A k \in 1 .. n : g[k] = rows[k] /\ g[k] \in Chunk
             /\ \A a, b \in 1 .. n : a < b => g[a] < g[b]
             /\ call.op # "onConflict" =>
                  /\ call.db = "dm" => n = 1
                  /\ \A k \in 1 .. n : Columns(input[rows[1]]) = Columns(input[rows[k]])
      BY <1>0, <1>2, <2>1, ExecuteRows
    <3>2. Len(rows) \in Nat BY <1>0, SeqFacts DEF BatchTypes
    <3>3. n \in Nat /\ n > 0 /\ 1 \in 1 .. n BY <3>2
    <3>4. call.op # "onConflict" BY <2>6 DEF Inserting
    <3>5. \A k \in 1 .. n : Columns(input[g[1]]) = Columns(input[g[k]]) BY <3>1, <3>3, <3>4
    <3>6. \A k \in 1 .. n : g[k] \in Elements BY <3>1 DEF Chunk
    <3>7. table \in SUBSET TableRows BY <1>0, <2>5 DEF TableHolds, Good, Sound
    <3>8. ids' \in [DOMAIN input -> Nat] BY <1>0, <2>3, <3>1, AssignedFacts DEF BatchTypes
    <3>9. i \in DOMAIN input BY <2>6, <3>8
    <3>10. Len(g) > 0 /\ (call.db = "dm" => Len(g) = 1) BY <3>1, <3>3, <3>4
    <3>11. CASE ids'[i] # ids[i]
      <4>1. Assigned(g, Exec(g))[i] # ids[i] BY <2>2, <2>3, <3>11
      <4>2. /\ \A k \in 1 .. Len(g) : g[k] \in Elements
            /\ \A a, b \in 1 .. Len(g) : a < b => g[a] < g[b]
            /\ \A k \in 1 .. Len(g) : Columns(input[g[1]]) = Columns(input[g[k]])
        BY <3>1, <3>5, <3>6
      <4>3. Exec(g).ok /\ g \in Seq(Nat) BY <2>2, <3>1
      <4>4. \E r \in Exec(g).table : r.id = Assigned(g, Exec(g))[i] /\ r.val = i
        BY <1>0, <2>6, <3>7, <3>9, <3>10, <4>1, <4>2, <4>3, AssignedMatch
      <4> QED BY <2>2, <2>3, <4>4
    <3>12. CASE ids'[i] = ids[i]
      <4>1. i \in DOMAIN ids BY <1>0, <3>9 DEF BatchTypes
      <4>2. PICK r \in table : r.id = ids[i] /\ r.val = i
        BY <1>0, <2>5, <2>6, <3>12, <4>1 DEF KeysHold
      <4>3. table \subseteq Exec(g).table
        <5>1. \A k \in 1 .. Len(g) : g[k] \in Elements BY <3>1, <3>6
        <5>2. Exec(g).ok /\ g \in Seq(Nat) BY <2>2, <3>1
        <5> QED BY <1>0, <2>6, <3>7, <5>1, <5>2, ExecKeys
      <4> QED BY <2>2, <2>3, <3>12, <4>2, <4>3
    <3> QED BY <3>11, <3>12
  <2> QED BY <1>0, <2>3, <2>4, <2>5, <2>6 DEF KeysHold
<1>3. ASSUME NEW k \in OtherKeys, OtherInserts(k) PROVE KeysHold'
  <2>1. /\ UNCHANGED <<pc, call, input, ids, tx, err>> /\ table \subseteq table'
    BY <1>3 DEF OtherInserts, callVars
  <2>2. Holding' = Holding /\ Inserting' = Inserting BY <2>1 DEF Holding, Inserting
  <2> QED BY <1>0, <2>1, <2>2 DEF KeysHold
<1>4. CASE PrepareFails \/ ExecuteFails \/ AfterFails \/ Panic \/ CommitFails \/ CallerEnds
  <2>1. ~Holding' /\ UNCHANGED <<call, input, ids>> BY <1>4, FailsIs
  <2> QED BY <1>0, <2>1 DEF KeysHold
<1>5. CASE Begin \/ BeginFails \/ Prepare \/ After \/ NextChunk \/ Commit
  <2>1. /\ UNCHANGED <<call, input, ids, table>>
        /\ pc \in {"begin", "prepare", "after", "execute", "commit"}
    BY <1>5 DEF Begin, BeginFails, Prepare, After, NextChunk, Commit, callVars, dbVars
  <2>2. Holding /\ Inserting' = Inserting BY <2>1 DEF Holding, Inserting
  <2> QED BY <1>0, <2>1, <2>2 DEF KeysHold
<1>6. CASE UNCHANGED vars
  <2>1. UNCHANGED <<pc, call, input, ids, tx, err, table>> BY <1>6 DEF vars, callVars, dbVars
  <2>2. Holding' = Holding /\ Inserting' = Inserting BY <2>1 DEF Holding, Inserting
  <2> QED BY <1>0, <2>1, <2>2 DEF KeysHold
<1> QED BY <1>1, <1>2, <1>3, <1>4, <1>5, <1>6 DEF Next

LEMMA StaleStep == WrittenInv /\ [Next]_vars => StaleKeysHarmless'
<1> SUFFICES ASSUME WrittenInv, [Next]_vars PROVE StaleKeysHarmless' OBVIOUS
<1>0. BatchTypes /\ LoopPlaces /\ TableHolds /\ StaleKeysHarmless BY DEF WrittenInv
<1> DEFINE Twice == call.db = "postgres" /\ \E i, j \in Elements : i # j /\ SameRow(i, j)
<1>1. ASSUME UNCHANGED <<call, input>>, call.op = "saveKey" /\ clashed' => Twice
      PROVE  StaleKeysHarmless'
  <2>1. Elements' = Elements /\ Target' = Target BY <1>1 DEF Elements, Target
  <2>2. \A i, j : SameRow(i, j)' = SameRow(i, j) BY <1>1, <2>1 DEF SameRow
  <2> QED BY <1>1, <2>1, <2>2 DEF StaleKeysHarmless
<1>2. call.op = "saveKey" /\ clashed => Twice BY <1>0 DEF StaleKeysHarmless
<1>3. ASSUME NEW in \in Inputs, Start(in) PROVE StaleKeysHarmless'
  <2>1. pc = "idle" /\ UNCHANGED <<call, clashed>> BY <1>3, StartIs
  <2>2. Elements = {} BY <1>0, <2>1 DEF LoopPlaces, Elements
  <2>3. ~(call.op = "saveKey" /\ clashed) BY <1>2, <2>2
  <2> QED BY <2>1, <2>3 DEF StaleKeysHarmless
<1>4. CASE ExecuteFails
  <2>1. /\ pc = "execute" /\ UNCHANGED <<call, input>>
        /\ clashed' = (clashed \/ Refused(Statement))
    BY <1>4 DEF ExecuteFails, callVars
  <2>2. ASSUME call.op = "saveKey", Refused(Statement) PROVE Twice
    <3>1. rows # <<>> /\ ~(IsComplete(Statement) /\ Exec(Statement).ok) BY <2>2 DEF Refused
    <3>2. PICK L \in Nat : L = Len(rows) BY <1>0, SeqFacts DEF BatchTypes
    <3>3. PICK n \in 1 .. L :
             /\ Statement \in Seq(Nat) /\ Len(Statement) = n /\ DOMAIN Statement = 1 .. n
             /\ \A k \in 1 .. n : Statement[k] = rows[k]
             /\ \A k \in 1 .. n : Columns(input[rows[1]]) = Columns(input[rows[k]])
      BY <1>0, <2>2, <3>1, <3>2, StatementFacts
    <3>4. PICK g : g = Statement OBVIOUS
    <3>5. 1 \in 1 .. n /\ n > 0 BY <3>2
    <3>6. IsComplete(g)
      <4>1. g # <<>> BY <3>3, <3>4, <3>5
      <4>2. \A k \in DOMAIN g : Columns(input[g[k]]) = Columns(input[g[1]]) BY <3>3, <3>4, <3>5
      <4> QED BY <2>2, <4>1, <4>2 DEF IsComplete
    <3>7. ~Exec(g).ok BY <3>1, <3>4, <3>6
    <3>8. rows \in Seq(Nat) /\ DOMAIN rows = 1 .. L BY <1>0, <3>2, SeqFacts DEF BatchTypes
    <3>9. \A k \in 1 .. n : k \in DOMAIN rows BY <3>2, <3>8
    <3>10. \A k \in 1 .. n : g[k] \in Elements BY <1>0, <2>1, <3>3, <3>4, <3>9 DEF LoopPlaces, Chunk
    <3>11. \A a, b \in 1 .. n : a < b => g[a] < g[b]
      BY <1>0, <2>1, <3>3, <3>4, <3>9 DEF LoopPlaces
    <3>12. Sound(table, nextId) BY <1>0, <2>1 DEF TableHolds, Holding, Good
    <3>13. g \in Seq(Nat) /\ Len(g) = n BY <3>3, <3>4
    <3> HIDE DEF Twice
    <3> QED BY <1>0, <2>2, <3>7, <3>10, <3>11, <3>12, <3>13, ExecSaves DEF Twice
  <2> HIDE DEF Twice
  <2> QED BY <1>1, <1>2, <2>1, <2>2
<1>5. CASE UNCHANGED <<call, input, clashed>> BY <1>1, <1>2, <1>5
<1>6. CASE Begin \/ BeginFails \/ Prepare \/ Execute \/ After \/ NextChunk \/ Commit
  BY <1>5, <1>6 DEF Begin, BeginFails, Prepare, Execute, After, NextChunk, Commit, callVars, dbVars
<1>7. CASE PrepareFails \/ AfterFails \/ Panic \/ CommitFails \/ CallerEnds
  BY <1>5, <1>7 DEF PrepareFails, AfterFails, Panic, CommitFails, CallerEnds, callVars
<1>8. ASSUME NEW k \in OtherKeys, OtherInserts(k) PROVE StaleKeysHarmless'
  BY <1>5, <1>8 DEF OtherInserts, callVars
<1>9. CASE UNCHANGED vars BY <1>5, <1>9 DEF vars, callVars, dbVars
<1> QED BY <1>3, <1>4, <1>6, <1>7, <1>8, <1>9 DEF Next

LEMMA WrittenStep == WrittenInv /\ [Next]_vars => WrittenInv'
BY TypesStep, PlacesStep, TableStep, KeysStep, StaleStep DEF WrittenInv

LEMMA WrittenInvariance == Spec => []WrittenInv
BY WrittenInit, WrittenStep, PTL DEF Spec

-----------------------------------------------------------------------------
(* What a batch writes: the results.                                        *)

LEMMA WrittenFollows == WrittenInv => EveryElementWritten
<1> SUFFICES ASSUME WrittenInv, pc = "returned", ~err, tx \in {"committed", "shared"},
                    call.option # "nothing", call.db = "mysql" => Target = "none"
             PROVE  /\ \A i \in Elements : \E j \in Elements :
                         (i = j \/ (j > i /\ SameRow(i, j))) /\ Written(j)
                    /\ Target = "none" => affected = Cardinality(Elements)
    BY DEF EveryElementWritten
<1>0. BatchTypes /\ LoopPlaces /\ TableHolds BY DEF WrittenInv
<1>1. Holding /\ Plain BY DEF Holding, Plain
<1>2. start > Len(input) BY <1>0, <1>1 DEF LoopPlaces
<1>3. Done = Elements
  <2>1. start \in Nat /\ Len(input) \in Nat BY <1>0, SeqFacts DEF BatchTypes
  <2>2. ASSUME NEW i \in Elements PROVE i < start
    <3>1. i \in Nat /\ i <= Len(input) BY <1>0, ElementFacts
    <3> QED BY <1>2, <2>1, <3>1
  <2> QED BY <2>2 DEF Done
<1>4. /\ Known(table, Elements) /\ Covered(table, Elements)
      /\ Target = "none" => affected = Cardinality(Elements)
  BY <1>0, <1>1, <1>3 DEF TableHolds, Good
<1>5. ASSUME NEW i \in Elements
      PROVE  \E j \in Elements : (i = j \/ (j > i /\ SameRow(i, j))) /\ Written(j)
  <2>1. PICK j \in Elements : (i = j \/ (j > i /\ SameRow(i, j))) /\ \E r \in table : r.val = j
    BY <1>4 DEF Covered
  <2>2. j # 0 BY <1>0, ElementFacts
  <2>3. Written(j) BY <1>4, <2>1, <2>2 DEF Known, Written
  <2> QED BY <2>1, <2>3
<1> QED BY <1>4, <1>5

\* A batch that returns without an error has written every element that is not
\* nil, in a row of its own or a later element's for the same row, whatever the
\* sizes of its chunks and statements and whatever others insert in between; and
\* it has counted each once if it updates none.
THEOREM ElementsAreWritten == Spec => []EveryElementWritten
BY WrittenInvariance, WrittenFollows, PTL

\* batch_create.go:440: a conflict clause the caller gives to CreateInBatches as
\* gorm:insert_option may update, and the generated key is then another row's.
NoUpsertingCreate == \A c \in Calls : c.op = "create" => c.option # "update"

LEMMA KeysFollow ==
  ASSUME NoUpsertingCreate, WrittenInv
  PROVE  KeysMatch
<1> SUFFICES ASSUME pc = "returned", ~err, tx \in {"committed", "shared"},
                    NEW i \in DOMAIN ids, ids[i] # input[i].id
             PROVE  \E r \in table : r.id = ids[i] /\ r.val = i
    BY DEF KeysMatch
<1>1. call \in Calls /\ KeysHold BY DEF WrittenInv, BatchTypes
<1>2. call.op = "create" BY <1>1 DEF KeysHold
<1>3. Holding /\ Inserting BY <1>1, <1>2 DEF Holding, Inserting, NoUpsertingCreate
<1> QED BY <1>1, <1>3 DEF KeysHold

\* A key that a batch of creations gives to a struct is the key of the struct's
\* row, in every dialect and whichever keys other writers take in between.
THEOREM KeysAreTheirRows ==
  ASSUME NoUpsertingCreate PROVE Spec => []KeysMatch
<1>1. WrittenInv => KeysMatch BY KeysFollow
<1> QED BY <1>1, WrittenInvariance, PTL

\* A save by the unique column is refused for no key that a struct has kept, only
\* by PostgreSQL for a key that two elements of the slice share.
THEOREM StaleKeysAreHarmless == Spec => []StaleKeysHarmless
<1>1. WrittenInv => StaleKeysHarmless BY DEF WrittenInv
<1> QED BY <1>1, WrittenInvariance, PTL

-----------------------------------------------------------------------------
(* A query with preloads: the invariant.                                    *)

Refs == Nat \X Nat \X Nat
UserObjects == [user : Users, fk : Rows \cup {None}, rel : Seq(Refs)]
RowObjects == [row : Rows, leaves : Seq(Leaves)]

QueryTypes ==
  /\ conf \in [kind : Kinds, pointers : BOOLEAN, struct : BOOLEAN]
  /\ rel \in SUBSET (Users \X Rows) /\ present \in SUBSET Rows
  /\ leafOf \in [Leaves -> Rows \cup {None}]
  /\ at \in {"idle", "query", "rel", "leaves"} /\ calls \in Nat
  /\ out \in Seq(UserObjects)
  /\ DOMAIN objs \subseteq Refs /\ \A ref \in DOMAIN objs : objs[ref] \in RowObjects
  /\ queryErr \in BOOLEAN /\ fresh \in BOOLEAN

\* What the histories and the call say of the database and the destination.
Tied ==
  /\ Legal(rel)
  /\ conf.struct => Len(out) <= 1
  /\ calls = 0 => at = "idle" /\ out = <<>> /\ DOMAIN objs = {}
  /\ calls > 0 => rel \subseteq ever /\ LeafPairs(leafOf) \subseteq everLeaf
  /\ \A p \in stable : p \in rel /\ p[2] \in present
  /\ stableLeaf \subseteq LeafPairs(leafOf)
  /\ at \in {"query", "rel"} => ~queryErr

\* The row a user's field has at n.
RowOf(j, n) == objs[out[j].rel[n]].row

\* What the destination holds belongs to its user, and so does the key by which
\* a row it belongs to is found; an object made by this call is not there before.
Right ==
  /\ \A j \in DOMAIN out :
       /\ out[j].fk # None => <<out[j].user, out[j].fk>> \in ever
       /\ \A n \in DOMAIN out[j].rel :
            out[j].rel[n] \in DOMAIN objs /\ <<out[j].user, RowOf(j, n)>> \in ever
  /\ \A ref \in DOMAIN objs :
       /\ ref[1] <= calls /\ (at \in {"query", "rel"} => ref[1] < calls)
       /\ \A n \in DOMAIN objs[ref].leaves : <<objs[ref].row, objs[ref].leaves[n]>> \in everLeaf

\* A destination that was empty, before the rows are there.
Empty ==
  /\ at = "query" => out = <<>>
  /\ at \in {"query", "rel"} =>
       /\ DOMAIN objs = {}
       /\ \A j \in DOMAIN out : out[j].rel = <<>>
  /\ at = "rel" /\ conf.kind = "belongs_to" =>
       \A j \in DOMAIN out : \A r \in Rows : <<out[j].user, r>> \in stable => out[j].fk = r

NoJoin == \A i, j \in DOMAIN out : out[i].user = out[j].user => i = j

\* No row twice with a user, no object with two users.
Apart ==
  /\ \A j \in DOMAIN out : \A a, b \in DOMAIN out[j].rel : RowOf(j, a) = RowOf(j, b) => a = b
  /\ conf.pointers /\ Many /\ NoJoin =>
       \A j, k \in DOMAIN out : \A a \in DOMAIN out[j].rel, b \in DOMAIN out[k].rel :
         out[j].rel[a] = out[k].rel[b] => j = k

\* Every row that was there all the time.
RowsThere ==
  calls > 0 /\ at \in {"leaves", "idle"} /\ ~queryErr =>
    \A j \in DOMAIN out : \A r \in Rows : <<out[j].user, r>> \in stable =>
      IF conf.kind = "has_one" THEN out[j].rel # <<>>
      ELSE \E n \in DOMAIN out[j].rel : RowOf(j, n) = r

\* Every leaf, and each once.
LeavesThere ==
  /\ at = "leaves" => \A ref \in DOMAIN objs : objs[ref].leaves = <<>>
  /\ at = "idle" /\ ~queryErr /\ "leaves" \notin failed =>
       \A j \in DOMAIN out : \A n \in DOMAIN out[j].rel : \A l \in Leaves :
         <<RowOf(j, n), l>> \in stableLeaf =>
           \E i \in DOMAIN objs[out[j].rel[n]].leaves : objs[out[j].rel[n]].leaves[i] = l
  /\ ~(conf.pointers /\ Many) \/ NoJoin =>
       \A ref \in DOMAIN objs : IsInjective(objs[ref].leaves)

Filled == fresh => Empty /\ Apart /\ RowsThere /\ LeavesThere

PreloadInv == QueryTypes /\ Tied /\ Right /\ Filled

-----------------------------------------------------------------------------
(* Sequences that hold the members of a set.                                *)

\* The lists SetToSeqs enumerates have every member of a finite set once.
LEMMA SeqsOfSet ==
  ASSUME NEW S, IsFiniteSet(S), NEW s \in SetToSeqs(S)
  PROVE  /\ Cardinality(S) \in Nat /\ s \in [1 .. Cardinality(S) -> S]
         /\ \A i, j \in DOMAIN s : s[i] = s[j] => i = j
         /\ \A x \in S : \E i \in DOMAIN s : s[i] = x
<1>1. PICK n \in Nat : n = Cardinality(S) BY FS_CardinalityType
<1>2. s \in [1 .. n -> S] /\ (\A i, j \in 1 .. n : i # j => s[i] # s[j])
  BY <1>1 DEF SetToSeqs
<1>3. PICK T : T = 1 .. n OBVIOUS
<1>4. IsFiniteSet(T) /\ Cardinality(T) = n
  <2>1. IsFiniteSet(1 .. n) /\ Cardinality(1 .. n) = IF 1 > n THEN 0 ELSE n - 1 + 1
    BY FS_Interval
  <2> QED BY <1>3, <2>1
<1>5. s \in Injection(T, S) BY <1>2, <1>3 DEF Injection, IsInjective
<1>6. s \in Surjection(T, S) BY <1>1, <1>4, <1>5, FS_Injection
<1>7. \A x \in S : \E i \in DOMAIN s : s[i] = x BY <1>2, <1>3, <1>6 DEF Surjection
<1> QED BY <1>1, <1>2, <1>7

\* SetToSeq is one of them.
LEMMA SeqOfSet ==
  ASSUME NEW S, IsFiniteSet(S)
  PROVE  SetToSeq(S) \in SetToSeqs(S)
<1>1. ExistsBijection(1 .. Cardinality(S), S) BY FS_CardinalityType
<1>2. \E f \in [1 .. Cardinality(S) -> S] : IsInjective(f)
  BY <1>1 DEF ExistsBijection, Bijection, Injection
<1>3. SetToSeq(S) \in [1 .. Cardinality(S) -> S] /\ IsInjective(SetToSeq(S))
  BY <1>2 DEF SetToSeq
<1>4. PICK s : s = SetToSeq(S) OBVIOUS
<1>5. PICK D : D = 1 .. Cardinality(S) OBVIOUS
<1>6. s \in [D -> S] /\ \A i, j \in D : i # j => s[i] # s[j]
  BY <1>3, <1>4, <1>5 DEF IsInjective
<1> QED BY <1>4, <1>5, <1>6 DEF SetToSeqs

\* A list repeated has the members it had, and once is as it was.
LEMMA RepeatedFacts ==
  ASSUME NEW S, NEW s \in Seq(S), NEW n \in Nat
  PROVE  /\ Repeated(s, n) \in Seq(S)
         /\ \A i \in DOMAIN Repeated(s, n) : \E k \in DOMAIN s : Repeated(s, n)[i] = s[k]
         /\ n # 0 => \A k \in DOMAIN s : \E i \in DOMAIN Repeated(s, n) : Repeated(s, n)[i] = s[k]
         /\ n = 1 => \A i \in DOMAIN Repeated(s, n) : i \in DOMAIN s /\ Repeated(s, n)[i] = s[i]
<1>1. PICK L \in Nat : L = Len(s) BY SeqFacts
<1>2. DOMAIN s = 1 .. L /\ \A k \in 1 .. L : s[k] \in S BY <1>1, SeqFacts
<1>3. PICK m : m = n * L OBVIOUS
<1>4. m \in Nat /\ (L = 0 => m = 0) /\ (n # 0 => m >= L) /\ (n = 1 => m = L)
  <2>1. m \in Nat BY <1>3
  <2>2. L = 0 => m = 0 BY <1>3
  <2>3. n = 1 => m = L BY <1>3
  <2>4. n # 0 => m >= L
    <3>1. SUFFICES ASSUME n # 0 PROVE m >= L OBVIOUS
    <3>2. m = (n - 1) * L + L BY <1>3
    <3>3. PICK q : q = (n - 1) * L OBVIOUS
    <3>4. n - 1 \in Nat BY <3>1
    <3>5. q \in Nat BY <3>3, <3>4
    <3> QED BY <3>2, <3>3, <3>5
  <2> QED BY <2>1, <2>2, <2>3, <2>4
<1>5. PICK r : r = Repeated(s, n) OBVIOUS
<1>6. r = [i \in 1 .. m |-> s[((i - 1) % L) + 1]] BY <1>1, <1>3, <1>5 DEF Repeated
<1>7. ASSUME NEW i \in 1 .. m
      PROVE  /\ ((i - 1) % L) + 1 \in 1 .. L
             /\ i <= L => ((i - 1) % L) + 1 = i
  <2>1. L \in Nat \ {0} BY <1>4
  <2>2. PICK a \in Nat : a = i - 1 BY <1>4
  <2>3. a % L \in 0 .. L - 1 BY <2>1, <2>2
  <2>4. a < L => a % L = a BY <2>1, <2>2
  <2>5. ((i - 1) % L) + 1 = (a % L) + 1 BY <2>2
  <2>6. i <= L => a < L BY <1>4, <2>1, <2>2
  <2>7. i = a + 1 BY <1>4, <2>2
  <2> QED BY <2>1, <2>3, <2>4, <2>5, <2>6, <2>7
<1>8. \A i \in 1 .. m : r[i] = s[((i - 1) % L) + 1] BY <1>6
<1>9. DOMAIN r = 1 .. m BY <1>6
<1>10. \A i \in 1 .. m : r[i] \in S BY <1>2, <1>7, <1>8
<1>11. r \in [1 .. m -> S] BY <1>6, <1>8, <1>10
<1>12. r \in Seq(S) BY <1>4, <1>11, IsSeq
<1>13. \A i \in 1 .. m : \E k \in DOMAIN s : r[i] = s[k] BY <1>2, <1>7, <1>8
<1>14. ASSUME n # 0, NEW k \in 1 .. L PROVE \E i \in 1 .. m : r[i] = s[k]
  <2>1. k \in 1 .. m /\ k <= L BY <1>4, <1>14
  <2> QED BY <1>7, <1>8, <2>1
<1>15. ASSUME n = 1, NEW i \in 1 .. m PROVE i \in 1 .. L /\ r[i] = s[i]
  <2>1. i \in 1 .. L /\ i <= L BY <1>4, <1>15
  <2> QED BY <1>7, <1>8, <2>1
<1> QED BY <1>2, <1>5, <1>9, <1>12, <1>13, <1>14, <1>15

-----------------------------------------------------------------------------
(* The places of an object in the destination.                              *)

LEMMA FiniteImage ==
  ASSUME NEW S, NEW T, IsFiniteSet(S), NEW f \in [S -> T]
  PROVE  IsFiniteSet({f[x] : x \in S})
<1>1. f \in Surjection(S, {f[x] : x \in S}) BY DEF Surjection
<1> QED BY <1>1, FS_Surjection

LEMMA UserFacts ==
  ASSUME QueryTypes, NEW j \in DOMAIN out
  PROVE  /\ out[j] \in UserObjects /\ out[j].user \in Users /\ out[j].fk \in Rows \cup {None}
         /\ out[j].rel \in Seq(Refs) /\ \A n \in DOMAIN out[j].rel : out[j].rel[n] \in Refs
<1>1. out \in Seq(UserObjects) BY DEF QueryTypes
<1>2. out[j] \in UserObjects BY <1>1, SeqFacts
<1>3. /\ out[j].user \in Users /\ out[j].fk \in Rows \cup {None}
      /\ out[j].rel \in Seq(Refs)
  BY <1>2 DEF UserObjects
<1>4. \A n \in DOMAIN out[j].rel : out[j].rel[n] \in Refs BY <1>3, SeqFacts
<1> QED BY <1>2, <1>3, <1>4

LEMMA ListedFacts ==
  ASSUME QueryTypes, NEW ref
  PROVE  /\ Listed(ref) \in Nat
         /\ ref \in Targets => Listed(ref) # 0
         /\ \A j \in DOMAIN out : \A n \in DOMAIN out[j].rel :
              /\ out[j].rel[n] = ref
              /\ \A k \in DOMAIN out : \A a \in DOMAIN out[k].rel :
                   out[k].rel[a] = ref => k = j /\ a = n
              => Listed(ref) = 1
<1> DEFINE list(j) == {<<j, i>> : i \in Places(j, ref)}
           all == UNION {list(j) : j \in DOMAIN out}
<1>0. out \in Seq(UserObjects) BY DEF QueryTypes
<1>1. Listed(ref) = Cardinality(all) BY DEF Listed
<1>2. ASSUME NEW j \in DOMAIN out PROVE IsFiniteSet(list(j))
  <2>1. out[j].rel \in Seq(Refs) BY UserFacts
  <2>2. PICK m \in Nat : DOMAIN out[j].rel = 1 .. m BY <2>1, SeqFacts
  <2>3. IsFiniteSet(1 .. m) BY FS_Interval
  <2>4. Places(j, ref) \in SUBSET (1 .. m) BY <2>2 DEF Places
  <2>5. PICK S : S = Places(j, ref) OBVIOUS
  <2>6. IsFiniteSet(S) BY <2>3, <2>4, <2>5, FS_Subset
  <2>7. PICK f : f = [i \in S |-> <<j, i>>] OBVIOUS
  <2>8. PICK T : T = {<<j, i>> : i \in S} OBVIOUS
  <2>9. f \in [S -> T] BY <2>7, <2>8
  <2>10. IsFiniteSet({f[x] : x \in S}) BY <2>6, <2>9, FiniteImage
  <2>11. list(j) = {f[x] : x \in S} BY <2>5, <2>7
  <2> QED BY <2>10, <2>11
<1>3. IsFiniteSet(all)
  <2>1. PICK m \in Nat : DOMAIN out = 1 .. m BY <1>0, SeqFacts
  <2>2. PICK F : F = {list(j) : j \in 1 .. m} OBVIOUS
  <2>3. PICK f : f = [j \in 1 .. m |-> list(j)] OBVIOUS
  <2>4. f \in [1 .. m -> F] BY <2>2, <2>3
  <2>5. IsFiniteSet(1 .. m) BY FS_Interval
  <2>6. PICK S : S = 1 .. m OBVIOUS
  <2>7. IsFiniteSet({f[x] : x \in S}) BY <2>4, <2>5, <2>6, FiniteImage
  <2>8. F = {f[x] : x \in S} BY <2>2, <2>3, <2>6
  <2>9. \A T \in F : IsFiniteSet(T) BY <1>2, <2>1, <2>2
  <2>10. IsFiniteSet(F) BY <2>7, <2>8
  <2>11. IsFiniteSet(UNION F) BY <2>9, <2>10, FS_UNION
  <2> QED BY <2>1, <2>2, <2>11
<1>4. ASSUME ref \in Targets PROVE all # {}
  <2>1. PICK j \in DOMAIN out : ref \in ToSet(out[j].rel) BY <1>4 DEF Targets
  <2>2. PICK i \in DOMAIN out[j].rel : out[j].rel[i] = ref BY <2>1 DEF ToSet
  <2>3. <<j, i>> \in list(j) BY <2>2 DEF Places
  <2> QED BY <2>3
<1>5. ASSUME NEW j \in DOMAIN out, NEW n \in DOMAIN out[j].rel, out[j].rel[n] = ref,
             \A k \in DOMAIN out : \A a \in DOMAIN out[k].rel :
               out[k].rel[a] = ref => k = j /\ a = n
      PROVE  Cardinality(all) = 1
  <2>1. <<j, n>> \in all BY <1>5 DEF Places
  <2>2. \A p \in all : p = <<j, n>> BY <1>5 DEF Places
  <2>3. PICK p : p = <<j, n>> OBVIOUS
  <2> HIDE DEF all
  <2>4. all = {p} BY <2>1, <2>2, <2>3
  <2> QED BY <2>4, FS_Singleton
<1> HIDE DEF all
<1>6. Cardinality(all) \in Nat BY <1>3, FS_CardinalityType
<1>7. ref \in Targets => Cardinality(all) # 0 BY <1>3, <1>4, FS_EmptySet
<1> QED BY <1>1, <1>5, <1>6, <1>7

-----------------------------------------------------------------------------
(* The rows found and the users they are matched with.                      *)

\* What the handlers take for a user's: of a struct every row found.
Meets(j, p) == (conf.struct /\ conf.kind # "many_to_many") \/ Matches(out[j], p)

LEMMA FoundFinite == ASSUME QueryTypes PROVE IsFiniteSet(Found)
<1>1. CASE conf.kind = "belongs_to"
  <2>1. PICK S : S = present \cap {out[j].fk : j \in DOMAIN out} OBVIOUS
  <2>2. S \in SUBSET Rows BY <2>1 DEF QueryTypes
  <2>3. IsFiniteSet(S) BY <2>2, FS_Subset, PreloadAssumption DEF PreloadAssumption
  <2>4. PICK T : T = {<<None, r>> : r \in S} OBVIOUS
  <2>5. PICK f : f = [r \in S |-> <<None, r>>] OBVIOUS
  <2>6. f \in [S -> T] BY <2>4, <2>5
  <2>7. IsFiniteSet({f[x] : x \in S}) BY <2>3, <2>6, FiniteImage
  <2>8. T = {f[x] : x \in S} BY <2>4, <2>5
  <2>9. Found = T BY <1>1, <2>1, <2>4 DEF Found
  <2> QED BY <2>7, <2>8, <2>9
<1>2. CASE conf.kind # "belongs_to"
  <2>1. PICK P : P = Users \X Rows OBVIOUS
  <2>2. IsFiniteSet(P) BY <2>1, FS_Product, PreloadAssumption DEF PreloadAssumption
  <2>3. Found \in SUBSET P BY <1>2, <2>1 DEF Found, QueryTypes
  <2>4. PICK F : F = Found OBVIOUS
  <2> QED BY <2>2, <2>3, <2>4, FS_Subset
<1> QED BY <1>1, <1>2

\* A row found belongs to the user it is matched with, or did when the user was read.
LEMMA FoundOwned ==
  ASSUME QueryTypes, Tied, Right, calls > 0, NEW j \in DOMAIN out, NEW p \in Found, Meets(j, p)
  PROVE  /\ p[2] \in Rows /\ <<out[j].user, p[2]>> \in ever
         /\ conf.kind = "belongs_to" => p = <<None, out[j].fk>>
         /\ conf.kind # "belongs_to" => p = <<out[j].user, p[2]>> /\ p \in rel
<1>0. out[j].user \in Users /\ out[j].fk \in Rows \cup {None} BY UserFacts
<1>1. ASSUME conf.struct, NEW k \in DOMAIN out PROVE k = j
  <2>1. out \in Seq(UserObjects) BY DEF QueryTypes
  <2>2. PICK m \in Nat : m = Len(out) /\ DOMAIN out = 1 .. m BY <2>1, SeqFacts
  <2>3. m <= 1 BY <1>1, <2>2 DEF Tied
  <2> QED BY <2>2, <2>3
<1>2. CASE conf.kind = "belongs_to"
  <2>1. PICK r \in present : /\ r \in {out[k].fk : k \in DOMAIN out}
                             /\ p = <<None, r>>
    BY <1>2 DEF Found
  <2>2. r \in Rows /\ r # None BY <2>1, PreloadAssumption DEF QueryTypes, PreloadAssumption
  <2>3. p[2] = r BY <2>1
  <2>4. r = out[j].fk
    <3>1. CASE conf.struct BY <1>1, <2>1, <3>1
    <3>2. CASE ~conf.struct BY <1>2, <2>3, <3>2 DEF Meets, Matches
    <3> QED BY <3>1, <3>2
  <2>5. <<out[j].user, r>> \in ever BY <2>2, <2>4 DEF Right
  <2> QED BY <1>2, <2>1, <2>2, <2>3, <2>4, <2>5
<1>3. CASE conf.kind # "belongs_to"
  <2>1. p \in rel /\ p[1] \in {out[k].user : k \in DOMAIN out} BY <1>3 DEF Found
  <2>2. p \in Users \X Rows BY <2>1 DEF QueryTypes
  <2>3. p = <<p[1], p[2]>> /\ p[2] \in Rows BY <2>2
  <2>4. p[1] = out[j].user
    <3>1. CASE conf.struct BY <1>1, <2>1, <3>1
    <3>2. CASE ~conf.struct BY <1>3, <3>2 DEF Meets, Matches
    <3> QED BY <3>1, <3>2
  <2>5. p \in ever BY <2>1 DEF Tied
  <2> QED BY <1>3, <2>1, <2>3, <2>4, <2>5
<1> QED BY <1>2, <1>3

\* What was related all the time is found and matched.
LEMMA StableFound ==
  ASSUME QueryTypes, Tied, NEW j \in DOMAIN out, NEW r \in Rows, <<out[j].user, r>> \in stable,
         conf.kind = "belongs_to" => out[j].fk = r
  PROVE  \E p \in Found : p[2] = r /\ Matches(out[j], p)
<1>1. PICK u : u = out[j].user OBVIOUS
<1>2. PICK q : q = <<u, r>> OBVIOUS
<1>3. q \in rel /\ q[2] \in present /\ q[2] = r /\ q[1] = u BY <1>1, <1>2 DEF Tied
<1>4. CASE conf.kind = "belongs_to"
  <2>1. PICK p : p = <<None, r>> OBVIOUS
  <2>2. r \in {out[k].fk : k \in DOMAIN out} BY <1>4
  <2>3. p \in Found BY <1>3, <1>4, <2>1, <2>2 DEF Found
  <2>4. p[2] = r BY <2>1
  <2>5. Matches(out[j], p) BY <1>4, <2>4 DEF Matches
  <2> QED BY <2>3, <2>4, <2>5
<1>5. CASE conf.kind # "belongs_to"
  <2>1. q \in Found BY <1>1, <1>3, <1>5 DEF Found
  <2>2. Matches(out[j], q) BY <1>1, <1>3, <1>5 DEF Matches
  <2> QED BY <1>3, <2>1, <2>2
<1> QED BY <1>4, <1>5

\* A list of rows found, none twice.
FoundList(results) ==
  \E n \in Nat : /\ results \in [1 .. n -> Found]
                 /\ \A a, b \in 1 .. n : results[a] = results[b] => a = b

\* The places of the results a user is given, in order.
LEMMA MatchingFacts ==
  ASSUME NEW results, FoundList(results), NEW j \in DOMAIN out
  PROVE  \E m \in Nat :
           /\ Matching(results, j) \in [1 .. m -> DOMAIN results]
           /\ \A a, b \in 1 .. m : Matching(results, j)[a] = Matching(results, j)[b] => a = b
           /\ \A a \in 1 .. m : Meets(j, results[Matching(results, j)[a]])
           /\ \A i \in DOMAIN results : Matches(out[j], results[i]) =>
                \E a \in 1 .. m : Matching(results, j)[a] = i
<1>1. PICK n \in Nat : results \in [1 .. n -> Found] BY DEF FoundList
<1>2. PICK M : M = Matching(results, j) OBVIOUS
<1>3. DOMAIN results = 1 .. n BY <1>1
<1>4. CASE conf.struct /\ conf.kind # "many_to_many"
  <2>1. M = [i \in 1 .. n |-> i] BY <1>2, <1>3, <1>4 DEF Matching
  <2>2. M \in [1 .. n -> DOMAIN results] BY <1>3, <2>1
  <2>3. \A a \in 1 .. n : M[a] = a BY <2>1
  <2>4. \A a \in 1 .. n : Meets(j, results[M[a]]) BY <1>4 DEF Meets
  <2> QED BY <1>2, <1>3, <2>2, <2>3, <2>4
<1>5. CASE ~(conf.struct /\ conf.kind # "many_to_many")
  <2>1. PICK S : S = {i \in DOMAIN results : Matches(out[j], results[i])} OBVIOUS
  <2>2. S \in SUBSET (1 .. n) /\ S \subseteq Int BY <1>3, <2>1
  <2>3. IsFiniteSet(1 .. n) BY FS_Interval
  <2>4. IsFiniteSet(S) BY <2>2, <2>3, FS_Subset
  <2>5. M = InOrder(S) BY <1>2, <1>5, <2>1 DEF Matching
  <2>6. PICK m \in Nat : m = Cardinality(S) BY <2>4, FS_CardinalityType
  <2>7. /\ M \in [1 .. m -> S]
        /\ \A a, b \in 1 .. m : a < b => M[a] < M[b]
        /\ \A i \in S : \E a \in 1 .. m : M[a] = i
    BY <2>2, <2>4, <2>5, <2>6, InOrderFacts
  <2>8. \A a \in 1 .. m : M[a] \in S /\ M[a] \in DOMAIN results BY <2>1, <2>7
  <2>9. M \in [1 .. m -> DOMAIN results] BY <2>7, <2>8
  <2>10. ASSUME NEW a \in 1 .. m, NEW b \in 1 .. m, M[a] = M[b] PROVE a = b
    <3>1. M[a] \in Int BY <1>3, <2>8
    <3>2. ~(a < b) BY <2>7, <2>10, <3>1
    <3>3. ~(b < a) BY <2>7, <2>10, <3>1
    <3> QED BY <3>2, <3>3
  <2>11. \A a \in 1 .. m : Meets(j, results[M[a]]) BY <2>1, <2>8 DEF Meets
  <2> QED BY <1>2, <2>1, <2>7, <2>9, <2>10, <2>11
<1> QED BY <1>4, <1>5

-----------------------------------------------------------------------------
(* What the first level of a preload does to the destination.               *)

Given(results, j) ==
  [n \in DOMAIN Matching(results, j) |-> Ref(j, Matching(results, j)[n])]

LEMMA FieldFacts ==
  ASSUME QueryTypes, NEW old \in Seq(Refs), NEW given \in Seq(Refs)
  PROVE  /\ FieldValue(old, given) \in Seq(Refs)
         /\ \A n \in DOMAIN FieldValue(old, given) :
              \/ \E a \in DOMAIN old : FieldValue(old, given)[n] = old[a]
              \/ \E a \in DOMAIN given : FieldValue(old, given)[n] = given[a]
         /\ old = <<>> /\ Many => FieldValue(old, given) = given
         /\ old = <<>> /\ ~Many => FieldValue(old, given) = IF given = <<>> THEN <<>> ELSE <<Last(given)>>
<1>1. PICK f : f = FieldValue(old, given) OBVIOUS
<1>2. PICK n \in Nat : n = Len(old) /\ DOMAIN old = 1 .. n /\ (n = 0 <=> old = <<>>) BY SeqFacts
<1>3. PICK m \in Nat : m = Len(given) /\ DOMAIN given = 1 .. m /\ (m = 0 <=> given = <<>>)
  BY SeqFacts
<1>4. conf.kind \in Kinds BY DEF QueryTypes
<1>5. CASE f = old \/ f = given
  <2>1. /\ f \in Seq(Refs)
        /\ \A k \in DOMAIN f : \/ \E a \in DOMAIN old : f[k] = old[a]
                              \/ \E a \in DOMAIN given : f[k] = given[a]
    BY <1>5
  <2>2. Many => conf.kind \in {"has_many", "many_to_many"} BY DEF Many
  <2>3. old = <<>> /\ Many => f = given
    BY <1>1, <1>5, <2>2 DEF FieldValue
  <2>4. old = <<>> /\ ~Many => f = IF given = <<>> THEN <<>> ELSE <<Last(given)>>
    BY <1>1, <1>4 DEF FieldValue, Many, Kinds
  <2> QED BY <1>1, <2>1, <2>3, <2>4
<1>6. CASE conf.kind = "has_many" /\ given # <<>> /\ f = old \o given
  <2>1. f \in Seq(Refs) /\ Len(f) = n + m BY <1>2, <1>3, <1>6
  <2>2. DOMAIN f = 1 .. n + m BY <2>1, SeqFacts
  <2>3. ASSUME NEW k \in 1 .. n + m
        PROVE  \/ \E a \in DOMAIN old : f[k] = old[a]
               \/ \E a \in DOMAIN given : f[k] = given[a]
    <3>1. CASE k <= n
      <4>1. k \in DOMAIN old /\ f[k] = old[k] BY <1>2, <1>6, <3>1
      <4> QED BY <4>1
    <3>2. CASE k > n
      <4>1. PICK a : a = k - n OBVIOUS
      <4>2. a \in DOMAIN given /\ f[k] = given[a] BY <1>2, <1>3, <1>6, <3>2, <4>1
      <4> QED BY <4>2
    <3> QED BY <3>1, <3>2
  <2>4. old = <<>> => f = given BY <1>6
  <2> QED BY <1>1, <1>6, <2>1, <2>2, <2>3, <2>4 DEF Many
<1>7. CASE ~Many /\ given # <<>> /\ f = <<Last(given)>>
  <2>1. m # 0 /\ m \in DOMAIN given BY <1>3, <1>7
  <2>2. Last(given) = given[m] BY <1>3 DEF Last
  <2>3. given[m] \in Refs BY <2>1, SeqFacts
  <2>4. f = <<given[m]>> BY <1>7, <2>2
  <2>5. f \in Seq(Refs) /\ DOMAIN f = {1} /\ f[1] = given[m] BY <2>3, <2>4
  <2> QED BY <1>1, <1>7, <2>1, <2>5
<1> QED BY <1>1, <1>4, <1>5, <1>6, <1>7 DEF FieldValue, Many, Kinds

LEMMA GivenFacts ==
  ASSUME QueryTypes, NEW results, FoundList(results), NEW j \in DOMAIN out
  PROVE  /\ Given(results, j) \in Seq(Refs)
         /\ \A a \in DOMAIN Given(results, j) : \E i \in DOMAIN results :
              Given(results, j)[a] = Ref(j, i) /\ Meets(j, results[i])
         /\ \A a, b \in DOMAIN Given(results, j) :
              Given(results, j)[a] = Given(results, j)[b] => a = b
         /\ \A i \in DOMAIN results : Matches(out[j], results[i]) =>
              \E a \in DOMAIN Given(results, j) : Given(results, j)[a] = Ref(j, i)
<1>1. PICK G : G = Given(results, j) OBVIOUS
<1>2. PICK M : M = Matching(results, j) OBVIOUS
<1>3. PICK m \in Nat :
           /\ M \in [1 .. m -> DOMAIN results]
           /\ \A a, b \in 1 .. m : M[a] = M[b] => a = b
           /\ \A a \in 1 .. m : Meets(j, results[M[a]])
           /\ \A i \in DOMAIN results : Matches(out[j], results[i]) => \E a \in 1 .. m : M[a] = i
  BY <1>2, MatchingFacts
<1>4. G = [a \in 1 .. m |-> Ref(j, M[a])] BY <1>1, <1>2, <1>3 DEF Given
<1>5. PICK n \in Nat : DOMAIN results = 1 .. n BY DEF FoundList
<1>6. calls \in Nat /\ j \in Nat
  <2>1. out \in Seq(UserObjects) BY DEF QueryTypes
  <2>2. PICK k \in Nat : DOMAIN out = 1 .. k BY <2>1, SeqFacts
  <2> QED BY <2>2 DEF QueryTypes
<1>7. ASSUME NEW i \in 1 .. n PROVE Ref(j, i) \in Refs /\ Ref(j, i)[3] = i
  BY <1>6 DEF Ref, Refs
<1>8. \A a \in 1 .. m : G[a] = Ref(j, M[a]) /\ M[a] \in 1 .. n BY <1>3, <1>4, <1>5
<1>9. \A a \in 1 .. m : G[a] \in Refs BY <1>7, <1>8
<1>10. G \in [1 .. m -> Refs] BY <1>4, <1>9
<1>11. G \in Seq(Refs) /\ DOMAIN G = 1 .. m BY <1>10, IsSeq
<1>12. ASSUME NEW a \in 1 .. m, NEW b \in 1 .. m, G[a] = G[b] PROVE a = b
  <2>1. G[a][3] = M[a] /\ G[b][3] = M[b] BY <1>7, <1>8
  <2> QED BY <1>3, <1>12, <2>1
<1>13. \A a \in 1 .. m : \E i \in DOMAIN results : G[a] = Ref(j, i) /\ Meets(j, results[i])
  BY <1>3, <1>5, <1>8
<1>14. \A i \in DOMAIN results : Matches(out[j], results[i]) => \E a \in 1 .. m : G[a] = Ref(j, i)
  BY <1>3, <1>8
<1> QED BY <1>1, <1>11, <1>12, <1>13, <1>14

LEMMA FoundRow == ASSUME QueryTypes, NEW p \in Found PROVE p[2] \in Rows
<1>1. CASE conf.kind = "belongs_to" BY <1>1 DEF Found, QueryTypes
<1>2. CASE conf.kind # "belongs_to"
  <2>1. p \in Users \X Rows BY <1>2 DEF Found, QueryTypes
  <2> QED BY <2>1
<1> QED BY <1>1, <1>2

\* The objects made are new; those there were stay.
LEMMA AssignObjects ==
  ASSUME QueryTypes, Right, at = "rel", NEW results, FoundList(results), Assign(results)
  PROVE  /\ DOMAIN objs' \subseteq Refs
         /\ \A ref \in DOMAIN objs : ref \in DOMAIN objs' /\ objs'[ref] = objs[ref]
         /\ \A ref \in DOMAIN objs' : ref \notin DOMAIN objs =>
              ref[1] = calls /\ objs'[ref].leaves = <<>> /\ objs'[ref] \in RowObjects
         /\ \A j \in DOMAIN out : \A i \in DOMAIN results :
              Ref(j, i) \in DOMAIN objs' /\ objs'[Ref(j, i)].row = results[i][2]
<1> DEFINE new == {Ref(j, i) : j \in DOMAIN out, i \in DOMAIN results}
<1>1. PICK n \in Nat : results \in [1 .. n -> Found] BY DEF FoundList
<1>2. objs' = [ref \in DOMAIN objs \cup new |->
                 IF ref \in DOMAIN objs THEN objs[ref]
                 ELSE [row |-> results[ref[3]][2], leaves |-> <<>>]]
  BY DEF Assign
<1>3. \A ref \in DOMAIN objs : ref \in DOMAIN objs' /\ objs'[ref] = objs[ref] BY <1>2
<1>4. calls \in Nat /\ DOMAIN out \subseteq Nat
  <2>1. out \in Seq(UserObjects) /\ calls \in Nat BY DEF QueryTypes
  <2>2. PICK k \in Nat : DOMAIN out = 1 .. k BY <2>1, SeqFacts
  <2> QED BY <2>1, <2>2
<1>5. ASSUME NEW j \in DOMAIN out, NEW i \in DOMAIN results
      PROVE  /\ Ref(j, i) \in Refs /\ Ref(j, i)[1] = calls /\ Ref(j, i)[3] = i
             /\ Ref(j, i) \notin DOMAIN objs /\ results[i][2] \in Rows
  <2>1. i \in Nat /\ results[i] \in Found BY <1>1
  <2>2. Ref(j, i) = <<calls, IF conf.pointers THEN 0 ELSE j, i>> BY DEF Ref
  <2>3. Ref(j, i) \in Refs /\ Ref(j, i)[1] = calls /\ Ref(j, i)[3] = i
    BY <1>4, <2>1, <2>2 DEF Refs
  <2>4. Ref(j, i) \notin DOMAIN objs BY <1>4, <2>3 DEF Right
  <2> QED BY <2>1, <2>3, <2>4, FoundRow
<1>6. ASSUME NEW ref \in DOMAIN objs', ref \notin DOMAIN objs
      PROVE  ref \in Refs /\ ref[1] = calls /\ objs'[ref].leaves = <<>> /\ objs'[ref] \in RowObjects
  <2>1. ref \in new BY <1>2, <1>6
  <2>2. PICK j \in DOMAIN out, i \in DOMAIN results : ref = Ref(j, i) BY <2>1
  <2>3. objs'[ref] = [row |-> results[ref[3]][2], leaves |-> <<>>] BY <1>2, <1>6, <2>1
  <2>4. results[ref[3]][2] \in Rows /\ <<>> \in Seq(Leaves) BY <1>5, <2>2
  <2> QED BY <1>5, <2>2, <2>3, <2>4 DEF RowObjects
<1>7. ASSUME NEW j \in DOMAIN out, NEW i \in DOMAIN results
      PROVE  Ref(j, i) \in DOMAIN objs' /\ objs'[Ref(j, i)].row = results[i][2]
  <2>1. PICK ref : ref = Ref(j, i) OBVIOUS
  <2>2. ref \in new BY <2>1
  <2>3. ref[3] = i /\ ref \notin DOMAIN objs BY <1>5, <2>1
  <2>4. objs'[ref] = [row |-> results[ref[3]][2], leaves |-> <<>>] BY <1>2, <2>2, <2>3
  <2>5. ref \in DOMAIN objs' BY <1>2, <2>2
  <2> QED BY <2>1, <2>3, <2>4, <2>5
<1>8. DOMAIN objs' \subseteq Refs BY <1>6 DEF QueryTypes
<1> QED BY <1>3, <1>6, <1>7, <1>8

LEMMA AssignUsers ==
  ASSUME QueryTypes, NEW results, FoundList(results), Assign(results)
  PROVE  /\ out' \in Seq(UserObjects) /\ Len(out') = Len(out) /\ DOMAIN out' = DOMAIN out
         /\ \A j \in DOMAIN out :
              /\ out'[j].user = out[j].user /\ out'[j].fk = out[j].fk
              /\ out'[j].rel = FieldValue(out[j].rel, Given(results, j))
<1>1. out' = [j \in DOMAIN out |-> [out[j] EXCEPT !.rel = FieldValue(@, Given(results, j))]]
  BY DEF Assign, Given
<1>2. out \in Seq(UserObjects) BY DEF QueryTypes
<1>3. PICK m \in Nat : m = Len(out) /\ DOMAIN out = 1 .. m BY <1>2, SeqFacts
<1>4. ASSUME NEW j \in DOMAIN out
      PROVE  /\ out'[j] \in UserObjects
             /\ out'[j].user = out[j].user /\ out'[j].fk = out[j].fk
             /\ out'[j].rel = FieldValue(out[j].rel, Given(results, j))
  <2>1. /\ out[j] \in UserObjects /\ out[j].rel \in Seq(Refs) BY UserFacts
  <2>2. PICK old \in Seq(Refs) : old = out[j].rel BY <2>1
  <2>3. PICK given \in Seq(Refs) : given = Given(results, j) BY GivenFacts
  <2>4. FieldValue(old, given) \in Seq(Refs) BY FieldFacts
  <2>5. PICK f \in Seq(Refs) : f = FieldValue(old, given) BY <2>4
  <2>6. out'[j] = [out[j] EXCEPT !.rel = f] BY <1>1, <2>2, <2>3, <2>5
  <2>7. out'[j] \in UserObjects BY <2>1, <2>6 DEF UserObjects
  <2>8. /\ out'[j].user = out[j].user /\ out'[j].fk = out[j].fk /\ out'[j].rel = f
    BY <2>1, <2>6 DEF UserObjects
  <2> QED BY <2>2, <2>3, <2>5, <2>7, <2>8
<1>5. out' \in [1 .. m -> UserObjects] BY <1>1, <1>3, <1>4
<1>6. out' \in Seq(UserObjects) /\ Len(out') = m /\ DOMAIN out' = 1 .. m BY <1>5, IsSeq
<1> QED BY <1>3, <1>4, <1>6

unchangedByReads == <<conf, rel, present, leafOf, calls, fresh, ever, everLeaf, stable, stableLeaf>>

\* A field has what it had and what its user is given.
LEMMA AssignField ==
  ASSUME QueryTypes, Right, at = "rel", NEW results, FoundList(results), Assign(results),
         NEW j \in DOMAIN out, NEW n \in DOMAIN out'[j].rel
  PROVE  /\ out'[j].rel[n] \in DOMAIN objs'
         /\ \/ \E a \in DOMAIN out[j].rel :
                 out'[j].rel[n] = out[j].rel[a] /\ RowOf(j, n)' = RowOf(j, a)
            \/ \E i \in DOMAIN results :
                 /\ out'[j].rel[n] = Ref(j, i) /\ RowOf(j, n)' = results[i][2]
                 /\ Meets(j, results[i]) /\ results[i] \in Found
<1>1. PICK old \in Seq(Refs) : old = out[j].rel BY UserFacts
<1>2. PICK given \in Seq(Refs) : given = Given(results, j) BY GivenFacts
<1>3. PICK f : f = FieldValue(old, given) OBVIOUS
<1>4. out'[j].rel = f BY <1>1, <1>2, <1>3, AssignUsers
<1>5. (\E a \in DOMAIN old : f[n] = old[a]) \/ (\E a \in DOMAIN given : f[n] = given[a])
  BY <1>3, <1>4, FieldFacts
<1>6. RowOf(j, n)' = objs'[f[n]].row BY <1>4 DEF RowOf
<1>7. ASSUME NEW a \in DOMAIN old, f[n] = old[a]
      PROVE  /\ f[n] \in DOMAIN objs'
             /\ \E b \in DOMAIN out[j].rel : f[n] = out[j].rel[b] /\ RowOf(j, n)' = RowOf(j, b)
  <2>1. a \in DOMAIN out[j].rel /\ f[n] = out[j].rel[a] BY <1>1, <1>7
  <2>2. out[j].rel[a] \in DOMAIN objs BY <2>1 DEF Right
  <2>3. f[n] \in DOMAIN objs' /\ objs'[f[n]] = objs[out[j].rel[a]] BY <2>1, <2>2, AssignObjects
  <2>4. RowOf(j, n)' = RowOf(j, a) BY <1>6, <2>3 DEF RowOf
  <2> QED BY <2>1, <2>3, <2>4
<1>8. ASSUME NEW a \in DOMAIN given, f[n] = given[a]
      PROVE  /\ f[n] \in DOMAIN objs'
             /\ \E i \in DOMAIN results :
                 /\ f[n] = Ref(j, i) /\ RowOf(j, n)' = results[i][2]
                 /\ Meets(j, results[i]) /\ results[i] \in Found
  <2>1. PICK i \in DOMAIN results : given[a] = Ref(j, i) /\ Meets(j, results[i])
    BY <1>2, GivenFacts
  <2>2. Ref(j, i) \in DOMAIN objs' /\ objs'[Ref(j, i)].row = results[i][2] BY AssignObjects
  <2>3. results[i] \in Found BY DEF FoundList
  <2>4. RowOf(j, n)' = results[i][2] BY <1>6, <1>8, <2>1, <2>2
  <2> QED BY <1>8, <2>1, <2>2, <2>3, <2>4
<1> QED BY <1>4, <1>5, <1>7, <1>8

LEMMA AssignRight ==
  ASSUME QueryTypes, Tied, Right, at = "rel", NEW results, FoundList(results), Assign(results),
         at' = "leaves", UNCHANGED unchangedByReads
  PROVE  Right'
<1>0. calls > 0 /\ calls \in Nat BY DEF QueryTypes, Tied
<1>1. DOMAIN out' = DOMAIN out BY AssignUsers
<1>2. UNCHANGED <<calls, ever, everLeaf>> BY DEF unchangedByReads
<1>3. ASSUME NEW j \in DOMAIN out
      PROVE  out'[j].fk # None => <<out'[j].user, out'[j].fk>> \in ever'
  BY <1>2, AssignUsers DEF Right
<1>4. ASSUME NEW j \in DOMAIN out, NEW n \in DOMAIN out'[j].rel
      PROVE  out'[j].rel[n] \in DOMAIN objs' /\ <<out'[j].user, RowOf(j, n)'>> \in ever'
  <2>1. out'[j].rel[n] \in DOMAIN objs' BY AssignField
  <2>2. out'[j].user = out[j].user BY AssignUsers
  <2>3. CASE \E a \in DOMAIN out[j].rel : RowOf(j, n)' = RowOf(j, a)
    <3>1. PICK a \in DOMAIN out[j].rel : RowOf(j, n)' = RowOf(j, a) BY <2>3
    <3>2. <<out[j].user, RowOf(j, a)>> \in ever BY DEF Right
    <3> QED BY <1>2, <2>1, <2>2, <3>1, <3>2
  <2>4. CASE \E i \in DOMAIN results :
               RowOf(j, n)' = results[i][2] /\ Meets(j, results[i]) /\ results[i] \in Found
    <3>1. PICK i \in DOMAIN results :
             RowOf(j, n)' = results[i][2] /\ Meets(j, results[i]) /\ results[i] \in Found
      BY <2>4
    <3>2. PICK p \in Found : p = results[i] BY <3>1
    <3>3. Meets(j, p) /\ RowOf(j, n)' = p[2] BY <3>1, <3>2
    <3>4. <<out[j].user, p[2]>> \in ever BY <1>0, <3>3, FoundOwned
    <3> QED BY <1>2, <2>1, <2>2, <3>3, <3>4
  <2> QED BY <2>3, <2>4, AssignField
<1>5. ASSUME NEW ref \in DOMAIN objs'
      PROVE  /\ ref[1] <= calls'
             /\ \A n \in DOMAIN objs'[ref].leaves :
                  <<objs'[ref].row, objs'[ref].leaves[n]>> \in everLeaf'
  <2>1. CASE ref \in DOMAIN objs
    <3>1. objs'[ref] = objs[ref] BY <2>1, AssignObjects
    <3> QED BY <1>2, <2>1, <3>1 DEF Right
  <2>2. CASE ref \notin DOMAIN objs
    <3>1. ref[1] = calls /\ objs'[ref].leaves = <<>> BY <2>2, AssignObjects
    <3>2. DOMAIN objs'[ref].leaves = {} BY <3>1
    <3> QED BY <1>0, <1>2, <3>1, <3>2
  <2> QED BY <2>1, <2>2
<1> QED BY <1>1, <1>3, <1>4, <1>5 DEF Right

\* In a destination that was empty a field has what its user is given, and
\* nothing else: all of it, or the last.
LEMMA AssignFresh ==
  ASSUME QueryTypes, Right, Empty, at = "rel", NEW results, FoundList(results), Assign(results),
         NEW j \in DOMAIN out
  PROVE  /\ out'[j].rel \in Seq(Refs)
         /\ Many => out'[j].rel = Given(results, j)
         /\ ~Many => out'[j].rel = IF Given(results, j) = <<>> THEN <<>> ELSE <<Last(Given(results, j))>>
         /\ \A n \in DOMAIN out'[j].rel : \E i \in DOMAIN results :
              /\ out'[j].rel[n] = Ref(j, i) /\ RowOf(j, n)' = results[i][2]
              /\ Meets(j, results[i]) /\ results[i] \in Found
<1>1. PICK old \in Seq(Refs) : old = out[j].rel BY UserFacts
<1>2. PICK given \in Seq(Refs) : given = Given(results, j) BY GivenFacts
<1>3. out'[j].rel = FieldValue(old, given) BY <1>1, <1>2, AssignUsers
<1>4. old = <<>> BY <1>1 DEF Empty
<1>5. /\ FieldValue(old, given) \in Seq(Refs)
      /\ Many => FieldValue(old, given) = given
      /\ ~Many => FieldValue(old, given) = IF given = <<>> THEN <<>> ELSE <<Last(given)>>
  BY <1>4, FieldFacts
<1>6. DOMAIN out[j].rel = {} BY <1>1, <1>4
<1>7. \A n \in DOMAIN out'[j].rel : \E i \in DOMAIN results :
              /\ out'[j].rel[n] = Ref(j, i) /\ RowOf(j, n)' = results[i][2]
              /\ Meets(j, results[i]) /\ results[i] \in Found
  BY <1>6, AssignField
<1> QED BY <1>2, <1>3, <1>5, <1>7

LEMMA AssignApart ==
  ASSUME QueryTypes, Tied, Right, Empty, at = "rel", NEW results, FoundList(results),
         Assign(results), UNCHANGED unchangedByReads
  PROVE  Apart'
<1>0. calls > 0 BY DEF QueryTypes, Tied
<1>1. DOMAIN out' = DOMAIN out BY AssignUsers
<1>2. conf' = conf /\ (Many' <=> Many) BY DEF unchangedByReads, Many
<1>3. PICK len \in Nat : /\ results \in [1 .. len -> Found]
                         /\ \A a, b \in 1 .. len : results[a] = results[b] => a = b
  BY DEF FoundList
<1>4. ASSUME Many, NEW j \in DOMAIN out, NEW i \in DOMAIN results, Meets(j, results[i]),
             results[i] \in Found
      PROVE  results[i] = <<out[j].user, results[i][2]>>
  <2>1. PICK p \in Found : p = results[i] BY <1>4
  <2>2. conf.kind # "belongs_to" BY <1>4 DEF Many
  <2>3. Meets(j, p) BY <1>4, <2>1
  <2> QED BY <1>0, <2>1, <2>2, <2>3, FoundOwned
<1>5. ASSUME NEW j \in DOMAIN out, NEW a \in DOMAIN out'[j].rel, NEW b \in DOMAIN out'[j].rel,
             RowOf(j, a)' = RowOf(j, b)'
      PROVE  a = b
  <2>1. CASE Many
    <3>1. PICK i \in DOMAIN results :
               /\ out'[j].rel[a] = Ref(j, i) /\ RowOf(j, a)' = results[i][2]
               /\ Meets(j, results[i]) /\ results[i] \in Found
      BY AssignFresh
    <3>2. PICK k \in DOMAIN results :
               /\ out'[j].rel[b] = Ref(j, k) /\ RowOf(j, b)' = results[k][2]
               /\ Meets(j, results[k]) /\ results[k] \in Found
      BY AssignFresh
    <3>3. /\ results[i] = <<out[j].user, results[i][2]>>
          /\ results[k] = <<out[j].user, results[k][2]>>
      BY <1>4, <2>1, <3>1, <3>2
    <3>4. i = k BY <1>3, <1>5, <3>1, <3>2, <3>3
    <3>5. PICK given : given = Given(results, j) OBVIOUS
    <3>6. out'[j].rel = given BY <2>1, <3>5, AssignFresh
    <3>7. \A x, y \in DOMAIN given : given[x] = given[y] => x = y BY <3>5, GivenFacts
    <3>8. given[a] = given[b] BY <3>1, <3>2, <3>4, <3>6
    <3> QED BY <3>6, <3>7, <3>8
  <2>2. CASE ~Many
    <3>1. \/ out'[j].rel = <<>> \/ \E x : out'[j].rel = <<x>> BY <2>2, AssignFresh
    <3>2. DOMAIN out'[j].rel \subseteq {1} BY <3>1
    <3> QED BY <3>2
  <2> QED BY <2>1, <2>2
<1>6. ASSUME conf.pointers, Many, NoJoin', NEW j \in DOMAIN out, NEW k \in DOMAIN out,
             NEW a \in DOMAIN out'[j].rel, NEW b \in DOMAIN out'[k].rel,
             out'[j].rel[a] = out'[k].rel[b]
      PROVE  j = k
  <2>1. PICK x \in DOMAIN results :
             /\ out'[j].rel[a] = Ref(j, x) /\ Meets(j, results[x]) /\ results[x] \in Found
    BY AssignFresh
  <2>2. PICK y \in DOMAIN results :
             /\ out'[k].rel[b] = Ref(k, y) /\ Meets(k, results[y]) /\ results[y] \in Found
    BY AssignFresh
  <2>3. x = y
    <3>1. Ref(j, x) = Ref(k, y) BY <1>6, <2>1, <2>2
    <3>2. Ref(j, x)[3] = x /\ Ref(k, y)[3] = y BY DEF Ref
    <3> QED BY <3>1, <3>2
  <2>4. results[x] = <<out[j].user, results[x][2]>> /\ results[x] = <<out[k].user, results[x][2]>>
    BY <1>4, <1>6, <2>1, <2>2, <2>3
  <2>5. out[j].user = out[k].user BY <2>4
  <2>6. out'[j].user = out[j].user /\ out'[k].user = out[k].user BY AssignUsers
  <2> QED BY <1>1, <1>6, <2>5, <2>6 DEF NoJoin
<1> QED BY <1>1, <1>2, <1>5, <1>6 DEF Apart

LEMMA AssignThere ==
  ASSUME QueryTypes, Tied, Right, Empty, at = "rel", NEW results, FoundList(results),
         Assign(results), UNCHANGED unchangedByReads,
         \A p \in Found : \E i \in DOMAIN results : results[i] = p
  PROVE  RowsThere'
<1>0. calls > 0 BY DEF QueryTypes, Tied
<1>1. DOMAIN out' = DOMAIN out BY AssignUsers
<1>2. UNCHANGED <<conf, stable>> /\ (Many' <=> Many) BY DEF unchangedByReads, Many
<1>3. ASSUME NEW j \in DOMAIN out, NEW r \in Rows, <<out'[j].user, r>> \in stable
      PROVE  IF conf.kind = "has_one" THEN out'[j].rel # <<>>
             ELSE \E n \in DOMAIN out'[j].rel : RowOf(j, n)' = r
  <2>1. out'[j].user = out[j].user BY AssignUsers
  <2>2. <<out[j].user, r>> \in stable BY <1>3, <2>1
  <2>3. conf.kind = "belongs_to" => out[j].fk = r BY <2>2 DEF Empty
  <2>4. PICK p \in Found : p[2] = r /\ Matches(out[j], p) BY <2>2, <2>3, StableFound
  <2>5. PICK i \in DOMAIN results : results[i] = p OBVIOUS
  <2>6. PICK given \in Seq(Refs) : given = Given(results, j) BY GivenFacts
  <2>7. PICK a \in DOMAIN given : given[a] = Ref(j, i) BY <2>4, <2>5, <2>6, GivenFacts
  <2>8. given # <<>> BY <2>7
  <2>9. objs'[Ref(j, i)].row = r BY <2>4, <2>5, AssignObjects
  <2>10. CASE Many
    <3>1. out'[j].rel = given BY <2>6, <2>10, AssignFresh
    <3>2. RowOf(j, a)' = r BY <2>7, <2>9, <3>1 DEF RowOf
    <3>3. conf.kind # "has_one" BY <2>10 DEF Many
    <3> QED BY <2>7, <3>1, <3>2, <3>3
  <2>11. CASE ~Many
    <3>1. out'[j].rel = <<Last(given)>> BY <2>6, <2>8, <2>11, AssignFresh
    <3>2. out'[j].rel # <<>> /\ 1 \in DOMAIN out'[j].rel BY <3>1
    <3>3. ASSUME conf.kind # "has_one" PROVE RowOf(j, 1)' = r
      <4>1. conf.kind = "belongs_to" BY <2>11, <3>3 DEF QueryTypes, Kinds, Many
      <4>2. PICK k \in DOMAIN results :
                 RowOf(j, 1)' = results[k][2] /\ Meets(j, results[k]) /\ results[k] \in Found
        BY <3>2, AssignFresh, ZenonT(60)
      <4>3. PICK q \in Found : q = results[k] BY <4>2
      <4>4. Meets(j, q) BY <4>2, <4>3
      <4>5. q = <<None, out[j].fk>> BY <1>0, <4>1, <4>4, FoundOwned
      <4>6. RowOf(j, 1)' = out[j].fk BY <4>2, <4>3, <4>5
      <4> QED BY <2>3, <4>1, <4>6
    <3> QED BY <3>2, <3>3
  <2> QED BY <2>10, <2>11
<1> QED BY <1>1, <1>2, <1>3 DEF RowsThere

-----------------------------------------------------------------------------
(* The invariant, step by step.                                             *)

LEMMA TiedKept ==
  ASSUME Tied, UNCHANGED unchangedByReads, calls > 0, conf.struct => Len(out') <= 1,
         at' \in {"query", "rel"} => ~queryErr'
  PROVE  Tied'
BY DEF Tied, unchangedByReads, Legal, LeafPairs

LEMMA AssignInv ==
  ASSUME PreloadInv, at = "rel", NEW results, FoundList(results), Assign(results),
         at' = "leaves", queryErr' \in BOOLEAN, UNCHANGED unchangedByReads,
         ~queryErr' => \A p \in Found : \E i \in DOMAIN results : results[i] = p
  PROVE  PreloadInv'
<1>0. QueryTypes /\ Tied /\ Right /\ Filled BY DEF PreloadInv
<1>1. calls > 0 BY <1>0 DEF QueryTypes, Tied
<1>2. out' \in Seq(UserObjects) /\ Len(out') = Len(out) BY <1>0, AssignUsers
<1>3. DOMAIN objs' \subseteq Refs BY <1>0, AssignObjects
<1>4. ASSUME NEW ref \in DOMAIN objs' PROVE objs'[ref] \in RowObjects
  <2>1. CASE ref \in DOMAIN objs BY <1>0, <2>1, AssignObjects DEF QueryTypes
  <2>2. CASE ref \notin DOMAIN objs BY <1>0, <2>2, AssignObjects
  <2> QED BY <2>1, <2>2
<1>5. QueryTypes' BY <1>0, <1>2, <1>3, <1>4 DEF QueryTypes, unchangedByReads
<1>6. Tied' BY <1>0, <1>1, <1>2, TiedKept DEF Tied
<1>7. Right' BY <1>0, AssignRight
<1>8. ASSUME fresh PROVE (Empty /\ Apart /\ RowsThere /\ LeavesThere)'
  <2>1. Empty BY <1>0, <1>8 DEF Filled
  <2>2. Empty' BY DEF Empty
  <2>3. Apart' BY <1>0, <2>1, AssignApart
  <2>4. RowsThere'
    <3>1. CASE queryErr' BY <3>1 DEF RowsThere
    <3>2. CASE ~queryErr' BY <1>0, <2>1, <3>2, AssignThere
    <3> QED BY <3>1, <3>2
  <2>5. \A ref \in DOMAIN objs' : objs'[ref].leaves = <<>> BY <1>0, <2>1, AssignObjects DEF Empty
  <2>6. \A ref \in DOMAIN objs' : IsInjective(objs'[ref].leaves) BY <2>5 DEF IsInjective
  <2>7. LeavesThere' BY <2>5, <2>6 DEF LeavesThere
  <2> QED BY <2>2, <2>3, <2>4, <2>7
<1>9. Filled' BY <1>8 DEF Filled, unchangedByReads
<1> QED BY <1>5, <1>6, <1>7, <1>9 DEF PreloadInv

\* A step that leaves the destination as it was, before the leaves.
LEMMA KeptInv ==
  ASSUME PreloadInv, at = "rel", at' = "leaves", UNCHANGED <<out, objs>>, UNCHANGED unchangedByReads,
         queryErr' \in BOOLEAN, queryErr' \/ NoKeys
  PROVE  PreloadInv'
<1>0. QueryTypes /\ Tied /\ Right /\ Filled BY DEF PreloadInv
<1>1. calls > 0 BY <1>0 DEF QueryTypes, Tied
<1>2. QueryTypes' BY <1>0 DEF QueryTypes, unchangedByReads
<1>3. Tied' BY <1>0, <1>1, TiedKept DEF Tied
<1>4. UNCHANGED <<conf, calls, fresh, ever, everLeaf, stable>> BY DEF unchangedByReads
<1>5. Right' BY <1>0, <1>4 DEF Right, RowOf, QueryTypes
<1>6. ASSUME fresh PROVE (Empty /\ Apart /\ RowsThere /\ LeavesThere)'
  <2>1. Empty BY <1>0, <1>6 DEF Filled
  <2>2. Empty' BY DEF Empty
  <2>3. \A j \in DOMAIN out' : DOMAIN out'[j].rel = {} BY <2>1 DEF Empty
  <2>4. Apart' BY <2>3 DEF Apart
  <2>5. ASSUME ~queryErr', NEW j \in DOMAIN out', NEW r \in Rows, <<out'[j].user, r>> \in stable'
        PROVE  FALSE
    <3>1. CASE conf.kind = "belongs_to"
      <4>1. out[j].fk = r BY <1>4, <2>1, <2>5, <3>1 DEF Empty
      <4>2. out[j].fk = None BY <2>5, <3>1 DEF NoKeys
      <4> QED BY <4>1, <4>2, PreloadAssumption DEF PreloadAssumption
    <3>2. CASE conf.kind # "belongs_to" BY <2>5, <3>2 DEF NoKeys
    <3> QED BY <3>1, <3>2
  <2>6. RowsThere' BY <2>5 DEF RowsThere
  <2>7. \A ref : ref \notin DOMAIN objs' BY <2>1 DEF Empty
  <2>8. LeavesThere' BY <2>7 DEF LeavesThere
  <2> QED BY <2>2, <2>4, <2>6, <2>8
<1>7. Filled' BY <1>4, <1>6 DEF Filled
<1> QED BY <1>2, <1>3, <1>5, <1>7 DEF PreloadInv

LEMMA RelInv == ASSUME PreloadInv, PreloadRel PROVE PreloadInv'
<1>0. QueryTypes BY DEF PreloadInv
<1>1. at = "rel" /\ at' = "leaves" /\ UNCHANGED unchangedByReads
  BY DEF PreloadRel, unchangedByReads
<1>2. CASE \E results \in SetToSeqs(Found) : Assign(results) /\ UNCHANGED <<queryErr, failed>>
  <2>1. PICK results \in SetToSeqs(Found) : Assign(results) /\ UNCHANGED <<queryErr, failed>>
    BY <1>2
  <2>2. PICK F : F = Found OBVIOUS
  <2>3. IsFiniteSet(F) /\ results \in SetToSeqs(F) BY <1>0, <2>2, FoundFinite
  <2>4. /\ Cardinality(F) \in Nat /\ results \in [1 .. Cardinality(F) -> F]
        /\ \A i, j \in DOMAIN results : results[i] = results[j] => i = j
        /\ \A x \in F : \E i \in DOMAIN results : results[i] = x
    BY <2>3, SeqsOfSet
  <2>5. FoundList(results) BY <2>2, <2>4 DEF FoundList
  <2>6. queryErr' \in BOOLEAN BY <1>0, <2>1 DEF QueryTypes
  <2> QED BY <1>1, <2>1, <2>2, <2>4, <2>5, <2>6, AssignInv
<1>3. CASE queryErr' = TRUE /\ UNCHANGED <<out, objs>> BY <1>1, <1>3, KeptInv
<1>4. CASE queryErr' = TRUE /\ Assign(<<>>)
  <2>1. PICK results : results = <<>> OBVIOUS
  <2>2. results \in [1 .. 0 -> Found] BY <2>1
  <2>3. \A a, b \in 1 .. 0 : FALSE OBVIOUS
  <2>4. FoundList(results) BY <2>2, <2>3 DEF FoundList
  <2>5. Assign(results) BY <1>4, <2>1
  <2> QED BY <1>1, <1>4, <2>4, <2>5, AssignInv
<1> QED BY <1>2, <1>3, <1>4 DEF PreloadRel

LEMMA NoPreloadInv == ASSUME PreloadInv, NoPreload PROVE PreloadInv'
<1>1. /\ at = "rel" /\ at' = "leaves" /\ NoKeys
      /\ UNCHANGED <<out, objs>> /\ UNCHANGED unchangedByReads /\ queryErr' = queryErr
  BY DEF NoPreload, unchangedByReads
<1>2. queryErr' \in BOOLEAN BY <1>1 DEF PreloadInv, QueryTypes
<1> QED BY <1>1, <1>2, KeptInv

-----------------------------------------------------------------------------
(* The second level.                                                        *)

LEMMA LeavesOfFacts ==
  ASSUME QueryTypes, NEW r
  PROVE  /\ LeavesOf(r) \in Seq(Leaves)
         /\ \A n \in DOMAIN LeavesOf(r) : leafOf[LeavesOf(r)[n]] = r
         /\ \A a, b \in DOMAIN LeavesOf(r) : LeavesOf(r)[a] = LeavesOf(r)[b] => a = b
         /\ \A l \in Leaves : leafOf[l] = r => \E n \in DOMAIN LeavesOf(r) : LeavesOf(r)[n] = l
<1>1. PICK S : S = {l \in Leaves : leafOf[l] = r} OBVIOUS
<1>2. IsFiniteSet(S)
  <2>1. S \in SUBSET Leaves BY <1>1
  <2> QED BY <2>1, FS_Subset, PreloadAssumption DEF PreloadAssumption
<1>3. PICK s \in SetToSeqs(S) : s = SetToSeq(S) BY <1>2, SeqOfSet
<1>4. LeavesOf(r) = s BY <1>1, <1>3 DEF LeavesOf
<1>5. /\ Cardinality(S) \in Nat /\ s \in [1 .. Cardinality(S) -> S]
      /\ \A i, j \in DOMAIN s : s[i] = s[j] => i = j
      /\ \A x \in S : \E i \in DOMAIN s : s[i] = x
  BY <1>2, SeqsOfSet
<1>6. \A n \in DOMAIN s : s[n] \in S BY <1>5
<1>7. s \in [1 .. Cardinality(S) -> Leaves] BY <1>1, <1>5, <1>6
<1>8. s \in Seq(Leaves) BY <1>5, <1>7, IsSeq
<1> QED BY <1>1, <1>4, <1>5, <1>6, <1>8

LEMMA TimesFacts ==
  ASSUME QueryTypes, NEW ref
  PROVE  Times(ref) \in Nat /\ (ref \in Targets => Times(ref) # 0)
<1>1. Listed(ref) \in Nat /\ (ref \in Targets => Listed(ref) # 0) BY ListedFacts
<1> QED BY <1>1 DEF Times

\* An object that is no target stays; one that is has what it had and the
\* leaves found for its row, each of them.
LEMMA SetLeavesFacts ==
  ASSUME QueryTypes, NEW found, \A r \in Rows : found[r] \in Seq(Leaves), SetLeaves(found)
  PROVE  /\ DOMAIN objs' = DOMAIN objs
         /\ \A ref \in DOMAIN objs :
              /\ objs'[ref] \in RowObjects /\ objs'[ref].row = objs[ref].row
              /\ ref \notin Targets => objs'[ref] = objs[ref]
              /\ \A n \in DOMAIN objs'[ref].leaves :
                   \/ \E k \in DOMAIN objs[ref].leaves : objs'[ref].leaves[n] = objs[ref].leaves[k]
                   \/ \E k \in DOMAIN found[objs[ref].row] :
                        objs'[ref].leaves[n] = found[objs[ref].row][k]
              /\ ref \in Targets => \A k \in DOMAIN found[objs[ref].row] :
                   \E n \in DOMAIN objs'[ref].leaves : objs'[ref].leaves[n] = found[objs[ref].row][k]
              /\ ref \in Targets /\ objs[ref].leaves = <<>> /\ Times(ref) = 1 =>
                   \A n \in DOMAIN objs'[ref].leaves :
                     n \in DOMAIN found[objs[ref].row]
                     /\ objs'[ref].leaves[n] = found[objs[ref].row][n]
<1>1. objs' = [ref \in DOMAIN objs |->
          IF ref \notin Targets THEN objs[ref]
          ELSE [objs[ref] EXCEPT !.leaves =
            IF found[objs[ref].row] = <<>> \/ (conf.struct /\ ~Many) THEN found[objs[ref].row]
            ELSE @ \o Repeated(found[objs[ref].row], Times(ref))]]
  BY DEF SetLeaves
<1>2. DOMAIN objs' = DOMAIN objs BY <1>1
<1>3. SUFFICES ASSUME NEW ref \in DOMAIN objs
      PROVE   /\ objs'[ref] \in RowObjects /\ objs'[ref].row = objs[ref].row
              /\ ref \notin Targets => objs'[ref] = objs[ref]
              /\ \A n \in DOMAIN objs'[ref].leaves :
                   \/ \E k \in DOMAIN objs[ref].leaves : objs'[ref].leaves[n] = objs[ref].leaves[k]
                   \/ \E k \in DOMAIN found[objs[ref].row] :
                        objs'[ref].leaves[n] = found[objs[ref].row][k]
              /\ ref \in Targets => \A k \in DOMAIN found[objs[ref].row] :
                   \E n \in DOMAIN objs'[ref].leaves : objs'[ref].leaves[n] = found[objs[ref].row][k]
              /\ ref \in Targets /\ objs[ref].leaves = <<>> /\ Times(ref) = 1 =>
                   \A n \in DOMAIN objs'[ref].leaves :
                     n \in DOMAIN found[objs[ref].row]
                     /\ objs'[ref].leaves[n] = found[objs[ref].row][n]
  BY <1>2
<1>4. PICK o \in RowObjects : o = objs[ref] BY DEF QueryTypes
<1>5. PICK s \in Seq(Leaves) : s = found[o.row] BY <1>4 DEF RowObjects
<1>6. PICK old \in Seq(Leaves) : old = o.leaves BY DEF RowObjects
<1>7. PICK times \in Nat : times = Times(ref) /\ (ref \in Targets => times # 0) BY TimesFacts
<1>8. PICK rep : rep = Repeated(s, times) OBVIOUS
<1>9. /\ rep \in Seq(Leaves)
      /\ \A i \in DOMAIN rep : \E k \in DOMAIN s : rep[i] = s[k]
      /\ times # 0 => \A k \in DOMAIN s : \E i \in DOMAIN rep : rep[i] = s[k]
      /\ times = 1 => \A i \in DOMAIN rep : i \in DOMAIN s /\ rep[i] = s[i]
  BY <1>8, RepeatedFacts
<1>10. CASE ref \notin Targets
  <2>1. objs'[ref] = o BY <1>1, <1>4, <1>10
  <2> QED BY <1>4, <1>10, <2>1
<1>11. CASE ref \in Targets
  <2>1. PICK new : new = IF s = <<>> \/ (conf.struct /\ ~Many) THEN s ELSE old \o rep OBVIOUS
  <2>2. objs'[ref] = [o EXCEPT !.leaves = new]
    BY <1>1, <1>4, <1>5, <1>6, <1>7, <1>8, <1>11, <2>1
  <2>3. /\ new \in Seq(Leaves)
        /\ \A n \in DOMAIN new : \/ \E k \in DOMAIN old : new[n] = old[k]
                                 \/ \E k \in DOMAIN s : new[n] = s[k]
        /\ \A k \in DOMAIN s : \E n \in DOMAIN new : new[n] = s[k]
        /\ old = <<>> /\ times = 1 => \A n \in DOMAIN new : n \in DOMAIN s /\ new[n] = s[n]
    <3>1. CASE new = s BY <3>1
    <3>2. CASE new = old \o rep
      <4>1. PICK a \in Nat : a = Len(old) /\ DOMAIN old = 1 .. a /\ (a = 0 <=> old = <<>>)
        BY SeqFacts
      <4>2. PICK b \in Nat : b = Len(rep) /\ DOMAIN rep = 1 .. b BY <1>9, SeqFacts
      <4>3. new \in Seq(Leaves) /\ Len(new) = a + b BY <1>9, <3>2, <4>1, <4>2
      <4>4. DOMAIN new = 1 .. a + b BY <4>3, SeqFacts
      <4>5. ASSUME NEW n \in 1 .. a + b
            PROVE  (\E k \in DOMAIN old : new[n] = old[k]) \/ (\E k \in DOMAIN s : new[n] = s[k])
        <5>1. CASE n <= a
          <6>1. n \in DOMAIN old /\ new[n] = old[n] BY <1>9, <3>2, <4>1, <5>1
          <6> QED BY <6>1
        <5>2. CASE n > a
          <6>1. PICK i : i = n - a OBVIOUS
          <6>2. i \in DOMAIN rep /\ new[n] = rep[i] BY <1>9, <3>2, <4>1, <4>2, <5>2, <6>1
          <6> QED BY <1>9, <6>2
        <5> QED BY <5>1, <5>2
      <4>6. ASSUME NEW k \in DOMAIN s PROVE \E n \in 1 .. a + b : new[n] = s[k]
        <5>1. PICK i \in DOMAIN rep : rep[i] = s[k] BY <1>7, <1>9, <1>11
        <5>2. PICK n : n = a + i OBVIOUS
        <5>3. n \in 1 .. a + b /\ new[n] = rep[i] BY <1>9, <3>2, <4>1, <4>2, <5>2
        <5> QED BY <5>1, <5>3
      <4>7. ASSUME old = <<>>, times = 1, NEW n \in DOMAIN new
            PROVE  n \in DOMAIN s /\ new[n] = s[n]
        <5>1. new = rep BY <1>9, <3>2, <4>7
        <5> QED BY <1>9, <4>7, <5>1
      <4> QED BY <4>3, <4>4, <4>5, <4>6, <4>7
    <3> QED BY <2>1, <3>1, <3>2
  <2>4. objs'[ref] \in RowObjects /\ objs'[ref].row = o.row /\ objs'[ref].leaves = new
    BY <2>2, <2>3 DEF RowObjects
  <2>5. old = objs[ref].leaves /\ s = found[objs[ref].row] /\ objs'[ref].leaves = new
    BY <1>4, <1>5, <1>6, <2>4
  <2>6. objs'[ref] \in RowObjects /\ objs'[ref].row = objs[ref].row BY <1>4, <2>4
  <2> QED BY <1>7, <1>11, <2>3, <2>5, <2>6
<1> QED BY <1>10, <1>11

LEMMA TargetIs ==
  ASSUME NEW j \in DOMAIN out, NEW n \in DOMAIN out[j].rel PROVE out[j].rel[n] \in Targets
BY DEF Targets, ToSet

\* With no user twice, or no pointers, leaves are set once.
LEMMA OnceSet ==
  ASSUME QueryTypes, Apart, ~(conf.pointers /\ Many) \/ NoJoin, NEW ref \in Targets
  PROVE  Times(ref) = 1
<1>1. CASE ~(conf.pointers /\ Many) BY <1>1 DEF Times
<1>2. CASE conf.pointers /\ Many /\ NoJoin
  <2>1. PICK j \in DOMAIN out : ref \in ToSet(out[j].rel) BY DEF Targets
  <2>2. PICK n \in DOMAIN out[j].rel : out[j].rel[n] = ref BY <2>1 DEF ToSet
  <2>3. ASSUME NEW k \in DOMAIN out, NEW a \in DOMAIN out[k].rel, out[k].rel[a] = ref
        PROVE  k = j /\ a = n
    <3>1. k = j BY <1>2, <2>2, <2>3 DEF Apart
    <3>2. RowOf(j, a) = RowOf(j, n) BY <2>2, <2>3, <3>1 DEF RowOf
    <3> QED BY <2>3, <3>1, <3>2 DEF Apart
  <2>4. Listed(ref) = 1 BY <2>2, <2>3, ListedFacts
  <2> QED BY <1>2, <2>4 DEF Times
<1> QED BY <1>1, <1>2

\* Steps that leave the users and the rows of their objects as they were.
LEMMA SameRows ==
  ASSUME Right, UNCHANGED out, DOMAIN objs' = DOMAIN objs,
         \A ref \in DOMAIN objs : objs'[ref].row = objs[ref].row
  PROVE  \A j \in DOMAIN out : \A n \in DOMAIN out[j].rel : RowOf(j, n)' = RowOf(j, n)
<1> SUFFICES ASSUME NEW j \in DOMAIN out, NEW n \in DOMAIN out[j].rel
             PROVE  RowOf(j, n)' = RowOf(j, n)
    OBVIOUS
<1>1. out[j].rel[n] \in DOMAIN objs BY DEF Right
<1> QED BY <1>1 DEF RowOf

LEMMA SetLeavesInv ==
  ASSUME PreloadInv, at = "leaves", at' = "idle", UNCHANGED <<out, queryErr>>,
         UNCHANGED unchangedByReads, NEW found, SetLeaves(found),
         \A r \in Rows : /\ found[r] \in Seq(Leaves)
                         /\ \A n \in DOMAIN found[r] : leafOf[found[r][n]] = r
                         /\ \A a, b \in DOMAIN found[r] : found[r][a] = found[r][b] => a = b,
         \/ queryErr \/ "leaves" \in failed'
         \/ \A r \in Rows : \A l \in Leaves :
              leafOf[l] = r => \E n \in DOMAIN found[r] : found[r][n] = l
  PROVE  PreloadInv'
<1>0. QueryTypes /\ Tied /\ Right /\ Filled BY DEF PreloadInv
<1>1. calls > 0 /\ calls \in Nat BY <1>0 DEF QueryTypes, Tied
<1>2. UNCHANGED <<conf, calls, fresh, ever, everLeaf, stable, stableLeaf>> BY DEF unchangedByReads
<1>3. DOMAIN objs' = DOMAIN objs BY <1>0, SetLeavesFacts
<1>4. \A ref \in DOMAIN objs : objs'[ref] \in RowObjects /\ objs'[ref].row = objs[ref].row
  BY <1>0, SetLeavesFacts
<1>5. QueryTypes' BY <1>0, <1>3, <1>4 DEF QueryTypes, unchangedByReads
<1>6. Tied' BY <1>0, <1>1, TiedKept DEF Tied
<1>7. \A j \in DOMAIN out : \A n \in DOMAIN out[j].rel : RowOf(j, n)' = RowOf(j, n)
  BY <1>0, <1>3, <1>4, SameRows
<1>8. \A ref \in DOMAIN objs : objs[ref].row \in Rows BY <1>0 DEF QueryTypes, RowObjects
<1>9. ASSUME NEW ref \in DOMAIN objs, NEW n \in DOMAIN objs'[ref].leaves
      PROVE  <<objs'[ref].row, objs'[ref].leaves[n]>> \in everLeaf
  <2>1. CASE \E k \in DOMAIN objs[ref].leaves : objs'[ref].leaves[n] = objs[ref].leaves[k]
    BY <1>0, <1>4, <2>1 DEF Right
  <2>2. CASE \E k \in DOMAIN found[objs[ref].row] :
               objs'[ref].leaves[n] = found[objs[ref].row][k]
    <3>1. PICK r \in Rows : r = objs[ref].row BY <1>8
    <3>2. PICK k \in DOMAIN found[r] : objs'[ref].leaves[n] = found[r][k] BY <2>2, <3>1
    <3>3. PICK l : l = found[r][k] OBVIOUS
    <3>4. l \in Leaves /\ leafOf[l] = r BY <3>3, SeqFacts
    <3>5. r # None BY PreloadAssumption DEF PreloadAssumption
    <3>6. <<r, l>> \in LeafPairs(leafOf) BY <3>4, <3>5 DEF LeafPairs
    <3>7. <<r, l>> \in everLeaf BY <1>0, <1>1, <3>6 DEF Tied
    <3> QED BY <1>4, <3>1, <3>2, <3>3, <3>7
  <2> QED BY <1>0, <2>1, <2>2, SetLeavesFacts
<1>10. Right' BY <1>0, <1>1, <1>2, <1>3, <1>7, <1>9 DEF Right
<1>11. ASSUME fresh PROVE (Empty /\ Apart /\ RowsThere /\ LeavesThere)'
  <2>0. Apart /\ RowsThere /\ LeavesThere BY <1>0, <1>11 DEF Filled
  <2>1. Empty' BY DEF Empty
  <2>2. Many' <=> Many BY <1>2 DEF Many
  <2>3. NoJoin' <=> NoJoin BY DEF NoJoin
  <2>4. Apart' BY <1>2, <1>7, <2>0, <2>2, <2>3 DEF Apart
  <2>5. RowsThere' BY <1>1, <1>2, <1>7, <2>0 DEF RowsThere
  <2>6. ASSUME ~queryErr', "leaves" \notin failed', NEW j \in DOMAIN out, NEW n \in DOMAIN out[j].rel,
               NEW l \in Leaves, <<RowOf(j, n)', l>> \in stableLeaf
        PROVE  \E i \in DOMAIN objs'[out[j].rel[n]].leaves : objs'[out[j].rel[n]].leaves[i] = l
    <3>1. PICK ref \in DOMAIN objs : ref = out[j].rel[n] BY <1>0 DEF Right
    <3>2. PICK r \in Rows : r = objs[ref].row BY <1>8
    <3>3. RowOf(j, n)' = r BY <1>7, <3>1, <3>2 DEF RowOf
    <3>4. <<r, l>> \in LeafPairs(leafOf) BY <1>0, <2>6, <3>3 DEF Tied
    <3>5. leafOf[l] = r BY <3>4 DEF LeafPairs
    <3>6. PICK k \in DOMAIN found[r] : found[r][k] = l BY <2>6, <3>5
    <3>7. ref \in Targets BY <3>1, TargetIs
    <3>8. \E i \in DOMAIN objs'[ref].leaves : objs'[ref].leaves[i] = found[r][k]
      BY <1>0, <3>2, <3>7, SetLeavesFacts
    <3> QED BY <3>1, <3>6, <3>8
  <2>7. ASSUME ~(conf.pointers /\ Many) \/ NoJoin, NEW ref \in DOMAIN objs
        PROVE  IsInjective(objs'[ref].leaves)
    <3>1. objs[ref].leaves = <<>> BY <2>0 DEF LeavesThere
    <3>2. CASE ref \notin Targets
      <4>1. objs'[ref].leaves = <<>> BY <1>0, <3>1, <3>2, SetLeavesFacts
      <4> QED BY <4>1 DEF IsInjective
    <3>3. CASE ref \in Targets
      <4>1. Times(ref) = 1 BY <1>0, <2>0, <2>7, <3>3, OnceSet
      <4>2. PICK r \in Rows : r = objs[ref].row BY <1>8
      <4>3. \A n \in DOMAIN objs'[ref].leaves :
              n \in DOMAIN found[r] /\ objs'[ref].leaves[n] = found[r][n]
        BY <1>0, <3>1, <3>3, <4>1, <4>2, SetLeavesFacts
      <4> QED BY <4>3 DEF IsInjective
    <3> QED BY <3>2, <3>3
  <2>8. LeavesThere' BY <1>2, <1>3, <2>2, <2>3, <2>6, <2>7 DEF LeavesThere
  <2> QED BY <2>1, <2>4, <2>5, <2>8
<1>12. Filled' BY <1>2, <1>11 DEF Filled
<1> QED BY <1>5, <1>6, <1>10, <1>12 DEF PreloadInv

LEMMA LeavesInv == ASSUME PreloadInv, PreloadLeaves PROVE PreloadInv'
<1>0. QueryTypes /\ Tied /\ Right /\ Filled BY DEF PreloadInv
<1>1. /\ at = "leaves" /\ at' = "idle" /\ UNCHANGED <<out, queryErr>>
      /\ UNCHANGED unchangedByReads
  BY DEF PreloadLeaves, unchangedByReads
<1>2. CASE Targets = {} /\ UNCHANGED <<objs, failed>>
  <2>1. calls > 0 BY <1>0, <1>1 DEF QueryTypes, Tied
  <2>2. UNCHANGED <<conf, calls, fresh, ever, everLeaf, stable, stableLeaf, objs, out>>
    BY <1>1, <1>2 DEF unchangedByReads
  <2>3. QueryTypes' BY <1>0, <1>1, <2>2 DEF QueryTypes, unchangedByReads
  <2>4. Tied' BY <1>0, <1>1, <2>1, TiedKept DEF Tied
  <2>5. Right' BY <1>0, <1>1, <2>2 DEF Right, RowOf
  <2>6. ASSUME fresh PROVE (Empty /\ Apart /\ RowsThere /\ LeavesThere)'
    <3>0. Apart /\ RowsThere /\ LeavesThere BY <1>0, <2>6 DEF Filled
    <3>1. Empty' BY <1>1 DEF Empty
    <3>2. Many' <=> Many BY <2>2 DEF Many
    <3>3. NoJoin' <=> NoJoin BY <2>2 DEF NoJoin
    <3>4. Apart' BY <2>2, <3>0, <3>2, <3>3 DEF Apart, RowOf
    <3>5. RowsThere' BY <1>1, <2>1, <2>2, <3>0 DEF RowsThere, RowOf
    <3>6. \A j \in DOMAIN out : DOMAIN out[j].rel = {} BY <1>2, TargetIs
    <3>7. \A ref \in DOMAIN objs : objs[ref].leaves = <<>> BY <1>1, <3>0 DEF LeavesThere
    <3>8. \A ref \in DOMAIN objs : IsInjective(objs[ref].leaves) BY <3>7 DEF IsInjective
    <3>9. LeavesThere' BY <1>1, <2>2, <3>6, <3>8 DEF LeavesThere
    <3> QED BY <3>1, <3>4, <3>5, <3>9
  <2>7. Filled' BY <2>2, <2>6 DEF Filled
  <2> QED BY <2>3, <2>4, <2>5, <2>7 DEF PreloadInv
<1>3. CASE ~queryErr /\ SetLeaves([r \in Rows |-> LeavesOf(r)])
  <2>1. PICK found : found = [r \in Rows |-> LeavesOf(r)] OBVIOUS
  <2>2. \A r \in Rows : found[r] = LeavesOf(r) BY <2>1
  <2>3. \A r \in Rows : /\ found[r] \in Seq(Leaves)
                        /\ \A n \in DOMAIN found[r] : leafOf[found[r][n]] = r
                        /\ \A a, b \in DOMAIN found[r] : found[r][a] = found[r][b] => a = b
    BY <1>0, <2>2, LeavesOfFacts
  <2>4. \A r \in Rows : \A l \in Leaves :
          leafOf[l] = r => \E n \in DOMAIN found[r] : found[r][n] = l
    BY <1>0, <2>2, LeavesOfFacts
  <2>5. SetLeaves(found) BY <1>3, <2>1
  <2> QED BY <1>1, <2>3, <2>4, <2>5, SetLeavesInv
<1>4. CASE /\ SetLeaves([r \in Rows |-> <<>>])
           /\ failed' = IF queryErr THEN failed ELSE failed \cup {"leaves"}
  <2>1. PICK found : found = [r \in Rows |-> <<>>] OBVIOUS
  <2>2. \A r \in Rows : found[r] = <<>> BY <2>1
  <2>3. ASSUME NEW r \in Rows
        PROVE  /\ found[r] \in Seq(Leaves)
               /\ \A n \in DOMAIN found[r] : leafOf[found[r][n]] = r
               /\ \A a, b \in DOMAIN found[r] : found[r][a] = found[r][b] => a = b
    <3>1. found[r] = <<>> BY <2>2
    <3>2. DOMAIN found[r] = {} BY <3>1
    <3> QED BY <3>1, <3>2
  <2>4. queryErr \/ "leaves" \in failed' BY <1>4
  <2>5. SetLeaves(found) BY <1>4, <2>1
  <2> QED BY <1>1, <2>3, <2>4, <2>5, SetLeavesInv
<1> QED BY <1>2, <1>3, <1>4 DEF PreloadLeaves

LEMMA FkFacts ==
  ASSUME QueryTypes, Tied, calls > 0, NEW u \in Users
  PROVE  /\ FkOf(u) \in Rows \cup {None} /\ (FkOf(u) # None => <<u, FkOf(u)>> \in ever)
         /\ conf.kind = "belongs_to" => \A r \in Rows : <<u, r>> \in stable => FkOf(u) = r
<1>1. CASE \E r \in Rows : <<u, r>> \in rel /\ conf.kind = "belongs_to"
  <2>1. FkOf(u) \in Rows /\ <<u, FkOf(u)>> \in rel BY <1>1 DEF FkOf
  <2>2. ASSUME NEW r \in Rows, <<u, r>> \in stable PROVE FkOf(u) = r
    <3>1. <<u, r>> \in rel BY <2>2 DEF Tied
    <3>2. PICK p \in rel : p = <<u, r>> BY <3>1
    <3>3. PICK q \in rel : q = <<u, FkOf(u)>> BY <2>1
    <3>4. p[1] = q[1] BY <3>2, <3>3
    <3>5. p = q BY <1>1, <3>4 DEF Tied, Legal
    <3>6. p[2] = r /\ q[2] = FkOf(u) BY <3>2, <3>3
    <3> QED BY <3>5, <3>6
  <2> QED BY <2>1, <2>2 DEF Tied
<1>2. CASE ~(\E r \in Rows : <<u, r>> \in rel /\ conf.kind = "belongs_to")
  <2>1. FkOf(u) = None BY <1>2 DEF FkOf
  <2>2. \A r \in Rows : <<u, r>> \in stable => conf.kind # "belongs_to" BY <1>2 DEF Tied
  <2> QED BY <2>1, <2>2
<1> QED BY <1>1, <1>2

LEMMA QueryInv == ASSUME PreloadInv, Query PROVE PreloadInv'
<1>0. QueryTypes /\ Tied /\ Right /\ Filled BY DEF PreloadInv
<1>1. at = "query" /\ objs' = objs /\ UNCHANGED unchangedByReads
  BY DEF Query, unchangedByReads
<1>2. calls > 0 /\ calls \in Nat BY <1>0, <1>1 DEF QueryTypes, Tied
<1>3. PICK read \in Reads \cup {None} :
       /\ (conf.struct /\ read # None) => Len(read) <= 1
       /\ (conf.struct /\ out # <<>>) => read \in {None, <<>>, <<out[1].user>>}
       /\ queryErr' = (read = None \/ (conf.struct /\ read = <<>>))
       /\ at' = IF queryErr' THEN "idle" ELSE "rel"
       /\ out' = IF ~queryErr' THEN [j \in DOMAIN read |->
                   [user |-> read[j], fk |-> FkOf(read[j]),
                    rel |-> IF conf.struct /\ out # <<>> THEN out[1].rel ELSE <<>>]]
                 ELSE out
  BY DEF Query
<1>4. UNCHANGED <<conf, calls, fresh, ever, everLeaf, stable>> BY <1>1 DEF unchangedByReads
<1>5. queryErr' \in BOOLEAN BY <1>3
<1>6. CASE queryErr'
  <2>1. at' = "idle" /\ out' = out BY <1>3, <1>6
  <2>2. QueryTypes' BY <1>0, <1>1, <1>5, <2>1 DEF QueryTypes, unchangedByReads
  <2>3. Tied' BY <1>0, <1>1, <1>2, <2>1, TiedKept DEF Tied
  <2>4. Right' BY <1>0, <1>1, <1>4, <2>1 DEF Right, RowOf
  <2>5. ASSUME fresh PROVE (Empty /\ Apart /\ RowsThere /\ LeavesThere)'
    <3>1. out' = <<>> /\ DOMAIN objs' = {} BY <1>0, <1>1, <2>1, <2>5 DEF Filled, Empty
    <3>2. \A j : j \notin DOMAIN out' BY <3>1
    <3>3. Empty' BY <2>1 DEF Empty
    <3>4. Apart' BY <3>2 DEF Apart
    <3>5. RowsThere' BY <3>2 DEF RowsThere
    <3>6. LeavesThere' BY <3>1, <3>2 DEF LeavesThere
    <3> QED BY <3>3, <3>4, <3>5, <3>6
  <2>6. Filled' BY <1>4, <2>5 DEF Filled
  <2> QED BY <2>2, <2>3, <2>4, <2>6 DEF PreloadInv
<1>7. CASE ~queryErr'
  <2>1. read \in Seq(Users) /\ at' = "rel" /\ (conf.struct => read # <<>> /\ Len(read) <= 1)
    BY <1>3, <1>7, PreloadAssumption DEF PreloadAssumption
  <2>2. PICK m \in Nat : m = Len(read) /\ DOMAIN read = 1 .. m BY <2>1, SeqFacts
  <2>3. \A j \in 1 .. m : read[j] \in Users BY <2>1, <2>2, SeqFacts
  <2>4. PICK kept : kept = IF conf.struct /\ out # <<>> THEN out[1].rel ELSE <<>> OBVIOUS
  <2>5. out' = [j \in 1 .. m |-> [user |-> read[j], fk |-> FkOf(read[j]), rel |-> kept]]
    BY <1>3, <1>7, <2>2, <2>4
  <2>6. ASSUME conf.struct, out # <<>>
        PROVE  1 \in DOMAIN out /\ kept = out[1].rel /\ \A j \in 1 .. m : j = 1 /\ read[j] = out[1].user
    <3>1. out \in Seq(UserObjects) BY <1>0 DEF QueryTypes
    <3>2. 1 \in DOMAIN out BY <2>6, <3>1
    <3>3. read = <<out[1].user>> BY <1>3, <1>7, <2>1, <2>6
    <3>4. m = 1 /\ read[1] = out[1].user BY <2>2, <3>3
    <3> QED BY <2>4, <2>6, <3>2, <3>4
  <2>7. kept \in Seq(Refs)
    <3>1. CASE conf.struct /\ out # <<>> BY <1>0, <2>6, <3>1, UserFacts
    <3>2. CASE ~(conf.struct /\ out # <<>>) BY <2>4, <3>2
    <3> QED BY <3>1, <3>2
  <2>8. ASSUME NEW j \in 1 .. m
        PROVE  /\ out'[j] \in UserObjects /\ out'[j].rel = kept /\ out'[j].user = read[j]
               /\ out'[j].fk # None => <<out'[j].user, out'[j].fk>> \in ever
               /\ conf.kind = "belongs_to" =>
                    \A r \in Rows : <<out'[j].user, r>> \in stable => out'[j].fk = r
    <3>1. PICK u \in Users : u = read[j] BY <2>3
    <3>2. PICK f \in Rows \cup {None} : f = FkOf(u) BY <1>0, <1>2, FkFacts
    <3>3. out'[j] = [user |-> u, fk |-> f, rel |-> kept] BY <2>5, <3>1, <3>2
    <3>4. /\ f # None => <<u, f>> \in ever
          /\ conf.kind = "belongs_to" => \A r \in Rows : <<u, r>> \in stable => f = r
      BY <1>0, <1>2, <3>2, FkFacts
    <3>5. out'[j] \in UserObjects BY <2>7, <3>3 DEF UserObjects
    <3> QED BY <3>1, <3>3, <3>4, <3>5
  <2>9. out' \in Seq(UserObjects) /\ Len(out') = m /\ DOMAIN out' = 1 .. m
    <3>1. out' \in [1 .. m -> UserObjects] BY <2>5, <2>8
    <3> QED BY <3>1, IsSeq
  <2>10. QueryTypes' BY <1>0, <1>1, <1>5, <2>1, <2>9 DEF QueryTypes, unchangedByReads
  <2>11. Tied' BY <1>0, <1>1, <1>2, <1>7, <2>1, <2>2, <2>9, TiedKept
  <2>12. ASSUME NEW j \in 1 .. m, NEW n \in DOMAIN out'[j].rel
         PROVE  out'[j].rel[n] \in DOMAIN objs' /\ <<out'[j].user, RowOf(j, n)'>> \in ever'
    <3>1. conf.struct /\ out # <<>>
      <4>1. n \in DOMAIN kept BY <2>8
      <4>2. kept # <<>> BY <4>1
      <4> QED BY <2>4, <4>2
    <3>2. 1 \in DOMAIN out /\ kept = out[1].rel /\ out'[j].user = out[1].user BY <2>6, <2>8, <3>1
    <3>3. out'[j].rel[n] = out[1].rel[n] /\ n \in DOMAIN out[1].rel BY <2>8, <3>2
    <3>4. RowOf(j, n)' = RowOf(1, n) BY <1>1, <3>3 DEF RowOf
    <3>5. out[1].rel[n] \in DOMAIN objs /\ <<out[1].user, RowOf(1, n)>> \in ever
      BY <1>0, <3>2, <3>3 DEF Right
    <3> QED BY <1>1, <1>4, <3>2, <3>3, <3>4, <3>5
  <2>13. Right' BY <1>0, <1>1, <1>4, <2>8, <2>9, <2>12 DEF Right
  <2>14. ASSUME fresh PROVE (Empty /\ Apart /\ RowsThere /\ LeavesThere)'
    <3>1. out = <<>> /\ DOMAIN objs' = {} BY <1>0, <1>1, <2>14 DEF Filled, Empty
    <3>2. \A j \in DOMAIN out' : out'[j].rel = <<>> BY <2>4, <2>8, <2>9, <3>1
    <3>3. Empty' BY <1>4, <2>1, <2>8, <2>9, <3>1, <3>2 DEF Empty
    <3>4. \A j \in DOMAIN out' : DOMAIN out'[j].rel = {} BY <3>2
    <3>5. Apart' BY <3>4 DEF Apart
    <3>6. RowsThere' BY <2>1 DEF RowsThere
    <3>7. LeavesThere' BY <2>1, <3>1 DEF LeavesThere
    <3> QED BY <3>3, <3>5, <3>6, <3>7
  <2>15. Filled' BY <1>4, <2>14 DEF Filled
  <2> QED BY <2>10, <2>11, <2>13, <2>15 DEF PreloadInv
<1> QED BY <1>6, <1>7

LEMMA CallInv ==
  ASSUME PreloadInv, NEW preloads \in BOOLEAN, preloads => out # <<>>, Call(preloads)
  PROVE  PreloadInv'
<1>0. QueryTypes /\ Tied /\ Right /\ Filled BY DEF PreloadInv
<1>1. /\ at = "idle" /\ calls' = calls + 1 /\ at' = IF preloads THEN "rel" ELSE "query"
      /\ fresh' = (~preloads /\ (conf.struct => out = <<>>)) /\ queryErr' = FALSE
      /\ ever' = (IF fresh' THEN rel ELSE ever)
      /\ everLeaf' = (IF fresh' THEN LeafPairs(leafOf) ELSE everLeaf)
      /\ stable' = {p \in rel : p[2] \in present} /\ stableLeaf' = LeafPairs(leafOf)
      /\ out' = (IF fresh' THEN <<>> ELSE out) /\ objs' = (IF fresh' THEN <<>> ELSE objs)
      /\ UNCHANGED <<conf, rel, present, leafOf>>
  BY DEF Call
<1>2. calls \in Nat /\ calls' \in Nat /\ calls' > 0 /\ calls < calls' BY <1>0, <1>1 DEF QueryTypes
<1>3. fresh' \in BOOLEAN BY <1>1
<1>4. fresh' \/ out # <<>> BY <1>1
<1>5. ~fresh' => calls > 0 BY <1>0, <1>2, <1>4 DEF Tied
<1>6. LeafPairs(leafOf)' = LeafPairs(leafOf) BY <1>1 DEF LeafPairs
<1>7. CASE fresh'
  <2>1. out' = <<>> /\ objs' = <<>> /\ ever' = rel /\ everLeaf' = LeafPairs(leafOf) /\ at' = "query"
    BY <1>1, <1>7
  <2>2. DOMAIN out' = {} /\ DOMAIN objs' = {} /\ out' \in Seq(UserObjects) /\ Len(out') = 0 BY <2>1
  <2>3. QueryTypes' BY <1>0, <1>1, <1>2, <1>3, <2>1, <2>2 DEF QueryTypes
  <2>4. Tied' BY <1>0, <1>1, <1>2, <1>6, <2>1, <2>2 DEF Tied, Legal
  <2>5. Right' BY <2>2 DEF Right
  <2>6. Empty' BY <2>1, <2>2 DEF Empty
  <2>7. Apart' BY <2>2 DEF Apart
  <2>8. RowsThere' BY <2>1 DEF RowsThere
  <2>9. LeavesThere' BY <2>1, <2>2 DEF LeavesThere
  <2> QED BY <2>3, <2>4, <2>5, <2>6, <2>7, <2>8, <2>9 DEF PreloadInv, Filled
<1>8. CASE ~fresh'
  <2>1. out' = out /\ objs' = objs /\ ever' = ever /\ everLeaf' = everLeaf /\ at' \in {"rel", "query"}
    BY <1>1, <1>8
  <2>2. QueryTypes' BY <1>0, <1>1, <1>2, <1>3, <2>1 DEF QueryTypes
  <2>3. Tied' BY <1>0, <1>1, <1>2, <1>5, <1>6, <1>8, <2>1 DEF Tied, Legal
  <2>4. ASSUME NEW ref \in DOMAIN objs PROVE ref[1] <= calls' /\ ref[1] < calls'
    <3>1. ref \in Refs /\ ref[1] <= calls BY <1>0 DEF QueryTypes, Right
    <3>2. ref[1] \in Nat BY <3>1 DEF Refs
    <3> QED BY <1>2, <3>1, <3>2
  <2>5. Right' BY <1>0, <2>1, <2>4 DEF Right, RowOf
  <2> QED BY <1>8, <2>2, <2>3, <2>5 DEF PreloadInv, Filled
<1> QED BY <1>7, <1>8

LEMMA WriteInv == ASSUME PreloadInv, Write PROVE PreloadInv'
<1>0. QueryTypes /\ Tied /\ Right /\ Filled BY DEF PreloadInv
<1>1. /\ Legal(rel') /\ ever' = ever \cup rel' /\ everLeaf' = everLeaf \cup LeafPairs(leafOf')
      /\ stable' = {p \in stable : p \in rel' /\ p[2] \in present'}
      /\ stableLeaf' = stableLeaf \cap LeafPairs(leafOf')
      /\ UNCHANGED <<conf, at, calls, out, objs, queryErr, fresh, failed>>
  BY DEF Write
<1>2. rel' \in SUBSET (Users \X Rows) /\ present' \in SUBSET Rows /\ leafOf' \in [Leaves -> Rows \cup {None}]
  <2>1. CASE \E p \in Users \X Rows : rel' = SymDiff(rel, {p}) /\ UNCHANGED <<present, leafOf>>
    BY <1>0, <2>1 DEF QueryTypes, SymDiff
  <2>2. CASE \E r \in Rows : present' = SymDiff(present, {r}) /\ UNCHANGED <<rel, leafOf>>
    BY <1>0, <2>2 DEF QueryTypes, SymDiff
  <2>3. CASE \E l \in Leaves, r \in Rows \cup {None} :
               leafOf' = [leafOf EXCEPT ![l] = r] /\ UNCHANGED <<rel, present>>
    BY <1>0, <2>3 DEF QueryTypes
  <2> QED BY <2>1, <2>2, <2>3 DEF Write
<1>3. QueryTypes' BY <1>0, <1>1, <1>2 DEF QueryTypes
<1>4. LeafPairs(leafOf)' = LeafPairs(leafOf') BY DEF LeafPairs
<1>5. Legal(rel)' BY <1>1 DEF Legal
<1>6. Tied' BY <1>0, <1>1, <1>4, <1>5 DEF Tied
<1>7. Right' BY <1>0, <1>1 DEF Right, RowOf
<1>8. ASSUME fresh PROVE (Empty /\ Apart /\ RowsThere /\ LeavesThere)'
  <2>0. Empty /\ Apart /\ RowsThere /\ LeavesThere BY <1>0, <1>8 DEF Filled
  <2>1. Empty' BY <1>1, <2>0 DEF Empty
  <2>2. Many' <=> Many BY <1>1 DEF Many
  <2>3. NoJoin' <=> NoJoin BY <1>1 DEF NoJoin
  <2>4. Apart' BY <1>1, <2>0, <2>2, <2>3 DEF Apart, RowOf
  <2>5. RowsThere' BY <1>1, <2>0 DEF RowsThere, RowOf
  <2>6. LeavesThere' BY <1>1, <2>0, <2>2, <2>3 DEF LeavesThere, RowOf
  <2> QED BY <2>1, <2>4, <2>5, <2>6
<1>9. Filled' BY <1>1, <1>8 DEF Filled
<1> QED BY <1>3, <1>6, <1>7, <1>9 DEF PreloadInv

LEMMA PreloadStutter == ASSUME PreloadInv, UNCHANGED queryVars PROVE PreloadInv'
<1>1. UNCHANGED <<conf, rel, present, leafOf, at, calls, out, objs, queryErr, fresh, failed,
                  ever, everLeaf, stable, stableLeaf>>
  BY DEF queryVars
<1>0. QueryTypes /\ Tied /\ Right /\ Filled BY DEF PreloadInv
<1>2. QueryTypes' BY <1>0, <1>1 DEF QueryTypes
<1>3. Tied' BY <1>0, <1>1 DEF Tied, Legal, LeafPairs
<1>4. Right' BY <1>0, <1>1 DEF Right, RowOf
<1>5. (Empty' <=> Empty) /\ (NoJoin' <=> NoJoin) /\ (Many' <=> Many)
  BY <1>1 DEF Empty, NoJoin, Many
<1>6. Apart' <=> Apart BY <1>1, <1>5 DEF Apart, RowOf
<1>7. RowsThere' <=> RowsThere BY <1>1 DEF RowsThere, RowOf
<1>8. LeavesThere' <=> LeavesThere BY <1>1, <1>5 DEF LeavesThere, RowOf
<1>9. Filled' BY <1>0, <1>1, <1>5, <1>6, <1>7, <1>8 DEF Filled
<1> QED BY <1>2, <1>3, <1>4, <1>9 DEF PreloadInv

LEMMA PreloadInit == QueryInit => PreloadInv
<1> SUFFICES ASSUME QueryInit PROVE PreloadInv OBVIOUS
<1>1. /\ conf \in [kind : Kinds, pointers : BOOLEAN, struct : BOOLEAN]
      /\ rel \in SUBSET (Users \X Rows) /\ Legal(rel) /\ present = Rows
      /\ leafOf \in [Leaves -> Rows \cup {None}]
      /\ at = "idle" /\ calls = 0 /\ out = <<>> /\ objs = <<>>
      /\ queryErr = FALSE /\ fresh = TRUE /\ stable = {} /\ stableLeaf = {}
  BY DEF QueryInit
<1>2. DOMAIN out = {} /\ DOMAIN objs = {} /\ out \in Seq(UserObjects) /\ Len(out) = 0 BY <1>1
<1>3. QueryTypes BY <1>1, <1>2 DEF QueryTypes
<1>4. Tied BY <1>1, <1>2 DEF Tied
<1>5. Right BY <1>2 DEF Right
<1>6. Empty /\ Apart BY <1>1, <1>2 DEF Empty, Apart
<1>7. RowsThere BY <1>1 DEF RowsThere
<1>8. LeavesThere BY <1>1, <1>2 DEF LeavesThere
<1> QED BY <1>3, <1>4, <1>5, <1>6, <1>7, <1>8 DEF PreloadInv, Filled

LEMMA PreloadStep == PreloadInv /\ [QueryNext]_queryVars => PreloadInv'
<1> SUFFICES ASSUME PreloadInv, [QueryNext]_queryVars PROVE PreloadInv' OBVIOUS
<1>1. CASE Call(FALSE) BY <1>1, CallInv
<1>2. CASE out # <<>> /\ Call(TRUE) BY <1>2, CallInv
<1>3. CASE Query BY <1>3, QueryInv
<1>4. CASE PreloadRel BY <1>4, RelInv
<1>5. CASE NoPreload BY <1>5, NoPreloadInv
<1>6. CASE PreloadLeaves BY <1>6, LeavesInv
<1>7. CASE Write BY <1>7, WriteInv
<1>8. CASE UNCHANGED queryVars BY <1>8, PreloadStutter
<1> QED BY <1>1, <1>2, <1>3, <1>4, <1>5, <1>6, <1>7, <1>8 DEF QueryNext

LEMMA PreloadInvariance == QuerySpec => []PreloadInv
BY PreloadInit, PreloadStep, PTL DEF QuerySpec

-----------------------------------------------------------------------------
(* What a query with preloads promises.                                     *)

\* The rows of a user's field.
LEMMA RowsAtFacts ==
  ASSUME NEW j \in DOMAIN out
  PROVE  /\ \A r \in RowsAt(j) : \E n \in DOMAIN out[j].rel : r = RowOf(j, n)
         /\ \A n \in DOMAIN out[j].rel : RowOf(j, n) \in RowsAt(j)
BY DEF RowsAt, RowOf, ToSet

LEMMA WrongFollows == PreloadInv => NothingWrong
<1> SUFFICES ASSUME PreloadInv PROVE NothingWrong OBVIOUS
<1>0. Right BY DEF PreloadInv
<1>1. ASSUME NEW j \in DOMAIN out, NEW r \in RowsAt(j) PROVE <<out[j].user, r>> \in ever
  <2>1. PICK n \in DOMAIN out[j].rel : r = RowOf(j, n) BY RowsAtFacts
  <2> QED BY <1>0, <2>1 DEF Right
<1>2. ASSUME NEW ref \in DOMAIN objs, NEW l \in ToSet(objs[ref].leaves)
      PROVE  <<objs[ref].row, l>> \in everLeaf
  <2>1. PICK n \in DOMAIN objs[ref].leaves : l = objs[ref].leaves[n] BY DEF ToSet
  <2> QED BY <1>0, <2>1 DEF Right
<1> QED BY <1>1, <1>2 DEF NothingWrong

LEMMA MissingFollows == PreloadInv => NothingMissing
<1> SUFFICES ASSUME PreloadInv, Complete, fresh PROVE
      /\ \A j \in DOMAIN out : LET all == {r \in Rows : <<out[j].user, r>> \in stable} IN
           IF conf.kind = "has_one" THEN all # {} => RowsAt(j) # {} ELSE all \subseteq RowsAt(j)
      /\ "leaves" \notin failed => \A ref \in Targets : \A l \in Leaves :
           <<objs[ref].row, l>> \in stableLeaf => l \in ToSet(objs[ref].leaves)
    BY DEF NothingMissing
<1>0. QueryTypes /\ RowsThere /\ LeavesThere /\ calls > 0 /\ at = "idle" /\ ~queryErr
  BY DEF PreloadInv, Filled, Complete
<1>1. ASSUME NEW j \in DOMAIN out, NEW r \in Rows, <<out[j].user, r>> \in stable
      PROVE  IF conf.kind = "has_one" THEN RowsAt(j) # {} ELSE r \in RowsAt(j)
  <2>1. CASE conf.kind = "has_one"
    <3>1. out[j].rel # <<>> BY <1>0, <1>1, <2>1 DEF RowsThere
    <3>2. PICK s \in Seq(Refs) : s = out[j].rel BY <1>0, UserFacts
    <3>3. PICK k \in Nat : k = Len(s) /\ DOMAIN s = 1 .. k /\ (k = 0 <=> s = <<>>) BY SeqFacts
    <3>4. 1 \in DOMAIN out[j].rel BY <3>1, <3>2, <3>3
    <3> QED BY <2>1, <3>4, RowsAtFacts
  <2>2. CASE conf.kind # "has_one"
    <3>1. PICK n \in DOMAIN out[j].rel : RowOf(j, n) = r BY <1>0, <1>1, <2>2 DEF RowsThere
    <3> QED BY <2>2, <3>1, RowsAtFacts
  <2> QED BY <2>1, <2>2
<1>2. ASSUME "leaves" \notin failed, NEW ref \in Targets, NEW l \in Leaves,
             <<objs[ref].row, l>> \in stableLeaf
      PROVE  l \in ToSet(objs[ref].leaves)
  <2>1. PICK j \in DOMAIN out : ref \in ToSet(out[j].rel) BY DEF Targets
  <2>2. PICK n \in DOMAIN out[j].rel : ref = out[j].rel[n] BY <2>1 DEF ToSet
  <2>3. <<RowOf(j, n), l>> \in stableLeaf BY <1>2, <2>2 DEF RowOf
  <2>4. \E i \in DOMAIN objs[ref].leaves : objs[ref].leaves[i] = l
    BY <1>0, <1>2, <2>2, <2>3 DEF LeavesThere
  <2> QED BY <2>4 DEF ToSet
<1> QED BY <1>1, <1>2

LEMMA OnceFollows == PreloadInv => OnceEach
<1> SUFFICES ASSUME PreloadInv, fresh PROVE OnceEach BY DEF OnceEach
<1>0. QueryTypes /\ Right /\ Apart /\ LeavesThere BY DEF PreloadInv, Filled
<1>1. ASSUME NEW j \in DOMAIN out PROVE Cardinality(RowsAt(j)) = Len(out[j].rel)
  <2>1. PICK s \in Seq(Refs) : s = out[j].rel BY <1>0, UserFacts
  <2>2. PICK k \in Nat : k = Len(s) /\ DOMAIN s = 1 .. k BY SeqFacts
  <2>3. PICK S : S = 1 .. k OBVIOUS
  <2>4. PICK f : f = [n \in S |-> RowOf(j, n)] OBVIOUS
  <2>5. PICK T : T = RowsAt(j) OBVIOUS
  <2>6. \A n \in S : f[n] \in T BY <2>1, <2>2, <2>3, <2>4, <2>5, RowsAtFacts
  <2>7. f \in [S -> T] BY <2>4, <2>6
  <2>8. \A r \in T : \E n \in S : f[n] = r BY <2>1, <2>2, <2>3, <2>4, <2>5, RowsAtFacts
  <2>9. \A a, b \in S : f[a] = f[b] => a = b BY <1>0, <2>1, <2>2, <2>3, <2>4 DEF Apart
  <2>10. f \in Bijection(S, T)
    BY <2>7, <2>8, <2>9 DEF Bijection, Injection, Surjection, IsInjective
  <2>11. IsFiniteSet(S) /\ Cardinality(S) = k
    <3>1. IsFiniteSet(1 .. k) /\ Cardinality(1 .. k) = IF 1 > k THEN 0 ELSE k - 1 + 1
      BY FS_Interval
    <3> QED BY <2>3, <3>1
  <2>12. ExistsBijection(S, T) BY <2>10 DEF ExistsBijection
  <2>13. Cardinality(T) = k BY <2>11, <2>12, FS_Bijection
  <2> QED BY <2>1, <2>2, <2>5, <2>13
<1>2. ASSUME NEW ref \in Targets,
             ~(conf.pointers /\ Many /\ \E i, j \in DOMAIN out : i # j /\ out[i].user = out[j].user)
      PROVE  IsInjective(objs[ref].leaves)
  <2>1. PICK j \in DOMAIN out : ref \in ToSet(out[j].rel) BY DEF Targets
  <2>2. PICK n \in DOMAIN out[j].rel : ref = out[j].rel[n] BY <2>1 DEF ToSet
  <2>3. ref \in DOMAIN objs BY <1>0, <2>2 DEF Right
  <2>4. ~(conf.pointers /\ Many) \/ NoJoin BY <1>2 DEF NoJoin
  <2> QED BY <1>0, <2>3, <2>4 DEF LeavesThere
<1> QED BY <1>1, <1>2 DEF OnceEach

\* Whatever other clients write between the statements, and whichever of them
\* fail, no user is given a row and no row a leaf that was at no time since its
\* (callback_query_preload.go matches by the keys it has read).
THEOREM PreloadsAreRight == QuerySpec => []NothingWrong
BY PreloadInvariance, WrongFollows, PTL

\* A query without error into an empty destination has every row and leaf that
\* was related all the time.
THEOREM PreloadsAreComplete == QuerySpec => []NothingMissing
BY PreloadInvariance, MissingFollows, PTL

\* In an empty destination no row and no leaf comes twice, but for rows that are
\* shared by pointers when a join has returned a user twice.
THEOREM PreloadsComeOnce == QuerySpec => []OnceEach
BY PreloadInvariance, OnceFollows, PTL

-----------------------------------------------------------------------------
(* Lists of names.                                                          *)

Has(s, n) == \E p \in DOMAIN s : s[p] = n
Precedes(s, m, n) == \A p, q \in DOMAIN s : s[p] = m /\ s[q] = n => p < q

\* The last place of a name.
LEMMA LastIndexIs ==
  ASSUME NEW s \in Seq(Nat), NEW n
  PROVE  /\ LastIndex(s, n) \in 0 .. Len(s)
         /\ LastIndex(s, n) = 0 <=> ~Has(s, n)
         /\ LastIndex(s, n) # 0 => /\ LastIndex(s, n) \in DOMAIN s /\ s[LastIndex(s, n)] = n
                                   /\ \A p \in DOMAIN s : s[p] = n => p <= LastIndex(s, n)
<1>0. Len(s) \in Nat /\ DOMAIN s = 1 .. Len(s) BY SeqFacts
<1>1. PICK T : T = {i \in 1 .. Len(s) : s[i] = n} OBVIOUS
<1>2. LastIndex(s, n) = IF T # {} THEN Max(T) ELSE 0 BY <1>1 DEF LastIndex, SelectLastInSeq
<1>3. CASE T = {}
  <2>1. ~Has(s, n) BY <1>0, <1>1, <1>3 DEF Has
  <2> QED BY <1>0, <1>2, <1>3, <2>1
<1>4. CASE T # {}
  <2>1. T \subseteq 0 .. Len(s) /\ T \subseteq Nat BY <1>0, <1>1
  <2>2. \E x \in T : \A y \in T : y <= x BY <1>0, <1>4, <2>1, Greatest
  <2>3. \E x \in T : \A y \in T : x >= y BY <2>1, <2>2
  <2>4. Max(T) \in T /\ \A y \in T : Max(T) >= y BY <2>3 DEF Max
  <2>5. PICK x \in T : x = LastIndex(s, n) /\ \A y \in T : x >= y BY <1>2, <1>4, <2>4
  <2>6. x \in 1 .. Len(s) /\ s[x] = n /\ \A y \in T : y <= x BY <1>1, <2>1, <2>5
  <2>7. Has(s, n) BY <1>0, <2>6 DEF Has
  <2>8. \A p \in DOMAIN s : s[p] = n => p <= x BY <1>0, <1>1, <2>6
  <2> QED BY <1>0, <2>5, <2>6, <2>7, <2>8
<1> QED BY <1>3, <1>4

\* t is s with e put in at place i.
Inserted(s, t, e, i) ==
  /\ t \in Seq(Nat) /\ Len(t) = Len(s) + 1 /\ i \in 1 .. Len(s) + 1
  /\ \A p \in DOMAIN t : t[p] = IF p < i THEN s[p] ELSE IF p = i THEN e ELSE s[p - 1]

LEMMA AppendInserts ==
  ASSUME NEW s \in Seq(Nat), NEW e \in Nat
  PROVE  Inserted(s, Append(s, e), e, Len(s) + 1)
<1>0. Len(s) \in Nat /\ DOMAIN s = 1 .. Len(s) BY SeqFacts
<1>1. /\ Append(s, e) \in Seq(Nat) /\ Len(Append(s, e)) = Len(s) + 1
      /\ DOMAIN Append(s, e) = 1 .. Len(s) + 1
      /\ \A p \in 1 .. Len(s) + 1 : Append(s, e)[p] = IF p = Len(s) + 1 THEN e ELSE s[p]
  BY <1>0
<1> QED BY <1>0, <1>1 DEF Inserted

LEMMA JoinIs ==
  ASSUME NEW a \in Seq(Nat), NEW b \in Seq(Nat)
  PROVE  /\ a \o b \in Seq(Nat) /\ Len(a \o b) = Len(a) + Len(b)
         /\ \A p \in 1 .. Len(a) : (a \o b)[p] = a[p]
         /\ \A p \in Len(a) + 1 .. Len(a) + Len(b) : (a \o b)[p] = b[p - Len(a)]
<1>1. Len(a) \in Nat /\ Len(b) \in Nat BY SeqFacts
<1>2. PICK n \in Nat : n = Len(a) BY <1>1
<1>3. PICK m \in Nat : m = Len(b) BY <1>1
<1>4. Len(a) = n /\ Len(b) = m BY <1>2, <1>3
<1>5. /\ a \o b \in Seq(Nat) /\ Len(a \o b) = n + m
      /\ \A p \in 1 .. n : (a \o b)[p] = a[p]
      /\ \A p \in n + 1 .. n + m : (a \o b)[p] = b[p - n]
  BY <1>4
<1> QED BY <1>4, <1>5, Zenon

LEMMA InsertAtInserts ==
  ASSUME NEW s \in Seq(Nat), NEW e \in Nat, NEW i \in 1 .. Len(s) + 1
  PROVE  Inserted(s, InsertAt(s, i, e), e, i)
<1>0. Len(s) \in Nat /\ DOMAIN s = 1 .. Len(s) /\ \A p \in 1 .. Len(s) : s[p] \in Nat BY SeqFacts
<1>1. PICK l : l = SubSeq(s, 1, i - 1) OBVIOUS
<1>2. PICK r : r = SubSeq(s, i, Len(s)) OBVIOUS
<1>3. l \in Seq(Nat) /\ Len(l) = i - 1 /\ \A p \in 1 .. i - 1 : l[p] = s[p]
  BY <1>0, <1>1
<1>4. /\ r \in Seq(Nat) /\ Len(r) = Len(s) - i + 1
      /\ \A p \in 1 .. Len(s) - i + 1 : r[p] = s[i + p - 1]
  BY <1>0, <1>2
<1>5. PICK m : m = <<e>> OBVIOUS
<1>6. m \in Seq(Nat) /\ Len(m) = 1 /\ m[1] = e BY <1>5
<1>7. PICK lm : lm = l \o m OBVIOUS
<1>8. lm \in Seq(Nat) /\ Len(lm) = i /\ \A p \in 1 .. i : lm[p] = IF p < i THEN s[p] ELSE e
  <2>1. i - 1 \in Nat /\ 1 \in Nat /\ (i - 1) + 1 = i BY <1>0
  <2>2. PICK k \in Nat : k = i - 1 BY <2>1
  <2>3. /\ lm \in Seq(Nat) /\ Len(lm) = k + 1
        /\ \A p \in 1 .. k : lm[p] = l[p]
        /\ \A p \in k + 1 .. k + 1 : lm[p] = m[p - k]
    <3>1. Len(l) = k /\ Len(m) = 1 BY <1>3, <1>6, <2>2
    <3>2. PICK o \in Nat : o = 1 OBVIOUS
    <3>3. Len(m) = o BY <3>1, <3>2
    <3>4. /\ lm \in Seq(Nat) /\ Len(lm) = k + o
          /\ \A p \in 1 .. k : lm[p] = l[p]
          /\ \A p \in k + 1 .. k + o : lm[p] = m[p - k]
      <4>1. l \in Seq(Nat) /\ m \in Seq(Nat) /\ Len(l) = k BY <1>3, <1>6, <3>1
      <4> QED BY <1>7, <3>3, <4>1, JoinIs
    <3> QED BY <3>2, <3>4
  <2>4. ASSUME NEW p \in 1 .. i PROVE lm[p] = IF p < i THEN s[p] ELSE e
    <3>1. CASE p < i
      <4>1. p \in 1 .. k BY <1>0, <2>2, <3>1
      <4>2. lm[p] = l[p] /\ l[p] = s[p] BY <1>3, <2>2, <2>3, <4>1
      <4> QED BY <3>1, <4>2
    <3>2. CASE p = i
      <4>1. p \in k + 1 .. k + 1 /\ p - k = 1 BY <1>0, <2>2, <3>2
      <4>2. lm[p] = m[1] BY <2>3, <4>1
      <4> QED BY <1>0, <1>6, <3>2, <4>2
    <3> QED BY <1>0, <3>1, <3>2
  <2> QED BY <1>0, <2>2, <2>3, <2>4
<1>9. PICK t : t = lm \o r OBVIOUS
<1>10. InsertAt(s, i, e) = t BY <1>1, <1>2, <1>5, <1>7, <1>9 DEF InsertAt
<1>11. /\ t \in Seq(Nat) /\ Len(t) = Len(s) + 1 /\ DOMAIN t = 1 .. Len(s) + 1
       /\ \A p \in 1 .. Len(s) + 1 : t[p] = IF p <= i THEN lm[p] ELSE r[p - i]
  <2>1. i \in Nat /\ Len(s) - i + 1 \in Nat /\ i + (Len(s) - i + 1) = Len(s) + 1 BY <1>0
  <2>2. PICK k \in Nat : k = Len(s) - i + 1 BY <2>1
  <2>3. /\ t \in Seq(Nat) /\ Len(t) = i + k
        /\ \A p \in 1 .. i : t[p] = lm[p]
        /\ \A p \in i + 1 .. i + k : t[p] = r[p - i]
    <3>1. Len(lm) = i /\ Len(r) = k BY <1>4, <1>8, <2>2
    <3>2. lm \in Seq(Nat) /\ r \in Seq(Nat) BY <1>4, <1>8
    <3> QED BY <1>9, <3>1, <3>2, JoinIs
  <2>4. \A p \in 1 .. Len(s) + 1 : IF p <= i THEN p \in 1 .. i ELSE p \in i + 1 .. i + k
    BY <1>0, <2>1, <2>2
  <2>5. Len(t) = Len(s) + 1 BY <2>1, <2>2, <2>3
  <2>6. DOMAIN t = 1 .. Len(s) + 1 BY <2>3, <2>5
  <2> QED BY <2>3, <2>4, <2>5, <2>6
<1>12. ASSUME NEW p \in 1 .. Len(s) + 1
       PROVE  t[p] = IF p < i THEN s[p] ELSE IF p = i THEN e ELSE s[p - 1]
  <2>1. CASE p <= i BY <1>0, <1>8, <1>11, <2>1
  <2>2. CASE p > i
    <3>1. p - i \in 1 .. Len(s) - i + 1 /\ i + (p - i) - 1 = p - 1 BY <1>0, <2>2
    <3>2. r[p - i] = s[p - 1] BY <1>4, <3>1
    <3>3. t[p] = r[p - i] /\ ~(p < i) /\ p # i BY <1>0, <1>11, <2>2
    <3> QED BY <3>2, <3>3
  <2> QED BY <1>0, <2>1, <2>2
<1> QED BY <1>10, <1>11, <1>12 DEF Inserted

\* Where the names of s are afterwards.
LEMMA InsertedPlaces ==
  ASSUME NEW s \in Seq(Nat), NEW t, NEW e, NEW i, Inserted(s, t, e, i)
  PROVE  /\ t \in Seq(Nat) /\ i \in DOMAIN t /\ t[i] = e
         /\ \A p \in DOMAIN s : \E q \in DOMAIN t :
              t[q] = s[p] /\ (p < i => q = p) /\ (p >= i => q = p + 1)
         /\ \A q \in DOMAIN t : q # i => \E p \in DOMAIN s :
              t[q] = s[p] /\ (q < i => q = p) /\ (q > i => q = p + 1)
<1>0. /\ Len(s) \in Nat /\ DOMAIN s = 1 .. Len(s) /\ t \in Seq(Nat)
      /\ DOMAIN t = 1 .. Len(s) + 1 /\ i \in 1 .. Len(s) + 1
  BY SeqFacts DEF Inserted
<1>1. \A p \in 1 .. Len(s) + 1 : t[p] = IF p < i THEN s[p] ELSE IF p = i THEN e ELSE s[p - 1]
  BY <1>0 DEF Inserted
<1>2. ASSUME NEW p \in DOMAIN s
      PROVE  \E q \in DOMAIN t : t[q] = s[p] /\ (p < i => q = p) /\ (p >= i => q = p + 1)
  <2>1. CASE p < i BY <1>0, <1>1, <2>1
  <2>2. CASE p >= i
    <3>1. p + 1 \in 1 .. Len(s) + 1 /\ ~(p + 1 < i) /\ p + 1 # i /\ (p + 1) - 1 = p /\ ~(p < i)
      BY <1>0, <2>2
    <3>2. t[p + 1] = s[p] BY <1>1, <3>1
    <3> QED BY <1>0, <3>1, <3>2
  <2> QED BY <1>0, <2>1, <2>2
<1>3. ASSUME NEW q \in DOMAIN t, q # i
      PROVE  \E p \in DOMAIN s : t[q] = s[p] /\ (q < i => q = p) /\ (q > i => q = p + 1)
  <2>1. CASE q < i
    <3>1. q \in DOMAIN s /\ ~(q > i) BY <1>0, <2>1
    <3> QED BY <1>0, <1>1, <2>1, <3>1
  <2>2. CASE q > i
    <3>1. q - 1 \in DOMAIN s /\ ~(q < i) /\ q = (q - 1) + 1 BY <1>0, <2>2
    <3>2. t[q] = s[q - 1] BY <1>0, <1>1, <1>3, <3>1
    <3> QED BY <3>1, <3>2
  <2> QED BY <1>0, <1>3, <2>1, <2>2
<1> QED BY <1>0, <1>1, <1>2, <1>3

\* What putting a name in changes: nothing in the order of the others.
LEMMA InsertedKeeps ==
  ASSUME NEW s \in Seq(Nat), NEW t, NEW e, NEW i, Inserted(s, t, e, i)
  PROVE  /\ t \in Seq(Nat)
         /\ \A n : Has(t, n) <=> Has(s, n) \/ n = e
         /\ \A m, n : m # e /\ n # e /\ Precedes(s, m, n) => Precedes(t, m, n)
<1>0. /\ Len(s) \in Nat /\ DOMAIN s = 1 .. Len(s) /\ t \in Seq(Nat)
      /\ DOMAIN t = 1 .. Len(s) + 1 /\ i \in 1 .. Len(s) + 1
  BY SeqFacts DEF Inserted
<1>1. /\ i \in DOMAIN t /\ t[i] = e
      /\ \A p \in DOMAIN s : \E q \in DOMAIN t : t[q] = s[p]
      /\ \A q \in DOMAIN t : q # i => \E p \in DOMAIN s :
           t[q] = s[p] /\ (q < i => q = p) /\ (q > i => q = p + 1)
  BY InsertedPlaces
<1>2. ASSUME NEW n PROVE Has(t, n) <=> Has(s, n) \/ n = e BY <1>1 DEF Has
<1>3. ASSUME NEW m, NEW n, m # e, n # e, Precedes(s, m, n),
             NEW p \in DOMAIN t, NEW q \in DOMAIN t, t[p] = m, t[q] = n
      PROVE  p < q
  <2>1. p # i /\ q # i BY <1>1, <1>3
  <2>2. PICK a \in DOMAIN s : t[p] = s[a] /\ (p < i => p = a) /\ (p > i => p = a + 1)
    BY <1>1, <2>1
  <2>3. PICK b \in DOMAIN s : t[q] = s[b] /\ (q < i => q = b) /\ (q > i => q = b + 1)
    BY <1>1, <2>1
  <2>4. a < b BY <1>3, <2>2, <2>3 DEF Precedes
  <2> QED BY <1>0, <2>1, <2>2, <2>3, <2>4
<1>4. \A m, n : m # e /\ n # e /\ Precedes(s, m, n) => Precedes(t, m, n)
  BY <1>3 DEF Precedes
<1> QED BY <1>0, <1>2, <1>4

\* And where a new name stands.
LEMMA InsertedNames ==
  ASSUME NEW s \in Seq(Nat), NEW t, NEW e, NEW i, Inserted(s, t, e, i), ~Has(s, e)
  PROVE  /\ IsInjective(s) => IsInjective(t)
         /\ \A n : n # e /\ (\A p \in DOMAIN s : s[p] = n => p >= i) => Precedes(t, e, n)
         /\ \A n : n # e /\ (\A p \in DOMAIN s : s[p] = n => p < i) => Precedes(t, n, e)
<1>0. /\ Len(s) \in Nat /\ DOMAIN s = 1 .. Len(s) /\ t \in Seq(Nat)
      /\ DOMAIN t = 1 .. Len(s) + 1 /\ i \in 1 .. Len(s) + 1
  BY SeqFacts DEF Inserted
<1>1. /\ i \in DOMAIN t /\ t[i] = e
      /\ \A q \in DOMAIN t : q # i => \E p \in DOMAIN s :
           t[q] = s[p] /\ (q < i => q = p) /\ (q > i => q = p + 1)
  BY InsertedPlaces
<1>2. \A q \in DOMAIN t : t[q] = e => q = i BY <1>1 DEF Has
<1>3. ASSUME IsInjective(s), NEW p \in DOMAIN t, NEW q \in DOMAIN t, t[p] = t[q]
      PROVE  p = q
  <2>1. CASE p = i \/ q = i BY <1>1, <1>2, <1>3, <2>1
  <2>2. CASE p # i /\ q # i
    <3>1. PICK a \in DOMAIN s : t[p] = s[a] /\ (p < i => p = a) /\ (p > i => p = a + 1)
      BY <1>1, <2>2
    <3>2. PICK b \in DOMAIN s : t[q] = s[b] /\ (q < i => q = b) /\ (q > i => q = b + 1)
      BY <1>1, <2>2
    <3>3. a = b BY <1>3, <3>1, <3>2 DEF IsInjective
    <3> QED BY <1>0, <2>2, <3>1, <3>2, <3>3
  <2> QED BY <2>1, <2>2
<1>4. ASSUME NEW n, n # e, NEW p \in DOMAIN t, NEW q \in DOMAIN t, t[p] = e, t[q] = n
      PROVE  /\ (\A a \in DOMAIN s : s[a] = n => a >= i) => p < q
             /\ (\A a \in DOMAIN s : s[a] = n => a < i) => q < p
  <2>1. p = i /\ q # i BY <1>2, <1>4
  <2>2. PICK a \in DOMAIN s : t[q] = s[a] /\ (q < i => q = a) /\ (q > i => q = a + 1)
    BY <1>1, <2>1
  <2> QED BY <1>0, <1>4, <2>1, <2>2
<1>5. IsInjective(s) => IsInjective(t) BY <1>3 DEF IsInjective
<1>6. \A n : n # e /\ (\A p \in DOMAIN s : s[p] = n => p >= i) => Precedes(t, e, n)
  BY <1>4 DEF Precedes
<1>7. \A n : n # e /\ (\A p \in DOMAIN s : s[p] = n => p < i) => Precedes(t, n, e)
  BY <1>4 DEF Precedes
<1> QED BY <1>5, <1>6, <1>7

-----------------------------------------------------------------------------
(* sortProcessors, step by step and call by call.                           *)

Processors == [op : {"register", "replace", "remove"}, name : Nat \ {NoName},
               before : Nat, after : Nat]

LEMMA NamesAre ==
  ASSUME NEW ps \in Seq(Processors)
  PROVE  /\ NamesOf(ps) \in Seq(Nat) /\ Len(NamesOf(ps)) = Len(ps)
         /\ DOMAIN NamesOf(ps) = DOMAIN ps /\ Len(ps) \in Nat /\ DOMAIN ps = 1 .. Len(ps)
         /\ \A i \in DOMAIN ps : NamesOf(ps)[i] = ps[i].name /\ ps[i] \in Processors
<1>1. Len(ps) \in Nat /\ DOMAIN ps = 1 .. Len(ps) /\ \A i \in DOMAIN ps : ps[i] \in Processors
  BY SeqFacts
<1>2. PICK n \in Nat : n = Len(ps) BY <1>1
<1>3. NamesOf(ps) = [i \in 1 .. n |-> ps[i].name] BY <1>1, <1>2 DEF NamesOf
<1>4. NamesOf(ps) \in [1 .. n -> Nat] BY <1>1, <1>2, <1>3 DEF Processors, NoName
<1>5. PICK f \in [1 .. n -> Nat] : f = NamesOf(ps) BY <1>4
<1>6. f \in Seq(Nat) /\ Len(f) = n /\ DOMAIN f = 1 .. n BY IsSeq
<1> QED BY <1>1, <1>2, <1>3, <1>5, <1>6

\* The calls of sortCallbackProcessor inside one another.
LEMMA PlaceCalls ==
  ASSUME NEW ps, NEW n \in Nat, n = Depth(ps)
  PROVE  \E deep : /\ Place(ps) = deep[n] /\ deep[0] = NoSorter(ps)
                 /\ \A d \in 0 .. n - 1 : deep[d + 1] = Sorter(deep[d], ps)
<1>1. PICK S : S = {m \in Nat : \E h : h = [d \in 0 .. m |->
                                  IF d = 0 THEN NoSorter(ps) ELSE Sorter(h[d - 1], ps)]}
  OBVIOUS
<1>2. 0 \in S
  <2>1. PICK h : h = [d \in 0 .. 0 |-> NoSorter(ps)] OBVIOUS
  <2>2. h = [d \in 0 .. 0 |-> IF d = 0 THEN NoSorter(ps) ELSE Sorter(h[d - 1], ps)] BY <2>1
  <2> QED BY <1>1, <2>2
<1>3. ASSUME NEW m \in 0 .. n - 1, m \in S PROVE m + 1 \in S
  <2>1. PICK h : h = [d \in 0 .. m |-> IF d = 0 THEN NoSorter(ps) ELSE Sorter(h[d - 1], ps)]
    BY <1>1, <1>3
  <2>2. PICK b : b = Sorter(h[m], ps) OBVIOUS
  <2>3. PICK f : f = [d \in 0 .. m + 1 |-> IF d = m + 1 THEN b ELSE h[d]] OBVIOUS
  <2>4. ASSUME NEW d \in 0 .. m + 1
        PROVE  f[d] = IF d = 0 THEN NoSorter(ps) ELSE Sorter(f[d - 1], ps)
    <3>1. CASE d = m + 1
      <4>1. d # 0 /\ d - 1 = m /\ m \in 0 .. m + 1 /\ m # m + 1 BY <3>1
      <4>2. f[d] = b /\ f[m] = h[m] BY <2>3, <3>1, <4>1
      <4> QED BY <2>2, <3>1, <4>1, <4>2
    <3>2. CASE d # m + 1
      <4>1. d \in 0 .. m /\ (d # 0 => d - 1 \in 0 .. m /\ d - 1 \in 0 .. m + 1 /\ d - 1 # m + 1)
        BY <3>2
      <4>2. f[d] = h[d] /\ (d # 0 => f[d - 1] = h[d - 1]) BY <2>3, <3>2, <4>1
      <4>3. h[d] = IF d = 0 THEN NoSorter(ps) ELSE Sorter(h[d - 1], ps) BY <2>1, <4>1
      <4> QED BY <4>2, <4>3
    <3> QED BY <3>1, <3>2
  <2>5. f = [d \in 0 .. m + 1 |-> f[d]] BY <2>3
  <2>6. f = [d \in 0 .. m + 1 |-> IF d = 0 THEN NoSorter(ps) ELSE Sorter(f[d - 1], ps)]
    BY <2>4, <2>5
  <2>7. m + 1 \in Nat OBVIOUS
  <2> QED BY <1>1, <2>6, <2>7
<1>4. n \in S
  <2>1. 0 .. n \subseteq S BY <1>2, <1>3, Steps
  <2> QED BY <2>1
<1>5. \E h : h = [d \in 0 .. n |-> IF d = 0 THEN NoSorter(ps) ELSE Sorter(h[d - 1], ps)]
  BY <1>1, <1>4
<1>6. PICK a : a = CHOOSE h : h = [d \in 0 .. n |->
                                    IF d = 0 THEN NoSorter(ps) ELSE Sorter(h[d - 1], ps)]
  OBVIOUS
<1>7. a = [d \in 0 .. n |-> IF d = 0 THEN NoSorter(ps) ELSE Sorter(a[d - 1], ps)] BY <1>5, <1>6
<1>8. Place(ps) = a[n] BY <1>6 DEF Place
<1>9. a[0] = NoSorter(ps) BY <1>7
<1>10. ASSUME NEW d \in 0 .. n - 1 PROVE a[d + 1] = Sorter(a[d], ps)
  <2>1. d + 1 \in 0 .. n /\ d + 1 # 0 /\ (d + 1) - 1 = d BY <1>10
  <2> QED BY <1>7, <2>1
<1> QED BY <1>8, <1>9, <1>10

\* The states between the processors.
SortRun(ps, n, a) ==
  /\ a[0] = Unsorted(ps) /\ Sorted(ps) = a[n]
  /\ \A k \in 0 .. n - 1 : a[k + 1] = Place(ps)[k + 1][a[k]]

LEMMA SortSteps ==
  ASSUME NEW ps, NEW n \in Nat, n = Len(ps)
  PROVE  \E a : SortRun(ps, n, a)
<1>1. PICK S : S = {m \in Nat : \E h : h = [k \in 0 .. m |->
                                  IF k = 0 THEN Unsorted(ps) ELSE Place(ps)[k][h[k - 1]]]}
  OBVIOUS
<1>2. 0 \in S
  <2>1. PICK h : h = [k \in 0 .. 0 |-> Unsorted(ps)] OBVIOUS
  <2>2. h = [k \in 0 .. 0 |-> IF k = 0 THEN Unsorted(ps) ELSE Place(ps)[k][h[k - 1]]] BY <2>1
  <2> QED BY <1>1, <2>2
<1>3. ASSUME NEW m \in 0 .. n - 1, m \in S PROVE m + 1 \in S
  <2>1. PICK h : h = [k \in 0 .. m |-> IF k = 0 THEN Unsorted(ps) ELSE Place(ps)[k][h[k - 1]]]
    BY <1>1, <1>3
  <2>2. PICK b : b = Place(ps)[m + 1][h[m]] OBVIOUS
  <2>3. PICK f : f = [k \in 0 .. m + 1 |-> IF k = m + 1 THEN b ELSE h[k]] OBVIOUS
  <2>4. ASSUME NEW k \in 0 .. m + 1
        PROVE  f[k] = IF k = 0 THEN Unsorted(ps) ELSE Place(ps)[k][f[k - 1]]
    <3>1. CASE k = m + 1
      <4>1. k # 0 /\ k - 1 = m /\ m \in 0 .. m + 1 /\ m # m + 1 BY <3>1
      <4>2. f[k] = b /\ f[m] = h[m] BY <2>3, <3>1, <4>1
      <4> QED BY <2>2, <3>1, <4>1, <4>2
    <3>2. CASE k # m + 1
      <4>1. k \in 0 .. m /\ (k # 0 => k - 1 \in 0 .. m /\ k - 1 \in 0 .. m + 1 /\ k - 1 # m + 1)
        BY <3>2
      <4>2. f[k] = h[k] /\ (k # 0 => f[k - 1] = h[k - 1]) BY <2>3, <3>2, <4>1
      <4>3. h[k] = IF k = 0 THEN Unsorted(ps) ELSE Place(ps)[k][h[k - 1]] BY <2>1, <4>1
      <4> QED BY <4>2, <4>3
    <3> QED BY <3>1, <3>2
  <2>5. f = [k \in 0 .. m + 1 |-> f[k]] BY <2>3
  <2>6. f = [k \in 0 .. m + 1 |-> IF k = 0 THEN Unsorted(ps) ELSE Place(ps)[k][f[k - 1]]]
    BY <2>4, <2>5
  <2>7. m + 1 \in Nat OBVIOUS
  <2> QED BY <1>1, <2>6, <2>7
<1>4. n \in S
  <2>1. 0 .. n \subseteq S BY <1>2, <1>3, Steps
  <2> QED BY <2>1
<1>5. \E h : h = [k \in 0 .. n |-> IF k = 0 THEN Unsorted(ps) ELSE Place(ps)[k][h[k - 1]]]
  BY <1>1, <1>4
<1>6. PICK a : a = CHOOSE h : h = [k \in 0 .. n |->
                                    IF k = 0 THEN Unsorted(ps) ELSE Place(ps)[k][h[k - 1]]]
  OBVIOUS
<1>7. a = [k \in 0 .. n |-> IF k = 0 THEN Unsorted(ps) ELSE Place(ps)[k][a[k - 1]]] BY <1>5, <1>6
<1>8. Sorted(ps) = a[n] BY <1>6 DEF Sorted
<1>9. a[0] = Unsorted(ps) BY <1>7
<1>10. ASSUME NEW k \in 0 .. n - 1 PROVE a[k + 1] = Place(ps)[k + 1][a[k]]
  <2>1. k + 1 \in 0 .. n /\ k + 1 # 0 /\ (k + 1) - 1 = k BY <1>10
  <2> QED BY <1>7, <2>1
<1> QED BY <1>8, <1>9, <1>10 DEF SortRun

LEMMA DepthIs ==
  ASSUME NEW ps \in Seq(Processors), ps # <<>>
  PROVE  Depth(ps) \in Nat /\ Depth(ps) >= 4
<1>1. PICK n \in Nat : n = Len(ps) BY SeqFacts
<1>2. n >= 1 BY <1>1, SeqFacts
<1>3. (n + 1) * (n + 1) = n * n + n + n + 1 /\ n * n \in Nat
  BY SMTT(30)
<1>4. n * n >= 1 BY <1>2, <1>3, SMTT(30)
<1>5. Depth(ps) = (n + 1) * (n + 1) BY <1>1 DEF Depth
<1> QED BY <1>2, <1>3, <1>4, <1>5

LEMMA SorterIs ==
  ASSUME NEW ps, NEW nested, NEW st \in SortStates(ps), NEW i \in DOMAIN ps
  PROVE  /\ Sorter(nested, ps)[i][st] = PlaceOne(nested, st, ps, i)
         /\ NoSorter(ps)[i][st] = st
BY DEF Sorter, NoSorter

LEMMA SortStateIs ==
  ASSUME NEW ps \in Seq(Processors), NEW st \in SortStates(ps)
  PROVE  /\ st.out \in Seq(Nat) /\ st.before \in [DOMAIN ps -> Nat]
         /\ st = [out |-> st.out, before |-> st.before]
         /\ \A t \in Seq(Nat) : /\ [st EXCEPT !.out = t] \in SortStates(ps)
                                /\ [st EXCEPT !.out = t].out = t
                                /\ [st EXCEPT !.out = t].before = st.before
         /\ \A i \in DOMAIN ps : \A n \in Nat :
              /\ [st EXCEPT !.before[i] = n] \in SortStates(ps)
              /\ [st EXCEPT !.before[i] = n].out = st.out
              /\ [st EXCEPT !.before[i] = n].before = [st.before EXCEPT ![i] = n]
BY DEF SortStates

\* A callback whose wishes are for none that is there is appended.
LEMMA PlainPlace ==
  ASSUME NEW ps \in Seq(Processors), NEW st \in SortStates(ps), NEW i \in DOMAIN ps, NEW nested,
         ~Has(st.out, ps[i].name),
         st.before[i] = NoName
           \/ (~Has(st.out, st.before[i]) /\ ~Has(NamesOf(ps), st.before[i])),
         ps[i].after = NoName
           \/ (~Has(st.out, ps[i].after) /\ ~Has(NamesOf(ps), ps[i].after))
  PROVE  PlaceOne(nested, st, ps, i) = [st EXCEPT !.out = Append(st.out, ps[i].name)]
<1>0. st.out \in Seq(Nat) /\ NamesOf(ps) \in Seq(Nat) BY SortStateIs, NamesAre
<1>1. LastIndex(st.out, ps[i].name) = 0 BY <1>0, LastIndexIs
<1>2. PlaceBefore(nested, st, ps, i) = st
  <2>1. CASE st.before[i] = NoName BY <2>1 DEF PlaceBefore
  <2>2. CASE st.before[i] # NoName
    <3>1. LastIndex(st.out, st.before[i]) = 0 /\ LastIndex(NamesOf(ps), st.before[i]) = 0
      BY <1>0, <2>2, LastIndexIs
    <3> QED BY <2>2, <3>1 DEF PlaceBefore
  <2> QED BY <2>1, <2>2
<1>3. PlaceAfter(nested, st, ps, i) = st
  <2>1. CASE ps[i].after = NoName BY <2>1 DEF PlaceAfter
  <2>2. CASE ps[i].after # NoName
    <3>1. LastIndex(st.out, ps[i].after) = 0 /\ LastIndex(NamesOf(ps), ps[i].after) = 0
      BY <1>0, <2>2, LastIndexIs
    <3> QED BY <2>2, <3>1 DEF PlaceAfter
  <2> QED BY <2>1, <2>2
<1> QED BY <1>1, <1>2, <1>3 DEF PlaceOne, PlaceLast

-----------------------------------------------------------------------------
(* The package's callbacks.                                                 *)

PackageFirst(ps) == Len(Base) <= Len(ps) /\ \A m \in DOMAIN Base : ps[m] = Default(m)

\* They are sorted already, in the order of the init functions.
Packaged(ps, st) ==
  /\ st \in SortStates(ps)
  /\ \A m \in DOMAIN Base : Has(st.out, Base[m]) /\ st.before[m] = NoName
  /\ \A m, n \in DOMAIN Base : m < n => Precedes(st.out, Base[m], Base[n])

LEMMA BaseIs ==
  /\ Len(Base) \in Nat /\ DOMAIN Base = 1 .. Len(Base)
  /\ \A m \in DOMAIN Base : Base[m] \in Nat \ {NoName}
  /\ \A m, n \in DOMAIN Base : Base[m] = Base[n] => m = n
<1>1. Base \in Seq(Nat \ {NoName}) /\ IsInjective(Base) BY RegistryAssumption
<1> QED BY <1>1, SeqFacts DEF IsInjective

LEMMA FrontIs ==
  ASSUME NEW ps \in Seq(Processors), PackageFirst(ps)
  PROVE  /\ DOMAIN Base \subseteq DOMAIN ps
         /\ \A m \in DOMAIN Base : /\ ps[m].name = Base[m] /\ ps[m].before = NoName
                                   /\ ps[m].after = NoName
                                   /\ NamesOf(ps)[m] = Base[m]
<1>1. DOMAIN Base \subseteq DOMAIN ps BY BaseIs, NamesAre DEF PackageFirst
<1>2. ASSUME NEW m \in DOMAIN Base
      PROVE  /\ ps[m].name = Base[m] /\ ps[m].before = NoName /\ ps[m].after = NoName
             /\ NamesOf(ps)[m] = Base[m]
  <2>1. ps[m] = Default(m) BY DEF PackageFirst
  <2>2. NamesOf(ps)[m] = ps[m].name BY <1>1, NamesAre
  <2>3. ps[m].name = Base[m] /\ ps[m].before = NoName /\ ps[m].after = NoName
    BY <2>1 DEF Default
  <2> QED BY <2>2, <2>3
<1> QED BY <1>1, <1>2

LEMMA InsertPackaged ==
  ASSUME NEW ps \in Seq(Processors), NEW st, Packaged(ps, st), NEW t, NEW e, NEW i,
         Inserted(st.out, t, e, i), \A m \in DOMAIN Base : Base[m] # e
  PROVE  Packaged(ps, [st EXCEPT !.out = t])
<1>0. st \in SortStates(ps) BY DEF Packaged
<1>1. st.out \in Seq(Nat) BY <1>0, SortStateIs
<1>2. /\ t \in Seq(Nat)
      /\ \A n : Has(t, n) <=> Has(st.out, n) \/ n = e
      /\ \A m, n : m # e /\ n # e /\ Precedes(st.out, m, n) => Precedes(t, m, n)
  BY <1>1, InsertedKeeps
<1>3. PICK s : s = [st EXCEPT !.out = t] OBVIOUS
<1>4. s \in SortStates(ps) /\ s.out = t /\ s.before = st.before BY <1>0, <1>2, <1>3, SortStateIs
<1>5. \A m \in DOMAIN Base : Has(t, Base[m]) /\ s.before[m] = NoName BY <1>2, <1>4 DEF Packaged
<1>6. \A m, n \in DOMAIN Base : m < n => Precedes(t, Base[m], Base[n]) BY <1>2 DEF Packaged
<1> QED BY <1>3, <1>4, <1>5, <1>6 DEF Packaged

\* Sorting one more callback keeps that, if sorting those in its wishes does.
LEMMA PlaceOnePackaged ==
  ASSUME NEW ps \in Seq(Processors), PackageFirst(ps), NEW st, Packaged(ps, st),
         NEW i \in DOMAIN ps, NEW nested,
         \A j \in DOMAIN ps : \A s \in SortStates(ps) :
           Packaged(ps, s) => Packaged(ps, nested[j][s])
  PROVE  Packaged(ps, PlaceOne(nested, st, ps, i))
<1>1. st \in SortStates(ps) BY DEF Packaged
<1>2. st.out \in Seq(Nat) /\ NamesOf(ps) \in Seq(Nat) /\ DOMAIN NamesOf(ps) = DOMAIN ps
  BY <1>1, SortStateIs, NamesAre
<1>3. PICK e : e = ps[i].name OBVIOUS
<1>4. e \in Nat BY <1>3, NamesAre DEF Processors
<1>5. CASE LastIndex(st.out, e) # 0 BY <1>3, <1>5 DEF PlaceOne
<1>6. CASE LastIndex(st.out, e) = 0
  <2>1. \A m \in DOMAIN Base : Base[m] # e BY <1>2, <1>6, LastIndexIs DEF Packaged
  <2>2. PICK s : s = PlaceBefore(nested, st, ps, i) OBVIOUS
  <2>3. Packaged(ps, s)
    <3>1. PICK b : b = st.before[i] OBVIOUS
    <3>2. PICK here : here = LastIndex(st.out, b) OBVIOUS
    <3>3. PICK next : next = LastIndex(NamesOf(ps), b) OBVIOUS
    <3>4. CASE b = NoName BY <2>2, <3>1, <3>4 DEF PlaceBefore
    <3>5. CASE b # NoName /\ here # 0
      <4>1. here \in 1 .. Len(st.out) + 1 BY <1>2, <3>2, <3>5, LastIndexIs, SeqFacts
      <4>2. PICK t : t = InsertAt(st.out, here, e) OBVIOUS
      <4>3. Inserted(st.out, t, e, here) BY <1>2, <1>4, <4>1, <4>2, InsertAtInserts
      <4>4. s = [st EXCEPT !.out = t] BY <1>3, <2>2, <3>1, <3>2, <3>5, <4>2 DEF PlaceBefore
      <4> QED BY <2>1, <4>3, <4>4, InsertPackaged
    <3>6. CASE b # NoName /\ here = 0 /\ next # 0
      <4>1. PICK t : t = Append(st.out, e) OBVIOUS
      <4>2. PICK p : p = Len(st.out) + 1 OBVIOUS
      <4>3. Inserted(st.out, t, e, p) BY <1>2, <1>4, <4>1, <4>2, AppendInserts
      <4>4. PICK u : u = [st EXCEPT !.out = t] OBVIOUS
      <4>5. Packaged(ps, u) BY <2>1, <4>3, <4>4, InsertPackaged
      <4>6. u \in SortStates(ps) BY <4>5 DEF Packaged
      <4>7. next \in DOMAIN ps BY <1>2, <3>3, <3>6, LastIndexIs
      <4>8. s = nested[next][u]
        BY <1>3, <2>2, <3>1, <3>2, <3>3, <3>6, <4>1, <4>4 DEF PlaceBefore
      <4> QED BY <4>5, <4>6, <4>7, <4>8
    <3>7. CASE b # NoName /\ here = 0 /\ next = 0
      BY <2>2, <3>1, <3>2, <3>3, <3>7 DEF PlaceBefore
    <3> QED BY <3>4, <3>5, <3>6, <3>7
  <2>4. s \in SortStates(ps) BY <2>3 DEF Packaged
  <2>5. s.out \in Seq(Nat) BY <2>4, SortStateIs
  <2>6. PICK v : v = PlaceAfter(nested, s, ps, i) OBVIOUS
  <2>7. Packaged(ps, v)
    <3>1. PICK a : a = ps[i].after OBVIOUS
    <3>2. PICK here : here = LastIndex(s.out, a) OBVIOUS
    <3>3. PICK next : next = LastIndex(NamesOf(ps), a) OBVIOUS
    <3>4. CASE a = NoName BY <2>3, <2>6, <3>1, <3>4 DEF PlaceAfter
    <3>5. CASE a # NoName /\ here # 0
      <4>1. here + 1 \in 1 .. Len(s.out) + 1 BY <2>5, <3>2, <3>5, LastIndexIs, SeqFacts
      <4>2. PICK p : p = here + 1 OBVIOUS
      <4>3. PICK t : t = InsertAt(s.out, p, e) OBVIOUS
      <4>4. Inserted(s.out, t, e, p) BY <1>4, <2>5, <4>1, <4>2, <4>3, InsertAtInserts
      <4>5. v = [s EXCEPT !.out = t]
        BY <1>3, <2>6, <3>1, <3>2, <3>5, <4>2, <4>3 DEF PlaceAfter
      <4> QED BY <2>1, <2>3, <4>4, <4>5, InsertPackaged
    <3>6. CASE a # NoName /\ here = 0 /\ next # 0
      <4>1. next \in DOMAIN ps /\ NamesOf(ps)[next] = a BY <1>2, <3>3, <3>6, LastIndexIs
      <4>2. ~Has(s.out, a) BY <2>5, <3>2, <3>6, LastIndexIs
      <4>3. PICK n : n = IF s.before[next] = NoName THEN e ELSE s.before[next] OBVIOUS
      <4>4. n \in Nat BY <1>4, <2>4, <4>1, <4>3, SortStateIs
      <4>5. PICK u : u = [s EXCEPT !.before[next] = n] OBVIOUS
      <4>6. /\ u \in SortStates(ps) /\ u.out = s.out /\ u.before = [s.before EXCEPT ![next] = n]
            /\ s.before \in [DOMAIN ps -> Nat]
        BY <2>4, <4>1, <4>4, <4>5, SortStateIs
      <4>7. \A m \in DOMAIN Base : m # next
        <5>1. \A m \in DOMAIN Base : NamesOf(ps)[m] = Base[m] BY FrontIs
        <5>2. \A m \in DOMAIN Base : Has(s.out, Base[m]) BY <2>3 DEF Packaged
        <5> QED BY <4>1, <4>2, <5>1, <5>2
      <4>8. Packaged(ps, u)
        <5>1. \A m \in DOMAIN Base : u.before[m] = s.before[m] BY <4>6, <4>7, FrontIs
        <5> QED BY <2>3, <4>6, <5>1 DEF Packaged
      <4>9. v = nested[next][u]
        BY <1>3, <2>6, <3>1, <3>2, <3>3, <3>6, <4>3, <4>5 DEF PlaceAfter
      <4> QED BY <4>1, <4>6, <4>8, <4>9
    <3>7. CASE a # NoName /\ here = 0 /\ next = 0
      BY <2>3, <2>6, <3>1, <3>2, <3>3, <3>7 DEF PlaceAfter
    <3> QED BY <3>4, <3>5, <3>6, <3>7
  <2>8. PlaceOne(nested, st, ps, i) = PlaceLast(v, ps, i)
    BY <1>3, <1>6, <2>2, <2>6 DEF PlaceOne
  <2>9. CASE LastIndex(v.out, e) # 0 BY <1>3, <2>7, <2>8, <2>9 DEF PlaceLast
  <2>10. CASE LastIndex(v.out, e) = 0
    <3>1. v.out \in Seq(Nat) BY <2>7, SortStateIs DEF Packaged
    <3>2. PICK t : t = Append(v.out, e) OBVIOUS
    <3>3. PICK p : p = Len(v.out) + 1 OBVIOUS
    <3>4. Inserted(v.out, t, e, p) BY <1>4, <3>1, <3>2, <3>3, AppendInserts
    <3>5. PlaceLast(v, ps, i) = [v EXCEPT !.out = t] BY <1>3, <2>10, <3>2 DEF PlaceLast
    <3>6. Packaged(ps, [v EXCEPT !.out = t]) BY <2>1, <2>7, <3>4, InsertPackaged
    <3> QED BY <2>8, <3>5, <3>6
  <2> QED BY <2>9, <2>10
<1> QED BY <1>5, <1>6

LEMMA CallsPackaged ==
  ASSUME NEW ps \in Seq(Processors), PackageFirst(ps), NEW j \in DOMAIN ps, NEW s,
         Packaged(ps, s)
  PROVE  Packaged(ps, Place(ps)[j][s])
<1>0. Len(ps) \in Nat BY NamesAre
<1>1. PICK n \in Nat : n = Depth(ps)
  <2>1. \A k \in Nat : (k + 1) * (k + 1) \in Nat OBVIOUS
  <2> QED BY <1>0, <2>1 DEF Depth
<1>2. PICK deep : /\ Place(ps) = deep[n] /\ deep[0] = NoSorter(ps)
                /\ \A d \in 0 .. n - 1 : deep[d + 1] = Sorter(deep[d], ps)
  BY <1>1, PlaceCalls
<1>3. PICK S : S = {d \in Nat : \A i \in DOMAIN ps : \A st \in SortStates(ps) :
                      Packaged(ps, st) => Packaged(ps, deep[d][i][st])}
  OBVIOUS
<1>4. 0 \in S
  <2>1. \A i \in DOMAIN ps : \A st \in SortStates(ps) : deep[0][i][st] = st BY <1>2 DEF NoSorter
  <2> QED BY <1>3, <2>1
<1>5. ASSUME NEW d \in 0 .. n - 1, d \in S PROVE d + 1 \in S
  <2>1. ASSUME NEW i \in DOMAIN ps, NEW st \in SortStates(ps), Packaged(ps, st)
        PROVE  Packaged(ps, deep[d + 1][i][st])
    <3>1. PICK g : g = deep[d] OBVIOUS
    <3>2. \A k \in DOMAIN ps : \A r \in SortStates(ps) : Packaged(ps, r) => Packaged(ps, g[k][r])
      BY <1>3, <1>5, <3>1
    <3>3. Packaged(ps, PlaceOne(g, st, ps, i)) BY <2>1, <3>2, PlaceOnePackaged
    <3>4. deep[d + 1] = Sorter(g, ps) BY <1>2, <3>1
    <3> QED BY <3>3, <3>4, SorterIs
  <2> QED BY <1>3, <2>1
<1>6. n \in S
  <2>1. 0 .. n \subseteq S BY <1>4, <1>5, Steps
  <2> QED BY <2>1
<1>7. s \in SortStates(ps) BY DEF Packaged
<1> QED BY <1>2, <1>3, <1>6, <1>7

\* A call of sortCallbackProcessor from the loop of sortProcessors.
SortsBy(ps, f, g) ==
  \A i \in DOMAIN ps : \A st \in SortStates(ps) : f[i][st] = PlaceOne(g, st, ps, i)

LEMMA PlaceIs ==
  ASSUME NEW ps \in Seq(Processors), ps # <<>>
  PROVE  \E f, g, h : SortsBy(ps, Place(ps), f) /\ SortsBy(ps, f, g) /\ SortsBy(ps, g, h)
<1>1. PICK n \in Nat : n = Depth(ps) /\ n >= 4 BY DepthIs
<1>2. PICK deep : /\ Place(ps) = deep[n]
                /\ \A d \in 0 .. n - 1 : deep[d + 1] = Sorter(deep[d], ps)
  BY <1>1, PlaceCalls
<1>3. PICK a \in 0 .. n - 1, b \in 0 .. n - 1, c \in 0 .. n - 1 : a + 1 = n /\ b + 1 = a /\ c + 1 = b
  <2>1. /\ n - 1 \in 0 .. n - 1 /\ n - 2 \in 0 .. n - 1 /\ n - 3 \in 0 .. n - 1
        /\ (n - 1) + 1 = n /\ (n - 2) + 1 = n - 1 /\ (n - 3) + 1 = n - 2
    BY <1>1
  <2> QED BY <2>1
<1>4. deep[n] = Sorter(deep[a], ps) /\ deep[a] = Sorter(deep[b], ps) /\ deep[b] = Sorter(deep[c], ps)
  BY <1>2, <1>3
<1>5. PICK f, g, h : f = deep[a] /\ g = deep[b] /\ h = deep[c] OBVIOUS
<1>6. Place(ps) = Sorter(f, ps) /\ f = Sorter(g, ps) /\ g = Sorter(h, ps) BY <1>2, <1>4, <1>5
<1>7. ASSUME NEW i \in DOMAIN ps, NEW st \in SortStates(ps)
      PROVE  /\ Place(ps)[i][st] = PlaceOne(f, st, ps, i)
             /\ f[i][st] = PlaceOne(g, st, ps, i)
             /\ g[i][st] = PlaceOne(h, st, ps, i)
  <2>1. Place(ps)[i][st] = PlaceOne(f, st, ps, i) BY <1>6, SorterIs
  <2>2. f[i][st] = PlaceOne(g, st, ps, i) BY <1>6, SorterIs
  <2>3. g[i][st] = PlaceOne(h, st, ps, i) BY <1>6, SorterIs
  <2> QED BY <2>1, <2>2, <2>3
<1>8. SortsBy(ps, Place(ps), f) /\ SortsBy(ps, f, g) /\ SortsBy(ps, g, h) BY <1>7 DEF SortsBy
<1> QED BY <1>8

LEMMA UnsortedIs ==
  ASSUME NEW ps \in Seq(Processors)
  PROVE  /\ Unsorted(ps) \in SortStates(ps) /\ Unsorted(ps).out = <<>>
         /\ \A i \in DOMAIN ps : Unsorted(ps).before[i] = ps[i].before
<1>1. \A i \in DOMAIN ps : ps[i].before \in Nat BY NamesAre DEF Processors
<1> QED BY <1>1 DEF Unsorted, SortStates

\* The package's processors come first and are appended one by one.
FrontState(ps, st, k) ==
  /\ st \in SortStates(ps) /\ st.before = Unsorted(ps).before
  /\ Len(st.out) = k /\ \A m \in 1 .. k : st.out[m] = Base[m]

LEMMA SortedPackaged ==
  ASSUME NEW ps \in Seq(Processors), PackageFirst(ps)
  PROVE  Packaged(ps, Sorted(ps))
<1>0. Len(ps) \in Nat /\ DOMAIN ps = 1 .. Len(ps) BY NamesAre
<1>1. PICK n \in Nat : n = Len(ps) BY <1>0
<1>2. PICK l \in Nat : l = Len(Base) /\ l <= n BY <1>1, BaseIs DEF PackageFirst
<1>3. PICK a : /\ a[0] = Unsorted(ps) /\ Sorted(ps) = a[n]
               /\ \A k \in 0 .. n - 1 : a[k + 1] = Place(ps)[k + 1][a[k]]
  <2>1. \E a : SortRun(ps, n, a) BY <1>1, SortSteps
  <2> QED BY <2>1 DEF SortRun
<1>4. FrontState(ps, a[l], l)
  <2>1. PICK S : S = {k \in 0 .. l : FrontState(ps, a[k], k)} OBVIOUS
  <2>2. 0 \in S
    <3>1. a[0] \in SortStates(ps) /\ a[0].out = <<>> BY <1>3, UnsortedIs
    <3>2. FrontState(ps, a[0], 0) BY <1>3, <3>1 DEF FrontState
    <3> QED BY <2>1, <3>2
  <2>3. ASSUME NEW k \in 0 .. l - 1, k \in S PROVE k + 1 \in S
    <3>1. PICK st : st = a[k] OBVIOUS
    <3>2. FrontState(ps, st, k) BY <2>1, <2>3, <3>1
    <3>3. PICK i : i = k + 1 OBVIOUS
    <3>4. i \in DOMAIN Base /\ i \in DOMAIN ps /\ k \in 0 .. n - 1
      BY <1>0, <1>1, <1>2, <3>3, BaseIs
    <3>5. ps[i].name = Base[i] /\ ps[i].before = NoName /\ ps[i].after = NoName
      BY <3>4, FrontIs
    <3>6. st \in SortStates(ps) /\ st.out \in Seq(Nat) BY <3>2, SortStateIs DEF FrontState
    <3>7. DOMAIN st.out = 1 .. k BY <3>2, <3>6, SeqFacts DEF FrontState
    <3>8. ~Has(st.out, ps[i].name)
      <4>1. \A m \in 1 .. k : m \in DOMAIN Base /\ m # i BY <1>2, <3>3, BaseIs
      <4>2. \A m \in 1 .. k : st.out[m] # Base[i]
        BY <3>2, <3>4, <4>1, BaseIs DEF FrontState
      <4> QED BY <3>5, <3>7, <4>2 DEF Has
    <3>9. st.before[i] = NoName BY <3>2, <3>4, <3>5, UnsortedIs DEF FrontState
    <3>10. PICK f, g, h : SortsBy(ps, Place(ps), f) /\ SortsBy(ps, f, g) /\ SortsBy(ps, g, h)
      <4>1. ps # <<>> BY <3>4
      <4> QED BY <4>1, PlaceIs
    <3>11. PICK t : t = Append(st.out, Base[i]) OBVIOUS
    <3>12. PlaceOne(f, st, ps, i) = [st EXCEPT !.out = t]
      BY <3>4, <3>5, <3>6, <3>8, <3>9, <3>11, PlainPlace
    <3>13. a[i] = [st EXCEPT !.out = t]
      <4>1. Place(ps)[i][st] = PlaceOne(f, st, ps, i) BY <3>4, <3>6, <3>10 DEF SortsBy
      <4>2. a[i] = Place(ps)[i][st] BY <1>3, <3>1, <3>3, <3>4
      <4> QED BY <3>12, <4>1, <4>2
    <3>14. Base[i] \in Nat BY <3>4, BaseIs
    <3>15. t \in Seq(Nat) /\ Len(t) = i /\ \A m \in 1 .. i : t[m] = Base[m]
      <4>1. Len(st.out) = k BY <3>2 DEF FrontState
      <4>2. /\ t \in Seq(Nat) /\ Len(t) = k + 1
            /\ \A m \in 1 .. k + 1 : t[m] = IF m = k + 1 THEN Base[i] ELSE st.out[m]
        BY <3>6, <3>11, <3>14, <4>1
      <4>3. \A m \in 1 .. k + 1 : m # k + 1 => st.out[m] = Base[m] BY <3>2 DEF FrontState
      <4> QED BY <3>3, <4>2, <4>3
    <3>16. a[i] \in SortStates(ps) /\ a[i].out = t /\ a[i].before = st.before
      BY <3>6, <3>13, <3>15, SortStateIs
    <3>17. FrontState(ps, a[i], i) BY <3>2, <3>15, <3>16 DEF FrontState
    <3>18. i \in 0 .. l BY <1>2, <3>3
    <3> QED BY <2>1, <3>3, <3>17, <3>18
  <2>4. 0 .. l \subseteq S BY <2>2, <2>3, Steps
  <2> QED BY <2>1, <2>4
<1>5. Packaged(ps, a[l])
  <2>1. PICK st : st = a[l] OBVIOUS
  <2>2. FrontState(ps, st, l) BY <1>4, <2>1
  <2>3. st \in SortStates(ps) /\ st.out \in Seq(Nat) BY <2>2, SortStateIs DEF FrontState
  <2>4. DOMAIN st.out = DOMAIN Base BY <1>2, <2>2, <2>3, SeqFacts, BaseIs DEF FrontState
  <2>5. \A m \in DOMAIN Base : st.out[m] = Base[m] BY <1>2, <2>2, BaseIs DEF FrontState
  <2>6. \A m \in DOMAIN Base : Has(st.out, Base[m]) BY <2>4, <2>5 DEF Has
  <2>7. \A m \in DOMAIN Base : st.before[m] = NoName BY <2>2, UnsortedIs, FrontIs DEF FrontState
  <2>8. \A m, p \in DOMAIN Base : m < p => Precedes(st.out, Base[m], Base[p])
    BY <2>4, <2>5, BaseIs DEF Precedes
  <2>9. Packaged(ps, st) BY <2>3, <2>6, <2>7, <2>8 DEF Packaged
  <2> QED BY <2>1, <2>9
<1>6. PICK c \in Nat : c = n - l BY <1>2
<1>7. PICK S : S = {k \in Nat : Packaged(ps, a[l + k])} OBVIOUS
<1>8. 0 \in S
  <2>1. l + 0 = l OBVIOUS
  <2> QED BY <1>5, <1>7, <2>1
<1>9. ASSUME NEW k \in 0 .. c - 1, k \in S PROVE k + 1 \in S
  <2>1. l + k \in 0 .. n - 1 /\ (l + k) + 1 = l + (k + 1) /\ (l + k) + 1 \in 1 .. n
    BY <1>2, <1>6
  <2>2. PICK m : m = l + k OBVIOUS
  <2>3. m \in 0 .. n - 1 /\ m + 1 = l + (k + 1) /\ m + 1 \in DOMAIN ps BY <1>0, <1>1, <2>1, <2>2
  <2>4. PICK st : st = a[m] OBVIOUS
  <2>5. Packaged(ps, st) BY <1>7, <1>9, <2>2, <2>4
  <2>6. PICK i \in DOMAIN ps : i = m + 1 BY <2>3
  <2>7. Packaged(ps, Place(ps)[i][st]) BY <2>5, CallsPackaged
  <2>8. a[m + 1] = Place(ps)[i][st] BY <1>3, <2>3, <2>4, <2>6
  <2>9. Packaged(ps, a[l + (k + 1)]) BY <2>3, <2>7, <2>8
  <2> QED BY <1>7, <2>9
<1>10. 0 .. c \subseteq S BY <1>8, <1>9, Steps
<1>11. l + c = n /\ c \in 0 .. c BY <1>2, <1>6
<1> QED BY <1>3, <1>7, <1>10, <1>11

\* The chain is what was sorted, in that order, without the removed.
LEMMA ChainFacts ==
  ASSUME NEW ps \in Seq(Processors), NEW sorted \in Seq(Nat), sorted = Sorted(ps).out
  PROVE  /\ Chain(ps) \in Seq(Nat)
         /\ \A n : Has(Chain(ps), n) <=>
              Has(sorted, n) /\ ps[LastIndex(NamesOf(ps), n)].op # "remove"
         /\ \A m, n : Precedes(sorted, m, n) => Precedes(Chain(ps), m, n)
         /\ IsInjective(sorted) => IsInjective(Chain(ps))
<1>0. Len(sorted) \in Nat /\ DOMAIN sorted = 1 .. Len(sorted) /\ \A j \in DOMAIN sorted : sorted[j] \in Nat
  BY SeqFacts
<1>1. PICK S : S = {j \in DOMAIN sorted : ps[LastIndex(NamesOf(ps), sorted[j])].op # "remove"} OBVIOUS
<1>2. PICK kept : kept = InOrder(S) OBVIOUS
<1>3. PICK c : c = Chain(ps) OBVIOUS
<1>4. c = [n \in DOMAIN kept |-> sorted[kept[n]]] BY <1>1, <1>2, <1>3 DEF Chain
<1>5. IsFiniteSet(S) /\ S \subseteq Int
  <2>1. IsFiniteSet(1 .. Len(sorted)) BY <1>0, FS_Interval
  <2>2. S \subseteq 1 .. Len(sorted) BY <1>0, <1>1
  <2>3. IsFiniteSet(S) BY <2>1, <2>2, FS_Subset
  <2> QED BY <1>0, <2>2, <2>3
<1>6. /\ Cardinality(S) \in Nat
      /\ kept \in [1 .. Cardinality(S) -> S]
      /\ \A a, b \in 1 .. Cardinality(S) : a < b => kept[a] < kept[b]
      /\ \A i \in S : \E n \in 1 .. Cardinality(S) : kept[n] = i
  BY <1>2, <1>5, InOrderFacts
<1>7. PICK l \in Nat : l = Cardinality(S) BY <1>6
<1>8. c \in [1 .. l -> Nat]
  <2>1. DOMAIN kept = 1 .. l /\ \A n \in 1 .. l : kept[n] \in S BY <1>6, <1>7
  <2>2. \A n \in 1 .. l : sorted[kept[n]] \in Nat BY <1>0, <1>1, <2>1
  <2> QED BY <1>4, <2>1, <2>2
<1>9. c \in Seq(Nat) /\ DOMAIN c = 1 .. l BY <1>8, IsSeq
<1>10. \A n \in 1 .. l : kept[n] \in S /\ kept[n] \in DOMAIN sorted /\ c[n] = sorted[kept[n]]
  BY <1>1, <1>4, <1>6, <1>7
<1>11. ASSUME NEW n PROVE Has(c, n) <=> Has(sorted, n) /\ ps[LastIndex(NamesOf(ps), n)].op # "remove"
  <2>1. ASSUME Has(c, n) PROVE Has(sorted, n) /\ ps[LastIndex(NamesOf(ps), n)].op # "remove"
    <3>1. PICK q \in 1 .. l : c[q] = n BY <1>9, <2>1 DEF Has
    <3>2. PICK j \in S : j = kept[q] BY <1>10
    <3>3. j \in DOMAIN sorted /\ sorted[j] = n BY <1>10, <3>1, <3>2
    <3>4. ps[LastIndex(NamesOf(ps), sorted[j])].op # "remove" BY <1>1, <3>2
    <3> QED BY <3>3, <3>4 DEF Has
  <2>2. ASSUME Has(sorted, n), ps[LastIndex(NamesOf(ps), n)].op # "remove" PROVE Has(c, n)
    <3>1. PICK j \in DOMAIN sorted : sorted[j] = n BY <2>2 DEF Has
    <3>2. j \in S BY <1>1, <2>2, <3>1
    <3>3. PICK q \in 1 .. l : kept[q] = j BY <1>6, <1>7, <3>2
    <3> QED BY <1>9, <1>10, <3>1, <3>3 DEF Has
  <2> QED BY <2>1, <2>2
<1>12. ASSUME NEW m, NEW n, Precedes(sorted, m, n), NEW p \in DOMAIN c, NEW q \in DOMAIN c,
              c[p] = m, c[q] = n
       PROVE  p < q
  <2>1. PICK a \in DOMAIN sorted : a = kept[p] BY <1>9, <1>10
  <2>2. PICK b \in DOMAIN sorted : b = kept[q] BY <1>9, <1>10
  <2>3. sorted[a] = m /\ sorted[b] = n BY <1>9, <1>10, <1>12, <2>1, <2>2
  <2>4. a < b BY <1>12, <2>3 DEF Precedes
  <2>5. p \in Nat /\ q \in Nat BY <1>9
  <2>6. ~(q < p) /\ p # q BY <1>0, <1>6, <1>7, <1>9, <2>1, <2>2, <2>4
  <2> QED BY <2>5, <2>6
<1>13. ASSUME IsInjective(sorted), NEW p \in DOMAIN c, NEW q \in DOMAIN c, c[p] = c[q]
       PROVE  p = q
  <2>1. PICK a \in DOMAIN sorted : a = kept[p] BY <1>9, <1>10
  <2>2. PICK b \in DOMAIN sorted : b = kept[q] BY <1>9, <1>10
  <2>3. sorted[a] = sorted[b] BY <1>9, <1>10, <1>13, <2>1, <2>2
  <2>4. a = b BY <1>13, <2>3 DEF IsInjective
  <2>5. p \in Nat /\ q \in Nat BY <1>9
  <2>6. kept[p] = a /\ kept[q] = a /\ a \in Nat BY <1>0, <2>1, <2>2, <2>4
  <2>7. p \in 1 .. Cardinality(S) /\ q \in 1 .. Cardinality(S) BY <1>7, <1>9
  <2>8. ~(p < q) /\ ~(q < p) BY <1>6, <2>6, <2>7
  <2> QED BY <2>5, <2>8
<1>14. \A m, n : Precedes(sorted, m, n) => Precedes(c, m, n) BY <1>12 DEF Precedes
<1>15. IsInjective(sorted) => IsInjective(c) BY <1>13 DEF IsInjective
<1> QED BY <1>3, <1>9, <1>11, <1>14, <1>15

-----------------------------------------------------------------------------
(* The containers.                                                          *)

Containers == [array : Nat, len : Nat, chain : Seq(Nat)]

\* The package's processors are at the front of every slice, those asked for
\* behind them.
SliceFront(k) ==
  /\ conts[k].array \in DOMAIN arrays
  /\ Len(Base) <= conts[k].len /\ conts[k].len <= Len(arrays[conts[k].array])
  /\ \A i \in 1 .. conts[k].len :
       /\ arrays[conts[k].array][i] \in DOMAIN procs
       /\ i <= Len(Base) => arrays[conts[k].array][i] = i
       /\ i > Len(Base) => arrays[conts[k].array][i] > Len(Base)

ChainInOrder(k) ==
  \A m, n \in DOMAIN Base : m < n => Precedes(conts[k].chain, Base[m], Base[n])

RegistryTypes ==
  /\ procs \in Seq(Processors) /\ Len(Base) <= Len(procs)
  /\ before \in [DOMAIN procs -> Nat]
  /\ arrays \in Seq(Seq(Nat))
  /\ conts \in Seq(Containers)
  /\ current \in [Owners -> DOMAIN conts]

RegistryInv ==
  /\ RegistryTypes
  /\ \A m \in DOMAIN Base : procs[m] = Default(m) /\ before[m] = NoName
  /\ \A k \in DOMAIN conts : SliceFront(k) /\ ChainInOrder(k)

\* The processors of a container, as sortProcessors gets them.
LEMMA SliceIs ==
  ASSUME RegistryInv, NEW k \in DOMAIN conts
  PROVE  /\ Slice(k) \in Seq(DOMAIN procs) /\ Slice(k) \in Seq(Nat)
         /\ Len(Slice(k)) = conts[k].len /\ conts[k].len \in Nat
         /\ DOMAIN Slice(k) = 1 .. conts[k].len
         /\ \A i \in 1 .. conts[k].len : Slice(k)[i] = arrays[conts[k].array][i]
         /\ Objects(Slice(k)) \in Seq(Processors) /\ PackageFirst(Objects(Slice(k)))
         /\ Len(Objects(Slice(k))) = conts[k].len
         /\ \A i \in 1 .. conts[k].len :
              Objects(Slice(k))[i] = [procs[Slice(k)[i]] EXCEPT !.before = before[Slice(k)[i]]]
<1>0. /\ Len(procs) \in Nat /\ DOMAIN procs = 1 .. Len(procs)
      /\ \A q \in DOMAIN procs : procs[q] \in Processors /\ before[q] \in Nat
      /\ SliceFront(k) /\ conts[k] \in Containers
  BY SeqFacts DEF RegistryInv, RegistryTypes
<1>1. PICK l \in Nat : l = conts[k].len BY <1>0 DEF Containers
<1>2. PICK a : a = arrays[conts[k].array] OBVIOUS
<1>3. a \in Seq(Nat) /\ l <= Len(a)
  <2>1. arrays \in Seq(Seq(Nat)) /\ conts[k].array \in DOMAIN arrays
    BY <1>0 DEF RegistryInv, RegistryTypes, SliceFront
  <2> QED BY <1>0, <1>1, <1>2, <2>1, SeqFacts DEF SliceFront
<1>4. PICK s : s = Slice(k) OBVIOUS
<1>5. s = SubSeq(a, 1, l) BY <1>1, <1>2, <1>4 DEF Slice
<1>6. s \in Seq(Nat) /\ Len(s) = l /\ DOMAIN s = 1 .. l /\ \A i \in 1 .. l : s[i] = a[i]
  <2>1. Len(a) \in Nat /\ \A i \in 1 .. Len(a) : a[i] \in Nat BY <1>3, SeqFacts
  <2> QED BY <1>3, <1>5, <2>1
<1>7. \A i \in 1 .. l : /\ s[i] \in DOMAIN procs /\ (i <= Len(Base) => s[i] = i)
  BY <1>0, <1>1, <1>2, <1>6 DEF SliceFront
<1>8. s \in [1 .. l -> DOMAIN procs] BY <1>6, <1>7
<1>9. s \in Seq(DOMAIN procs)
  <2>1. PICK T : T = DOMAIN procs OBVIOUS
  <2>2. s \in [1 .. l -> T] BY <1>8, <2>1
  <2>3. s \in Seq(T) BY <2>2, IsSeq
  <2> QED BY <2>1, <2>3
<1>10. PICK o : o = Objects(s) OBVIOUS
<1>11. o = [i \in 1 .. l |-> [procs[s[i]] EXCEPT !.before = before[s[i]]]]
  BY <1>6, <1>10 DEF Objects
<1>12. o \in [1 .. l -> Processors]
  <2>1. ASSUME NEW i \in 1 .. l PROVE [procs[s[i]] EXCEPT !.before = before[s[i]]] \in Processors
    <3>1. PICK q \in DOMAIN procs : q = s[i] BY <1>7
    <3>2. procs[q] \in Processors /\ before[q] \in Nat BY <1>0
    <3>3. [procs[q] EXCEPT !.before = before[q]] \in Processors BY <3>2 DEF Processors
    <3> QED BY <3>1, <3>3
  <2> QED BY <1>11, <2>1
<1>13. o \in Seq(Processors) /\ Len(o) = l BY <1>12, IsSeq
<1>14. PackageFirst(o)
  <2>1. Len(Base) <= l /\ Len(Base) \in Nat /\ DOMAIN Base = 1 .. Len(Base)
    BY <1>0, <1>1, BaseIs DEF SliceFront
  <2>2. ASSUME NEW m \in DOMAIN Base PROVE o[m] = Default(m)
    <3>1. m \in 1 .. l /\ s[m] = m BY <1>7, <2>1
    <3>2. o[m] = [procs[m] EXCEPT !.before = before[m]] BY <1>11, <3>1
    <3>3. procs[m] = Default(m) /\ before[m] = NoName BY DEF RegistryInv
    <3> QED BY <3>2, <3>3 DEF Default
  <2> QED BY <1>13, <2>1, <2>2 DEF PackageFirst
<1> QED BY <1>1, <1>2, <1>4, <1>6, <1>9, <1>10, <1>11, <1>13, <1>14

\* Where the slice of a container ends up, and what else the write reaches: other
\* containers' entries stay, or are the new processor.
LEMMA AppendedIs ==
  ASSUME RegistryInv, NEW k \in DOMAIN conts, NEW p \in Nat
  PROVE  LET app == Appended(k, p)  l == conts[k].len IN
         /\ app.arrays \in Seq(Seq(Nat)) /\ app.array \in DOMAIN app.arrays
         /\ Len(app.arrays) >= Len(arrays)
         /\ l + 1 <= Len(app.arrays[app.array])
         /\ app.arrays[app.array][l + 1] = p
         /\ \A i \in 1 .. l : app.arrays[app.array][i] = arrays[conts[k].array][i]
         /\ \A a \in DOMAIN arrays :
              /\ a \in DOMAIN app.arrays /\ Len(app.arrays[a]) = Len(arrays[a])
              /\ \A i \in DOMAIN arrays[a] :
                   \/ app.arrays[a][i] = arrays[a][i]
                   \/ a = conts[k].array /\ i = l + 1 /\ app.arrays[a][i] = p
<1>1. PICK a : a = conts[k].array OBVIOUS
<1>2. PICK n \in Nat : n = conts[k].len BY SliceIs
<1>3. PICK arr : arr = arrays[a] OBVIOUS
<1>4. /\ arrays \in Seq(Seq(Nat)) /\ DOMAIN arrays = 1 .. Len(arrays) /\ Len(arrays) \in Nat
      /\ a \in DOMAIN arrays /\ arr \in Seq(Nat) /\ n <= Len(arr) /\ Len(arr) \in Nat
      /\ DOMAIN arr = 1 .. Len(arr) /\ \A i \in 1 .. Len(arr) : arr[i] \in Nat
      /\ Len(Base) <= n /\ Len(Base) \in Nat
  <2>1. arrays \in Seq(Seq(Nat)) /\ SliceFront(k) BY DEF RegistryInv, RegistryTypes
  <2>2. a \in DOMAIN arrays /\ n <= Len(arr) /\ Len(Base) <= n
    BY <1>1, <1>2, <1>3, <2>1 DEF SliceFront
  <2>3. /\ DOMAIN arrays = 1 .. Len(arrays) /\ Len(arrays) \in Nat /\ arr \in Seq(Nat)
    BY <1>3, <2>1, <2>2, SeqFacts
  <2>4. /\ Len(arr) \in Nat /\ DOMAIN arr = 1 .. Len(arr) /\ \A i \in 1 .. Len(arr) : arr[i] \in Nat
    BY <2>3, SeqFacts
  <2> QED BY <2>1, <2>2, <2>3, <2>4, BaseIs
<1>5. PICK app : app = Appended(k, p) OBVIOUS
<1>6. CASE n < Len(arr)
  <2>1. PICK new : new = [arr EXCEPT ![n + 1] = p] OBVIOUS
  <2>2. PICK as : as = [arrays EXCEPT ![a] = new] OBVIOUS
  <2>3. app.array = a /\ app.arrays = as
    <3>1. app = [array |-> a, arrays |-> [arrays EXCEPT ![a][n + 1] = p]]
      BY <1>1, <1>2, <1>3, <1>5, <1>6 DEF Appended
    <3>2. [arrays EXCEPT ![a][n + 1] = p] = as BY <1>3, <1>4, <2>1, <2>2
    <3> QED BY <3>1, <3>2
  <2>4. n + 1 \in 1 .. Len(arr) BY <1>4, <1>6
  <2>5. /\ new \in Seq(Nat) /\ Len(new) = Len(arr) /\ new[n + 1] = p
        /\ \A i \in 1 .. Len(arr) : i # n + 1 => new[i] = arr[i]
    <3>1. PICK m \in Nat : m = Len(arr) BY <1>4
    <3>2. arr \in [1 .. m -> Nat] BY <1>4, <3>1, SeqFacts
    <3>3. /\ new \in [1 .. m -> Nat] /\ new[n + 1] = p
          /\ \A i \in 1 .. m : i # n + 1 => new[i] = arr[i]
      BY <2>1, <2>4, <3>1, <3>2
    <3>4. new \in Seq(Nat) /\ Len(new) = m BY <3>3, IsSeq
    <3> QED BY <3>1, <3>3, <3>4
  <2>6. /\ as \in Seq(Seq(Nat)) /\ Len(as) = Len(arrays) /\ DOMAIN as = DOMAIN arrays
        /\ as[a] = new /\ \A b \in DOMAIN arrays : b # a => as[b] = arrays[b]
    BY <1>4, <2>2, <2>5
  <2>7. ASSUME NEW i \in 1 .. n PROVE as[a][i] = arr[i]
    <3>1. i \in 1 .. Len(arr) /\ i # n + 1 BY <1>4, <2>4
    <3> QED BY <2>5, <2>6, <3>1
  <2>8. ASSUME NEW b \in DOMAIN arrays
        PROVE  /\ b \in DOMAIN as /\ Len(as[b]) = Len(arrays[b])
               /\ \A i \in DOMAIN arrays[b] :
                    \/ as[b][i] = arrays[b][i]
                    \/ b = a /\ i = n + 1 /\ as[b][i] = p
    <3>1. CASE b # a BY <2>6, <3>1
    <3>2. CASE b = a BY <1>3, <1>4, <2>5, <2>6, <3>2
    <3> QED BY <3>1, <3>2
  <2>9. Len(as) >= Len(arrays) /\ n + 1 <= Len(as[a]) /\ as[a][n + 1] = p
    BY <1>4, <2>4, <2>5, <2>6
  <2> QED BY <1>1, <1>2, <1>3, <1>4, <1>5, <2>3, <2>6, <2>7, <2>8, <2>9
<1>7. CASE ~(n < Len(arr))
  <2>1. PICK s : s = Slice(k) OBVIOUS
  <2>2. PICK one : one = <<p>> OBVIOUS
  <2>3. PICK free : free = [i \in 1 .. n - 1 |-> NoName] OBVIOUS
  <2>4. PICK m \in Nat : free \in [1 .. m -> Nat]
    <3>1. CASE n = 0
      <4>1. free \in [1 .. 0 -> Nat] BY <2>3, <3>1
      <4>2. 0 \in Nat OBVIOUS
      <4> QED BY <4>1, <4>2
    <3>2. CASE n # 0
      <4>1. n - 1 \in Nat /\ free \in [1 .. n - 1 -> Nat] BY <2>3, <3>2 DEF NoName
      <4> QED BY <4>1
    <3> QED BY <3>1, <3>2
  <2>5. free \in Seq(Nat) /\ Len(free) = m BY <2>4, IsSeq
  <2>6. s \in Seq(Nat) /\ Len(s) = n /\ \A i \in 1 .. n : s[i] = arr[i]
    BY <1>1, <1>2, <1>3, <2>1, SliceIs
  <2>7. PICK so : so = s \o one OBVIOUS
  <2>8. so \in Seq(Nat) /\ Len(so) = n + 1 /\ so[n + 1] = p /\ \A i \in 1 .. n : so[i] = arr[i]
    <3>1. one \in Seq(Nat) /\ Len(one) = 1 /\ one[1] = p BY <2>2
    <3>2. so = Append(s, p) BY <2>2, <2>6, <2>7
    <3> QED BY <2>6, <3>2
  <2>9. PICK new : new = so \o free OBVIOUS
  <2>10. /\ new \in Seq(Nat) /\ Len(new) = (n + 1) + m
         /\ \A i \in 1 .. n + 1 : new[i] = so[i]
    <3>1. PICK o \in Nat : o = n + 1 OBVIOUS
    <3>2. Len(so) = o BY <2>8, <3>1
    <3>3. /\ so \o free \in Seq(Nat) /\ Len(so \o free) = Len(so) + Len(free)
          /\ \A i \in 1 .. Len(so) : (so \o free)[i] = so[i]
      BY <2>5, <2>8, JoinIs
    <3> QED BY <2>5, <2>9, <3>1, <3>2, <3>3
  <2>11. PICK as : as = Append(arrays, new) OBVIOUS
  <2>12. PICK b : b = Len(arrays) + 1 OBVIOUS
  <2>13. app.array = b /\ app.arrays = as
    <3>1. app = [array |-> Len(arrays) + 1,
                 arrays |-> Append(arrays, Slice(k) \o <<p>> \o [i \in 1 .. n - 1 |-> NoName])]
      BY <1>1, <1>2, <1>3, <1>5, <1>7 DEF Appended
    <3>2. Slice(k) \o <<p>> \o [i \in 1 .. n - 1 |-> NoName] = new
      BY <2>1, <2>2, <2>3, <2>7, <2>9, Zenon
    <3>3. app = [array |-> b, arrays |-> as] BY <2>11, <2>12, <3>1, <3>2, Zenon
    <3> QED BY <3>3
  <2>14. /\ as \in Seq(Seq(Nat)) /\ Len(as) = b /\ b \in DOMAIN as /\ as[b] = new
         /\ \A c \in DOMAIN arrays : c \in DOMAIN as /\ as[c] = arrays[c]
    BY <1>4, <2>10, <2>11, <2>12
  <2>15. \A i \in 1 .. n : as[b][i] = arr[i]
    <3>1. \A i \in 1 .. n : i \in 1 .. n + 1 OBVIOUS
    <3> QED BY <2>8, <2>10, <2>14, <3>1
  <2>16. Len(as) >= Len(arrays) /\ n + 1 <= Len(as[b]) /\ as[b][n + 1] = p
    <3>1. n + 1 \in 1 .. n + 1 /\ n + 1 <= (n + 1) + m OBVIOUS
    <3> QED BY <1>4, <2>8, <2>10, <2>12, <2>14, <3>1
  <2> QED BY <1>1, <1>2, <1>3, <1>5, <2>13, <2>14, <2>15, <2>16
<1> QED BY <1>6, <1>7

LEMMA RegistryInit_Inv == RegistryInit => RegistryInv
<1> SUFFICES ASSUME RegistryInit PROVE RegistryInv OBVIOUS
<1>0. PICK l \in Nat : l = Len(Base) BY BaseIs
<1>1. /\ DOMAIN Base = 1 .. l /\ \A m \in 1 .. l : Base[m] \in Nat \ {NoName}
      /\ \A m, n \in 1 .. l : Base[m] = Base[n] => m = n
  BY <1>0, BaseIs
<1>2. procs = [n \in 1 .. l |-> Default(n)] /\ before = [n \in 1 .. l |-> NoName]
  BY <1>1 DEF RegistryInit
<1>3. \A n \in 1 .. l : Default(n) \in Processors BY <1>1 DEF Default, Processors, NoName
<1>4. procs \in Seq(Processors) /\ Len(procs) = l /\ DOMAIN procs = 1 .. l
  <2>1. procs \in [1 .. l -> Processors] BY <1>2, <1>3
  <2> QED BY <2>1, IsSeq
<1>5. before \in [DOMAIN procs -> Nat] BY <1>2, <1>4 DEF NoName
<1>6. Spare \in Nat /\ Handles \in Nat BY RegistryAssumption
<1>7. PICK slice : slice = Ids OBVIOUS
<1>8. slice \in Seq(Nat) /\ Len(slice) = l /\ \A m \in 1 .. l : slice[m] = m
  <2>1. slice = [m \in 1 .. l |-> m] BY <1>1, <1>7 DEF Ids
  <2>2. slice \in [1 .. l -> Nat] BY <2>1
  <2> QED BY <2>1, <2>2, IsSeq
<1>9. PICK free : free = [i \in 1 .. Spare |-> NoName] OBVIOUS
<1>10. free \in Seq(Nat) /\ Len(free) = Spare
  <2>1. free \in [1 .. Spare -> Nat] BY <1>9 DEF NoName
  <2> QED BY <1>6, <2>1, IsSeq
<1>11. PICK arr : arr = slice \o free OBVIOUS
<1>12. arr \in Seq(Nat) /\ Len(arr) = l + Spare /\ \A m \in 1 .. l : arr[m] = m
  <2>1. /\ slice \o free \in Seq(Nat) /\ Len(slice \o free) = Len(slice) + Len(free)
        /\ \A p \in 1 .. Len(slice) : (slice \o free)[p] = slice[p]
    BY <1>8, <1>10, JoinIs
  <2> QED BY <1>8, <1>10, <1>11, <2>1
<1>13. arrays = <<arr>> BY <1>7, <1>9, <1>11, Zenon DEF RegistryInit
<1>14. arrays \in Seq(Seq(Nat)) /\ DOMAIN arrays = {1} /\ arrays[1] = arr BY <1>12, <1>13
<1>15. PICK h \in Nat : h = Handles + 1 BY <1>6
<1>16. conts = [k \in 1 .. h |-> [array |-> 1, len |-> l, chain |-> Base]]
  BY <1>0, <1>15 DEF RegistryInit
<1>17. Base \in Seq(Nat)
  <2>1. Base \in [1 .. l -> Nat]
    <3>1. Base \in Seq(Nat \ {NoName}) BY RegistryAssumption
    <3>2. Base \in [1 .. Len(Base) -> Nat \ {NoName}] BY <3>1, SeqFacts
    <3> QED BY <1>0, <3>2
  <2> QED BY <2>1, IsSeq
<1>18. conts \in Seq(Containers) /\ DOMAIN conts = 1 .. h
  <2>1. conts \in [1 .. h -> Containers] BY <1>16, <1>17 DEF Containers
  <2> QED BY <2>1, IsSeq
<1>19. current \in [Owners -> DOMAIN conts]
  <2>1. current = [u \in 0 .. Handles |-> u + 1] BY DEF RegistryInit, Owners
  <2>2. \A u \in 0 .. Handles : u + 1 \in 1 .. h BY <1>6, <1>15
  <2> QED BY <1>18, <2>1, <2>2 DEF Owners
<1>20. RegistryTypes BY <1>0, <1>4, <1>5, <1>14, <1>18, <1>19 DEF RegistryTypes
<1>21. \A m \in DOMAIN Base : procs[m] = Default(m) /\ before[m] = NoName BY <1>1, <1>2
<1>22. ASSUME NEW k \in DOMAIN conts PROVE SliceFront(k) /\ ChainInOrder(k)
  <2>1. conts[k].array = 1 /\ conts[k].len = l /\ conts[k].chain = Base BY <1>16, <1>18
  <2>2. SliceFront(k)
    <3>1. 1 \in DOMAIN arrays /\ Len(Base) <= l /\ l <= Len(arrays[1])
      BY <1>0, <1>6, <1>12, <1>14
    <3>2. \A i \in 1 .. l : arrays[1][i] \in DOMAIN procs /\ arrays[1][i] = i /\ ~(i > Len(Base))
      BY <1>0, <1>4, <1>12, <1>14
    <3> QED BY <2>1, <3>1, <3>2 DEF SliceFront
  <2>3. ChainInOrder(k)
    <3>1. \A m, n \in DOMAIN Base : m < n => Precedes(Base, Base[m], Base[n])
      BY <1>1 DEF Precedes
    <3> QED BY <2>1, <3>1 DEF ChainInOrder
  <2> QED BY <2>2, <2>3
<1> QED BY <1>20, <1>21, <1>22 DEF RegistryInv

\* DB.Callback: the clone is like the container it is made from.
LEMMA CallbackKeeps ==
  ASSUME RegistryInv, NEW u \in Owners, Callback(u)
  PROVE  RegistryInv'
<1>0. conts \in Seq(Containers) /\ current \in [Owners -> DOMAIN conts]
  BY DEF RegistryInv, RegistryTypes
<1>1. PICK c : c = conts[current[u]] OBVIOUS
<1>2. current[u] \in DOMAIN conts /\ c \in Containers BY <1>0, <1>1, SeqFacts
<1>3. PICK n \in Nat : n = Len(conts) BY <1>0, SeqFacts
<1>4. conts' = Append(conts, c) BY <1>1 DEF Callback
<1>5. /\ conts' \in Seq(Containers) /\ DOMAIN conts' = 1 .. n + 1 /\ DOMAIN conts = 1 .. n
      /\ conts'[n + 1] = c /\ \A k \in 1 .. n : conts'[k] = conts[k]
  BY <1>0, <1>2, <1>3, <1>4
<1>6. UNCHANGED <<procs, before, arrays>> BY DEF Callback
<1>7. current' \in [Owners -> DOMAIN conts']
  <2>1. current' = [current EXCEPT ![u] = n + 1] BY <1>3 DEF Callback
  <2> QED BY <1>0, <1>5, <2>1
<1>8. RegistryTypes' BY <1>5, <1>6, <1>7 DEF RegistryInv, RegistryTypes
<1>9. (\A m \in DOMAIN Base : procs[m] = Default(m) /\ before[m] = NoName)'
  BY <1>6 DEF RegistryInv, Default
<1>10. ASSUME NEW k \in DOMAIN conts' PROVE SliceFront(k)' /\ ChainInOrder(k)'
  <2>1. PICK j \in DOMAIN conts : conts'[k] = conts[j]
    <3>1. CASE k = n + 1 BY <1>1, <1>2, <1>5, <3>1
    <3>2. CASE k # n + 1 BY <1>3, <1>5, <3>2
    <3> QED BY <3>1, <3>2
  <2>2. SliceFront(j) /\ ChainInOrder(j) BY DEF RegistryInv
  <2>3. SliceFront(k)' BY <1>6, <2>1, <2>2 DEF SliceFront
  <2>4. ChainInOrder(k)' BY <2>1, <2>2 DEF ChainInOrder
  <2> QED BY <2>3, <2>4
<1> QED BY <1>8, <1>9, <1>10 DEF RegistryInv

\* What Ask sorts, ps, for a container with l processors when p - 1 have been asked for,
\* and what that does to the before fields.
Sorts(k, r, ps, l, p) ==
  /\ before' = Fields(Append(Slice(k), p), Sorted(ps).before, p)
  /\ k \in DOMAIN conts /\ r \in Processors
  /\ ps \in Seq(Processors) /\ Len(ps) = l + 1 /\ PackageFirst(ps)
  /\ ps[l + 1] = r /\ \A i \in 1 .. l : ps[i] = Objects(Slice(k))[i]
  /\ \A q \in 1 .. p :
       \/ /\ q # p /\ \A i \in 1 .. l : Slice(k)[i] # q
          /\ before'[q] = before[q]
       \/ \E i \in 1 .. l + 1 : /\ IF i = l + 1 THEN q = p ELSE Slice(k)[i] = q
                                /\ before'[q] = Sorted(ps).before[i]

LEMMA AskIs ==
  ASSUME RegistryInv, NEW u \in Owners, NEW r \in Requests, Ask(u, r),
         NEW k, k = current[u], NEW ps, ps = Append(Objects(Slice(k)), r),
         NEW l \in Nat, l = conts[k].len, NEW p \in Nat, p = Len(procs) + 1
  PROVE  Sorts(k, r, ps, l, p)
<1>1. k \in DOMAIN conts BY DEF RegistryInv, RegistryTypes
<1>2. r \in Processors BY RegistryAssumption DEF Processors
<1>3. PICK s : s = Slice(k) OBVIOUS
<1>5. PICK o : o = Objects(s) OBVIOUS
<1>6. /\ s \in Seq(DOMAIN procs) /\ s \in Seq(Nat) /\ Len(s) = l /\ DOMAIN s = 1 .. l
      /\ o \in Seq(Processors) /\ PackageFirst(o) /\ Len(o) = l
  BY <1>1, <1>3, <1>5, SliceIs
<1>7. ps = Append(o, r) BY <1>3, <1>5
<1>8. /\ ps \in Seq(Processors) /\ Len(ps) = l + 1 /\ DOMAIN ps = 1 .. l + 1
      /\ ps[l + 1] = r /\ \A i \in 1 .. l : ps[i] = o[i]
  BY <1>2, <1>6, <1>7
<1>9. PackageFirst(ps)
  <2>1. Len(Base) \in Nat /\ DOMAIN Base = 1 .. Len(Base) BY BaseIs
  <2>2. Len(Base) <= l /\ \A m \in DOMAIN Base : o[m] = Default(m) BY <1>6 DEF PackageFirst
  <2>3. \A m \in DOMAIN Base : m \in 1 .. l BY <2>1, <2>2
  <2>4. Len(Base) <= l + 1 /\ \A m \in DOMAIN Base : ps[m] = Default(m)
    BY <1>8, <2>1, <2>2, <2>3
  <2> QED BY <1>8, <2>4 DEF PackageFirst
<1>10. PICK slice : slice = Append(s, p) OBVIOUS
<1>11. /\ DOMAIN slice = 1 .. l + 1 /\ slice[l + 1] = p /\ \A i \in 1 .. l : slice[i] = s[i]
  BY <1>6, <1>10
<1>12. PICK bf : bf = Sorted(ps).before OBVIOUS
<1>13. before' = Fields(slice, bf, p)
  <2>1. before' = Fields(Append(Slice(current[u]), Len(procs) + 1),
                         Sorted(Append(Objects(Slice(current[u])), r)).before, Len(procs) + 1)
    BY Zenon DEF Ask
  <2> QED BY <1>3, <1>10, <1>12, <2>1, Zenon
<1>14. ASSUME NEW q \in 1 .. p
       PROVE  \/ /\ q # p /\ \A i \in 1 .. l : s[i] # q
                 /\ before'[q] = before[q]
              \/ \E i \in 1 .. l + 1 : /\ IF i = l + 1 THEN q = p ELSE s[i] = q
                                       /\ before'[q] = bf[i]
  <2>1. PICK places : places = {i \in DOMAIN slice : slice[i] = q} OBVIOUS
  <2>2. before'[q] = IF places = {} THEN before[q] ELSE bf[CHOOSE i \in places : TRUE]
    BY <1>13, <2>1 DEF Fields
  <2>3. CASE places = {}
    <3>1. q # p /\ \A i \in 1 .. l : s[i] # q
      <4>1. \A i \in 1 .. l + 1 : slice[i] # q BY <1>11, <2>1, <2>3
      <4>2. l + 1 \in 1 .. l + 1 /\ \A i \in 1 .. l : i \in 1 .. l + 1 OBVIOUS
      <4> QED BY <1>11, <4>1, <4>2
    <3> QED BY <2>2, <2>3, <3>1
  <2>4. CASE places # {}
    <3>1. PICK i \in places : i = CHOOSE j \in places : TRUE BY <2>4
    <3>2. before'[q] = bf[i] BY <2>2, <2>4, <3>1
    <3>3. i \in 1 .. l + 1 /\ slice[i] = q BY <1>11, <2>1, <3>1
    <3>4. IF i = l + 1 THEN q = p ELSE s[i] = q BY <1>11, <3>3
    <3> QED BY <3>2, <3>3, <3>4
  <2> QED BY <2>3, <2>4
<1>15. \A q \in 1 .. p :
         \/ /\ q # p /\ \A i \in 1 .. l : s[i] # q
            /\ before'[q] = before[q]
         \/ \E i \in 1 .. l + 1 : /\ IF i = l + 1 THEN q = p ELSE s[i] = q
                                  /\ before'[q] = bf[i]
  BY <1>14
<1>16. \A i \in 1 .. l : ps[i] = Objects(Slice(k))[i] BY <1>3, <1>5, <1>8
<1>17. Len(ps) = l + 1 /\ ps[l + 1] = r BY <1>8
<1> QED BY <1>1, <1>2, <1>3, <1>8, <1>9, <1>10, <1>12, <1>13, <1>15, <1>16, <1>17, Zenon DEF Sorts

\* Register, Replace and Remove: the package's callbacks stay in front, plain, and
\* in order.
LEMMA AskKeeps ==
  ASSUME RegistryInv, NEW u \in Owners, NEW r \in Requests, Ask(u, r)
  PROVE  RegistryInv'
<1>1. PICK k : k = current[u] OBVIOUS
<1>2. PICK ps : ps = Append(Objects(Slice(k)), r) OBVIOUS
<1>3. PICK l \in Nat : l = conts[k].len
  <2>1. k \in DOMAIN conts BY <1>1 DEF RegistryInv, RegistryTypes
  <2> QED BY <2>1, SliceIs
<1>4. PICK p \in Nat : p = Len(procs) + 1
  <2>1. Len(procs) \in Nat BY SeqFacts DEF RegistryInv, RegistryTypes
  <2> QED BY <2>1
<1>5. /\ before' = Fields(Append(Slice(k), p), Sorted(ps).before, p)
      /\ k \in DOMAIN conts /\ r \in Processors
      /\ ps \in Seq(Processors) /\ Len(ps) = l + 1 /\ PackageFirst(ps)
      /\ ps[l + 1] = r /\ \A i \in 1 .. l : ps[i] = Objects(Slice(k))[i]
      /\ \A q \in 1 .. p :
           \/ /\ q # p /\ \A i \in 1 .. l : Slice(k)[i] # q
              /\ before'[q] = before[q]
           \/ \E i \in 1 .. l + 1 : /\ IF i = l + 1 THEN q = p ELSE Slice(k)[i] = q
                                    /\ before'[q] = Sorted(ps).before[i]
  <2>1. Sorts(k, r, ps, l, p) BY <1>1, <1>2, <1>3, <1>4, AskIs
  <2> QED BY <2>1 DEF Sorts
<1>6. /\ procs \in Seq(Processors) /\ Len(Base) <= Len(procs) /\ Len(procs) \in Nat
      /\ before \in [DOMAIN procs -> Nat] /\ DOMAIN procs = 1 .. Len(procs)
      /\ conts \in Seq(Containers) /\ current \in [Owners -> DOMAIN conts]
      /\ Len(Base) \in Nat /\ DOMAIN Base = 1 .. Len(Base)
      /\ \A m \in DOMAIN Base : procs[m] = Default(m) /\ before[m] = NoName
  BY SeqFacts, BaseIs DEF RegistryInv, RegistryTypes
<1>7. Packaged(ps, Sorted(ps)) BY <1>5, SortedPackaged
<1>8. PICK bf : bf = Sorted(ps).before OBVIOUS
<1>9. bf \in [1 .. l + 1 -> Nat] /\ \A m \in DOMAIN Base : bf[m] = NoName
  <2>1. Sorted(ps) \in SortStates(ps) BY <1>7 DEF Packaged
  <2>2. DOMAIN ps = 1 .. l + 1 BY <1>5, SeqFacts
  <2>3. PICK st : st = Sorted(ps) OBVIOUS
  <2>4. st \in SortStates(ps) /\ bf = st.before BY <1>8, <2>1, <2>3
  <2>5. bf \in [DOMAIN ps -> Nat] BY <1>5, <2>4, SortStateIs
  <2>6. \A m \in DOMAIN Base : bf[m] = NoName BY <1>7, <1>8 DEF Packaged
  <2> QED BY <2>2, <2>5, <2>6
<1>10. procs' = Append(procs, r) BY DEF Ask
<1>11. /\ procs' \in Seq(Processors) /\ Len(procs') = p /\ DOMAIN procs' = 1 .. p
       /\ \A q \in 1 .. Len(procs) : procs'[q] = procs[q]
  BY <1>4, <1>5, <1>6, <1>10
<1>12. \A i \in 1 .. l : /\ Slice(k)[i] \in DOMAIN procs
                         /\ i <= Len(Base) => Slice(k)[i] = i
                         /\ i > Len(Base) => Slice(k)[i] > Len(Base)
  <2>1. SliceFront(k) BY <1>5 DEF RegistryInv
  <2>2. \A i \in 1 .. l : Slice(k)[i] = arrays[conts[k].array][i] BY <1>3, <1>5, SliceIs
  <2> QED BY <1>3, <2>1, <2>2 DEF SliceFront
<1>13. before' \in [DOMAIN procs' -> Nat]
  <2>1. ASSUME NEW q \in 1 .. p PROVE before'[q] \in Nat
    <3>1. CASE q # p /\ before'[q] = before[q] BY <1>4, <1>5, <1>6, <3>1
    <3>2. CASE \E i \in 1 .. l + 1 : before'[q] = bf[i] BY <1>9, <3>2
    <3> QED BY <1>5, <1>8, <3>1, <3>2
  <2>2. before' = [q \in 1 .. p |-> before'[q]]
    <3>1. PICK f : f = Fields(Append(Slice(k), p), Sorted(ps).before, p) OBVIOUS
    <3>2. f = [q \in 1 .. p |-> f[q]] BY <3>1 DEF Fields
    <3>3. before' = f BY <1>5, <3>1
    <3> QED BY <3>2, <3>3
  <2> QED BY <1>11, <2>1, <2>2
<1>14. ASSUME NEW m \in DOMAIN Base PROVE procs'[m] = Default(m)' /\ before'[m] = NoName
  <2>1. m \in 1 .. Len(procs) /\ m \in 1 .. p /\ m # p BY <1>4, <1>6
  <2>2. procs'[m] = Default(m) /\ Default(m)' = Default(m) BY <1>6, <1>11, <2>1 DEF Default
  <2>3. CASE before'[m] = before[m] BY <1>6, <2>2, <2>3
  <2>4. CASE \E i \in 1 .. l + 1 : /\ IF i = l + 1 THEN m = p ELSE Slice(k)[i] = m
                                   /\ before'[m] = bf[i]
    <3>1. PICK i \in 1 .. l + 1 : /\ IF i = l + 1 THEN m = p ELSE Slice(k)[i] = m
                                  /\ before'[m] = bf[i]
      BY <2>4
    <3>2. i \in 1 .. l /\ Slice(k)[i] = m BY <1>5, <2>1, <3>1
    <3>3. ~(i > Len(Base)) BY <1>6, <1>12, <3>2
    <3>4. i = m BY <1>6, <1>12, <3>2, <3>3
    <3> QED BY <1>9, <2>2, <3>1, <3>4
  <2> QED BY <1>5, <1>8, <2>1, <2>3, <2>4
<1>15. PICK app : app = Appended(k, p) OBVIOUS
<1>16. /\ app.arrays \in Seq(Seq(Nat)) /\ app.array \in DOMAIN app.arrays
       /\ l + 1 <= Len(app.arrays[app.array])
       /\ app.arrays[app.array][l + 1] = p
       /\ \A i \in 1 .. l : app.arrays[app.array][i] = arrays[conts[k].array][i]
       /\ \A a \in DOMAIN arrays :
            /\ a \in DOMAIN app.arrays /\ Len(app.arrays[a]) = Len(arrays[a])
            /\ \A i \in DOMAIN arrays[a] :
                 \/ app.arrays[a][i] = arrays[a][i]
                 \/ a = conts[k].array /\ i = l + 1 /\ app.arrays[a][i] = p
  <2>1. PICK l2 : l2 = conts[k].len OBVIOUS
  <2>2. /\ app.arrays \in Seq(Seq(Nat)) /\ app.array \in DOMAIN app.arrays
        /\ l2 + 1 <= Len(app.arrays[app.array])
        /\ app.arrays[app.array][l2 + 1] = p
        /\ \A i \in 1 .. l2 : app.arrays[app.array][i] = arrays[conts[k].array][i]
        /\ \A a \in DOMAIN arrays :
            /\ a \in DOMAIN app.arrays /\ Len(app.arrays[a]) = Len(arrays[a])
            /\ \A i \in DOMAIN arrays[a] :
                 \/ app.arrays[a][i] = arrays[a][i]
                 \/ a = conts[k].array /\ i = l2 + 1 /\ app.arrays[a][i] = p
    BY <1>5, <1>15, <2>1, AppendedIs, ZenonT(60)
  <2> QED BY <1>3, <2>1, <2>2
<1>17. PICK c : c = [array |-> app.array, len |-> l + 1, chain |-> Chain(ps)] OBVIOUS
<1>18. arrays' = app.arrays /\ conts' = [conts EXCEPT ![k] = c] /\ current' = current
  <2>1. Len(Append(Slice(k), p)) = l + 1 BY <1>3, <1>5, SliceIs
  <2>2. /\ arrays' = Appended(k, p).arrays /\ current' = current
        /\ conts' = [conts EXCEPT ![k] =
             [array |-> Appended(k, p).array, len |-> Len(Append(Slice(k), p)),
              chain |-> Chain(ps)]]
    BY <1>1, <1>2, <1>4, Zenon DEF Ask
  <2> QED BY <1>15, <1>17, <2>1, <2>2
<1>19. /\ Chain(ps) \in Seq(Nat)
       /\ \A m, n : Precedes(Sorted(ps).out, m, n) => Precedes(Chain(ps), m, n)
  <2>1. PICK sorted : sorted = Sorted(ps).out OBVIOUS
  <2>2. sorted \in Seq(Nat) BY <1>5, <1>7, <2>1, SortStateIs DEF Packaged
  <2>3. /\ Chain(ps) \in Seq(Nat)
        /\ \A m, n : Precedes(sorted, m, n) => Precedes(Chain(ps), m, n)
    BY <1>5, <2>1, <2>2, ChainFacts
  <2> QED BY <2>1, <2>3
<1>20. c \in Containers
  <2>1. app.array \in Nat
    <3>1. DOMAIN app.arrays = 1 .. Len(app.arrays) /\ Len(app.arrays) \in Nat
      BY <1>16, SeqFacts
    <3> QED BY <1>16, <3>1
  <2> QED BY <1>5, <1>17, <1>19, <2>1 DEF Containers
<1>21. /\ conts' \in Seq(Containers) /\ DOMAIN conts' = DOMAIN conts /\ conts'[k] = c
       /\ \A j \in DOMAIN conts : j # k => conts'[j] = conts[j]
  BY <1>5, <1>6, <1>18, <1>20
<1>22. RegistryTypes'
  <2>1. Len(Base) <= Len(procs') BY <1>4, <1>6, <1>11
  <2> QED BY <1>6, <1>11, <1>13, <1>16, <1>18, <1>21, <2>1 DEF RegistryTypes
<1>23. ASSUME NEW j \in DOMAIN conts' PROVE SliceFront(j)' /\ ChainInOrder(j)'
  <2>1. CASE j = k
    <3>1. conts'[j].array = app.array /\ conts'[j].len = l + 1 /\ conts'[j].chain = Chain(ps)
      BY <1>17, <1>21, <2>1
    <3>2. Len(Base) <= l BY <1>3, <1>5 DEF RegistryInv, SliceFront
    <3>3. ASSUME NEW i \in 1 .. l + 1
          PROVE  /\ app.arrays[app.array][i] \in 1 .. p
                 /\ i <= Len(Base) => app.arrays[app.array][i] = i
                 /\ i > Len(Base) => app.arrays[app.array][i] > Len(Base)
      <4>1. CASE i = l + 1
        <5>1. p \in 1 .. p /\ ~(i <= Len(Base)) /\ p > Len(Base) BY <1>4, <1>5, <1>6, <3>2, <4>1
        <5> QED BY <1>16, <4>1, <5>1
      <4>2. CASE i # l + 1
        <5>1. i \in 1 .. l BY <1>5, <4>2
        <5>2. app.arrays[app.array][i] = Slice(k)[i] BY <1>3, <1>5, <1>16, <5>1, SliceIs
        <5> QED BY <1>4, <1>6, <1>12, <5>1, <5>2
      <4> QED BY <4>1, <4>2
    <3>4. Len(Base) <= l + 1 BY <1>5, <1>6, <3>2
    <3>5. SliceFront(j)' BY <1>11, <1>16, <1>18, <3>1, <3>3, <3>4 DEF SliceFront
    <3>6. \A m, n \in DOMAIN Base : m < n => Precedes(Chain(ps), Base[m], Base[n])
      BY <1>7, <1>19 DEF Packaged
    <3>7. ChainInOrder(j)' BY <3>1, <3>6 DEF ChainInOrder
    <3> QED BY <3>5, <3>7
  <2>2. CASE j # k
    <3>1. j \in DOMAIN conts /\ conts'[j] = conts[j] BY <1>21, <2>2
    <3>2. SliceFront(j) /\ ChainInOrder(j) /\ conts[j] \in Containers
      BY <1>6, <3>1, SeqFacts DEF RegistryInv
    <3>3. PICK a : a = conts[j].array OBVIOUS
    <3>4. /\ a \in DOMAIN arrays /\ Len(Base) <= conts[j].len /\ conts[j].len <= Len(arrays[a])
          /\ conts[j].len \in Nat
      BY <3>2, <3>3 DEF SliceFront, Containers
    <3>5. a \in DOMAIN app.arrays /\ Len(app.arrays[a]) = Len(arrays[a]) BY <1>16, <3>4
    <3>6. ASSUME NEW i \in 1 .. conts[j].len
          PROVE  /\ app.arrays[a][i] \in 1 .. p
                 /\ i <= Len(Base) => app.arrays[a][i] = i
                 /\ i > Len(Base) => app.arrays[a][i] > Len(Base)
      <4>1. /\ arrays[a][i] \in DOMAIN procs /\ (i <= Len(Base) => arrays[a][i] = i)
            /\ i > Len(Base) => arrays[a][i] > Len(Base)
        BY <3>2, <3>3 DEF SliceFront
      <4>2. i \in DOMAIN arrays[a]
        <5>1. arrays[a] \in Seq(Nat) BY <3>4, SeqFacts DEF RegistryInv, RegistryTypes
        <5>2. DOMAIN arrays[a] = 1 .. Len(arrays[a]) /\ Len(arrays[a]) \in Nat BY <5>1, SeqFacts
        <5> QED BY <3>4, <5>2
      <4>3. CASE app.arrays[a][i] = arrays[a][i] BY <1>4, <1>6, <4>1, <4>3
      <4>4. CASE i = l + 1 /\ app.arrays[a][i] = p
        <5>1. Len(Base) <= l BY <1>3, <1>5 DEF RegistryInv, SliceFront
        <5>2. ~(i <= Len(Base)) /\ p > Len(Base) /\ p \in 1 .. p
          BY <1>4, <1>5, <1>6, <4>4, <5>1
        <5> QED BY <4>4, <5>2
      <4> QED BY <1>16, <3>4, <4>2, <4>3, <4>4
    <3>7. SliceFront(j)' BY <1>11, <1>18, <3>1, <3>3, <3>4, <3>5, <3>6 DEF SliceFront
    <3>8. ChainInOrder(j)' BY <3>1, <3>2 DEF ChainInOrder
    <3> QED BY <3>7, <3>8
  <2> QED BY <2>1, <2>2
<1>24. (\A m \in DOMAIN Base : procs[m] = Default(m) /\ before[m] = NoName)' BY <1>14
<1> QED BY <1>22, <1>23, <1>24 DEF RegistryInv

LEMMA RegistryNext_Inv == RegistryInv /\ [RegistryNext]_registryVars => RegistryInv'
<1> SUFFICES ASSUME RegistryInv, [RegistryNext]_registryVars PROVE RegistryInv' OBVIOUS
<1>1. ASSUME NEW u \in Owners, Callback(u) PROVE RegistryInv' BY <1>1, CallbackKeeps
<1>2. ASSUME NEW u \in Writers, NEW r \in Requests, Ask(u, r) PROVE RegistryInv'
  <2>1. u \in Owners BY RegistryAssumption
  <2> QED BY <1>2, <2>1, AskKeeps
<1>3. CASE UNCHANGED registryVars
  <2>1. UNCHANGED <<procs, before, arrays, conts, current>> BY <1>3 DEF registryVars
  <2>2. RegistryTypes' BY <2>1 DEF RegistryInv, RegistryTypes
  <2>3. (\A m \in DOMAIN Base : procs[m] = Default(m) /\ before[m] = NoName)'
    BY <2>1 DEF RegistryInv, Default
  <2>4. \A k \in DOMAIN conts : SliceFront(k)' /\ ChainInOrder(k)'
    BY <2>1 DEF RegistryInv, SliceFront, ChainInOrder
  <2> QED BY <2>1, <2>2, <2>3, <2>4 DEF RegistryInv
<1> QED BY <1>1, <1>2, <1>3 DEF RegistryNext

\* Whatever is asked for, by whom, of how many containers (Register, Replace and Remove
\* of callback.go), the types hold, ...
THEOREM RegistryTypesHold == RegistrySpec => []RegistryInv
BY RegistryInit_Inv, RegistryNext_Inv, PTL DEF RegistrySpec

\* ... and the callbacks of the package's init functions run in their order: what
\* sortProcessors puts between them moves none of them.
THEOREM PackageOrderHolds == RegistrySpec => []PackageOrder
<1>1. RegistryInv => PackageOrder
  <2> SUFFICES ASSUME RegistryInv, NEW k \in DOMAIN conts, NEW m \in DOMAIN Base,
                      NEW n \in DOMAIN Base, m < n, Runs(k, Base[m]), Runs(k, Base[n])
               PROVE  Position(k, Base[m]) < Position(k, Base[n])
    BY DEF PackageOrder
  <2>1. PICK c : c = conts[k].chain OBVIOUS
  <2>2. c \in Seq(Nat)
    <3>1. conts[k] \in Containers BY SeqFacts DEF RegistryInv, RegistryTypes
    <3> QED BY <2>1, <3>1 DEF Containers
  <2>3. Precedes(c, Base[m], Base[n]) BY <2>1 DEF RegistryInv, ChainInOrder
  <2>4. LastIndex(c, Base[m]) # 0 /\ LastIndex(c, Base[n]) # 0 BY <2>1 DEF Runs, Position
  <2>5. /\ LastIndex(c, Base[m]) \in DOMAIN c /\ c[LastIndex(c, Base[m])] = Base[m]
        /\ LastIndex(c, Base[n]) \in DOMAIN c /\ c[LastIndex(c, Base[n])] = Base[n]
    BY <2>2, <2>4, LastIndexIs
  <2>6. LastIndex(c, Base[m]) < LastIndex(c, Base[n]) BY <2>3, <2>5 DEF Precedes
  <2> QED BY <2>1, <2>6 DEF Position
<1> QED BY <1>1, RegistryTypesHold, PTL

-----------------------------------------------------------------------------
(* What one call of sortCallbackProcessor does, for the wishes a callback of  *)
(* a simple container can have.                                              *)

\* v is st with another list.
Relisted(st, v, s) == v = [st EXCEPT !.out = s]

\* A callback e is put in at place p.
PutIn(ps, nested, st, i, e, p) ==
  \E t : Inserted(st.out, t, e, p) /\ PlaceOne(nested, st, ps, i) = [st EXCEPT !.out = t]

LEMMA PlacedAlready ==
  ASSUME NEW ps \in Seq(Processors), NEW st \in SortStates(ps), NEW i \in DOMAIN ps, NEW nested,
         Has(st.out, ps[i].name)
  PROVE  PlaceOne(nested, st, ps, i) = st
<1>1. st.out \in Seq(Nat) BY SortStateIs
<1>2. LastIndex(st.out, ps[i].name) # 0 BY <1>1, LastIndexIs
<1> QED BY <1>2 DEF PlaceOne

\* A wish for a place before a callback that is sorted.
LEMMA PlacedBefore ==
  ASSUME NEW ps \in Seq(Processors), NEW st \in SortStates(ps), NEW i \in DOMAIN ps, NEW nested,
         NEW e, e = ps[i].name, NEW b, b = st.before[i], ~Has(st.out, e),
         b # NoName, Has(st.out, b), ps[i].after = NoName,
         NEW p, p = LastIndex(st.out, b)
  PROVE  PutIn(ps, nested, st, i, e, p)
<1>0. st.out \in Seq(Nat) /\ e \in Nat BY SortStateIs, NamesAre DEF Processors
<1>1. LastIndex(st.out, e) = 0 BY <1>0, LastIndexIs
<1>3. p # 0 /\ p \in 1 .. Len(st.out) + 1 BY <1>0, LastIndexIs, SeqFacts
<1>4. PICK t : t = InsertAt(st.out, p, e) OBVIOUS
<1>5. Inserted(st.out, t, e, p) BY <1>0, <1>3, <1>4, InsertAtInserts
<1>6. PICK v : v = [st EXCEPT !.out = t] OBVIOUS
<1>7. PlaceBefore(nested, st, ps, i) = v BY <1>3, <1>4, <1>6 DEF PlaceBefore
<1>8. v.out = t
  <2>1. t \in Seq(Nat) BY <1>5 DEF Inserted
  <2> QED BY <1>6, <2>1, SortStateIs
<1>9. PlaceAfter(nested, v, ps, i) = v BY DEF PlaceAfter
<1>10. LastIndex(t, e) # 0
  <2>1. t \in Seq(Nat) /\ Has(t, e) BY <1>0, <1>5, InsertedKeeps
  <2> QED BY <2>1, LastIndexIs
<1>11. PlaceLast(v, ps, i) = v BY <1>8, <1>10 DEF PlaceLast
<1>12. PlaceOne(nested, st, ps, i) = v BY <1>1, <1>7, <1>9, <1>11 DEF PlaceOne
<1> QED BY <1>5, <1>6, <1>12 DEF PutIn

\* For one before a callback that is not: that is sorted next.
BeforeNext(ps, nested, st, i, e, b, next, t, u, v) ==
  /\ ps \in Seq(Processors) /\ st \in SortStates(ps) /\ i \in DOMAIN ps
  /\ e = ps[i].name /\ b = st.before[i] /\ ~Has(st.out, e)
  /\ b # NoName /\ ~Has(st.out, b) /\ ps[i].after = NoName
  /\ next = LastIndex(NamesOf(ps), b) /\ next # 0
  /\ t = Append(st.out, e) /\ Relisted(st, u, t)
  /\ v = nested[next][u] /\ v \in SortStates(ps) /\ Has(v.out, e)

LEMMA PlacedBeforeNext ==
  ASSUME NEW ps, NEW nested, NEW st, NEW i, NEW e, NEW b, NEW next, NEW t, NEW u, NEW v,
         BeforeNext(ps, nested, st, i, e, b, next, t, u, v)
  PROVE  PlaceOne(nested, st, ps, i) = v
<1> /\ ps \in Seq(Processors) /\ st \in SortStates(ps) /\ i \in DOMAIN ps
    /\ e = ps[i].name /\ b = st.before[i] /\ ~Has(st.out, e)
    /\ b # NoName /\ ~Has(st.out, b) /\ ps[i].after = NoName
    /\ next = LastIndex(NamesOf(ps), b) /\ next # 0
    /\ t = Append(st.out, e) /\ Relisted(st, u, t)
    /\ v = nested[next][u] /\ v \in SortStates(ps) /\ Has(v.out, e)
  BY DEF BeforeNext
<1> u = [st EXCEPT !.out = Append(st.out, e)] BY DEF Relisted
<1>0. st.out \in Seq(Nat) /\ v.out \in Seq(Nat) BY SortStateIs
<1>1. LastIndex(st.out, e) = 0 /\ LastIndex(st.out, b) = 0 BY <1>0, LastIndexIs
<1>2. PlaceBefore(nested, st, ps, i) = v BY <1>1 DEF PlaceBefore
<1>3. PlaceAfter(nested, v, ps, i) = v BY DEF PlaceAfter
<1>4. LastIndex(v.out, e) # 0 BY <1>0, LastIndexIs
<1>5. PlaceLast(v, ps, i) = v BY <1>4 DEF PlaceLast
<1> QED BY <1>1, <1>2, <1>3, <1>5 DEF PlaceOne

\* For one after a callback that is sorted.
LEMMA PlacedAfter ==
  ASSUME NEW ps \in Seq(Processors), NEW st \in SortStates(ps), NEW i \in DOMAIN ps, NEW nested,
         NEW e, e = ps[i].name, NEW a, a = ps[i].after, ~Has(st.out, e),
         a # NoName, Has(st.out, a), st.before[i] = NoName,
         NEW p, p = LastIndex(st.out, a) + 1
  PROVE  PutIn(ps, nested, st, i, e, p)
<1>0. st.out \in Seq(Nat) /\ e \in Nat BY SortStateIs, NamesAre DEF Processors
<1>1. LastIndex(st.out, e) = 0 BY <1>0, LastIndexIs
<1>3. LastIndex(st.out, a) # 0 /\ p \in 1 .. Len(st.out) + 1 BY <1>0, LastIndexIs, SeqFacts
<1>4. PICK t : t = InsertAt(st.out, p, e) OBVIOUS
<1>5. Inserted(st.out, t, e, p) BY <1>0, <1>3, <1>4, InsertAtInserts
<1>6. PICK v : v = [st EXCEPT !.out = t] OBVIOUS
<1>7. PlaceBefore(nested, st, ps, i) = st BY DEF PlaceBefore
<1>8. v.out = t
  <2>1. t \in Seq(Nat) BY <1>5 DEF Inserted
  <2> QED BY <1>6, <2>1, SortStateIs
<1>9. PlaceAfter(nested, st, ps, i) = v BY <1>3, <1>4, <1>6 DEF PlaceAfter
<1>10. LastIndex(t, e) # 0
  <2>1. t \in Seq(Nat) /\ Has(t, e) BY <1>0, <1>5, InsertedKeeps
  <2> QED BY <2>1, LastIndexIs
<1>11. PlaceLast(v, ps, i) = v BY <1>8, <1>10 DEF PlaceLast
<1>12. PlaceOne(nested, st, ps, i) = v BY <1>1, <1>7, <1>9, <1>11 DEF PlaceOne
<1> QED BY <1>5, <1>6, <1>12 DEF PutIn

\* For one after a callback that is not: that gets a wish, and is sorted next.
AfterNext(ps, nested, st, i, e, a, next, n, u, v) ==
  /\ ps \in Seq(Processors) /\ st \in SortStates(ps) /\ i \in DOMAIN ps
  /\ e = ps[i].name /\ a = ps[i].after /\ ~Has(st.out, e)
  /\ a # NoName /\ ~Has(st.out, a) /\ st.before[i] = NoName
  /\ next = LastIndex(NamesOf(ps), a) /\ next # 0
  /\ n = (IF st.before[next] = NoName THEN e ELSE st.before[next])
  /\ u = [st EXCEPT !.before[next] = n]
  /\ v = nested[next][u] /\ v \in SortStates(ps) /\ Has(v.out, e)

LEMMA PlacedAfterNext ==
  ASSUME NEW ps, NEW nested, NEW st, NEW i, NEW e, NEW a, NEW next, NEW n, NEW u, NEW v,
         AfterNext(ps, nested, st, i, e, a, next, n, u, v)
  PROVE  PlaceOne(nested, st, ps, i) = v
<1> /\ ps \in Seq(Processors) /\ st \in SortStates(ps) /\ i \in DOMAIN ps
    /\ e = ps[i].name /\ a = ps[i].after /\ ~Has(st.out, e)
    /\ a # NoName /\ ~Has(st.out, a) /\ st.before[i] = NoName
    /\ next = LastIndex(NamesOf(ps), a) /\ next # 0
    /\ n = (IF st.before[next] = NoName THEN e ELSE st.before[next])
    /\ u = [st EXCEPT !.before[next] = n]
    /\ v = nested[next][u] /\ v \in SortStates(ps) /\ Has(v.out, e)
  BY DEF AfterNext
<1>0. st.out \in Seq(Nat) /\ v.out \in Seq(Nat) /\ NamesOf(ps) \in Seq(Nat) BY SortStateIs, NamesAre
<1>1. LastIndex(st.out, e) = 0 /\ LastIndex(st.out, a) = 0 BY <1>0, LastIndexIs
<1>2. PlaceBefore(nested, st, ps, i) = st BY DEF PlaceBefore
<1>3. PlaceAfter(nested, st, ps, i) = v
  <2>1. next \in DOMAIN ps /\ st.before \in [DOMAIN ps -> Nat]
    BY <1>0, LastIndexIs, SortStateIs, NamesAre
  <2>2. u = [st EXCEPT !.before[next] = IF @ = NoName THEN e ELSE @] BY <2>1
  <2> QED BY <1>1, <2>2 DEF PlaceAfter
<1>4. LastIndex(v.out, e) # 0 BY <1>0, LastIndexIs
<1>5. PlaceLast(v, ps, i) = v BY <1>4 DEF PlaceLast
<1> QED BY <1>1, <1>2, <1>3, <1>5 DEF PlaceOne

-----------------------------------------------------------------------------
(* Simple lists: as is what was asked for, in order.                         *)

Wishless(r) == r.before = NoName /\ r.after = NoName
Wishes(as, j, n) == n # NoName /\ (as[j].before = n \/ as[j].after = n)
AskedFor(as, n) == \E j \in DOMAIN as : as[j].name = n
Free(as, n) == \A j \in DOMAIN as : as[j].name = n => Wishless(as[j])

\* What Simple says of the requests of a container.
SimpleList(as) ==
  \A i \in DOMAIN as :
    /\ as[i].before = NoName \/ as[i].after = NoName
    /\ (\E j \in 1 .. i - 1 : as[j].name = as[i].name) => Wishless(as[i])
    /\ \A n : Wishes(as, i, n) => (\E j \in 1 .. i - 1 : as[j].name = n) \/ Free(as, n)

\* A before field that an earlier sort has set: the callback was to be put after
\* this one, by the first request that names this one in a wish.
Link(as, i, n) ==
  /\ Wishless(as[i])
  /\ \E j \in DOMAIN as :
       /\ as[j].name = n /\ as[j].after = as[i].name
       /\ \A m \in DOMAIN as : as[m].name = as[i].name => j < m
       /\ \A m \in 1 .. j - 1 : ~Wishes(as, m, as[i].name)

LinksOk(as, bf) == \A i \in DOMAIN as : bf[i] = as[i].before \/ Link(as, i, bf[i])

\* Whoever is sorted is where it wants to be.
WishesMet(as, s) ==
  \A j \in DOMAIN as :
    /\ as[j].before # NoName => Precedes(s, as[j].name, as[j].before)
    /\ as[j].after # NoName => Precedes(s, as[j].after, as[j].name)

\* ps is what sortProcessors gets of it.
Sees(ps, as) ==
  /\ ps \in Seq(Processors) /\ as \in Seq(Processors) /\ Len(ps) = Len(as)
  /\ \A i \in DOMAIN as : /\ ps[i].name = as[i].name /\ ps[i].after = as[i].after
                          /\ ps[i].op = as[i].op
  /\ LinksOk(as, Unsorted(ps).before)

\* After k processors.
SortedTo(as, ps, st, k) ==
  /\ st \in SortStates(ps)
  /\ IsInjective(st.out) /\ LinksOk(as, st.before) /\ WishesMet(as, st.out)
  /\ \A j \in 1 .. k : Has(st.out, as[j].name)
  /\ \A n : Has(st.out, n) => (\E j \in 1 .. k : as[j].name = n) \/ (AskedFor(as, n) /\ Free(as, n))
  /\ \A j \in 1 .. k : \A n : Wishes(as, j, n) /\ AskedFor(as, n) => Has(st.out, n)

LEMMA SeesIs ==
  ASSUME NEW ps, NEW as, Sees(ps, as)
  PROVE  /\ Len(as) \in Nat /\ DOMAIN as = 1 .. Len(as) /\ DOMAIN ps = DOMAIN as
         /\ DOMAIN NamesOf(ps) = DOMAIN as /\ NamesOf(ps) \in Seq(Nat)
         /\ \A i \in DOMAIN as : /\ as[i] \in Processors /\ NamesOf(ps)[i] = as[i].name
                                 /\ as[i].name \in Nat /\ as[i].name # NoName
                                 /\ as[i].before \in Nat /\ as[i].after \in Nat
<1>1. /\ Len(as) \in Nat /\ DOMAIN as = 1 .. Len(as) /\ \A i \in DOMAIN as : as[i] \in Processors
  BY SeqFacts DEF Sees
<1>2. /\ NamesOf(ps) \in Seq(Nat) /\ DOMAIN NamesOf(ps) = DOMAIN ps /\ DOMAIN ps = 1 .. Len(ps)
      /\ \A i \in DOMAIN ps : NamesOf(ps)[i] = ps[i].name
  BY NamesAre DEF Sees
<1>3. DOMAIN ps = DOMAIN as /\ \A i \in DOMAIN as : ps[i].name = as[i].name BY <1>1, <1>2 DEF Sees
<1> QED BY <1>1, <1>2, <1>3 DEF Processors

\* Nobody wishes a place relative to itself.
LEMMA NoSelfWish ==
  ASSUME NEW as, SimpleList(as), NEW i \in DOMAIN as
  PROVE  ~Wishes(as, i, as[i].name)
<1> SUFFICES ASSUME Wishes(as, i, as[i].name) PROVE FALSE OBVIOUS
<1>1. ~Wishless(as[i]) BY DEF Wishes, Wishless
<1>2. \/ \E j \in 1 .. i - 1 : as[j].name = as[i].name
      \/ Free(as, as[i].name)
  BY DEF SimpleList
<1>3. CASE \E j \in 1 .. i - 1 : as[j].name = as[i].name BY <1>1, <1>3 DEF SimpleList
<1>4. CASE Free(as, as[i].name) BY <1>1, <1>4 DEF Free
<1> QED BY <1>2, <1>3, <1>4

\* At place p of s the wishes of e and those for it are met.
Fits(as, s, e, p) ==
  /\ \A j \in DOMAIN as : \A n : as[j].name = e /\ Wishes(as, j, n) =>
       \A q \in DOMAIN s : s[q] = n => IF as[j].before = n THEN q >= p ELSE q < p
  /\ \A j \in DOMAIN as : Wishes(as, j, e) =>
       \A q \in DOMAIN s : s[q] = as[j].name => IF as[j].before = e THEN q < p ELSE q >= p

Orderly(as, s) == s \in Seq(Nat) /\ IsInjective(s) /\ WishesMet(as, s)

\* A callback that is not sorted yet is put where it fits: all wishes stay met.
LEMMA WishesStayMet ==
  ASSUME NEW as, SimpleList(as), NEW s, Orderly(as, s), NEW t, NEW e, NEW p,
         Inserted(s, t, e, p), ~Has(s, e), Fits(as, s, e, p)
  PROVE  Orderly(as, t) /\ \A n : Has(t, n) <=> Has(s, n) \/ n = e
<1> s \in Seq(Nat) /\ WishesMet(as, s) /\ IsInjective(s) BY DEF Orderly
<1>1. /\ t \in Seq(Nat)
      /\ \A n : Has(t, n) <=> Has(s, n) \/ n = e
      /\ \A m, n : m # e /\ n # e /\ Precedes(s, m, n) => Precedes(t, m, n)
  BY InsertedKeeps
<1>2. /\ IsInjective(t)
      /\ \A n : n # e /\ (\A q \in DOMAIN s : s[q] = n => q >= p) => Precedes(t, e, n)
      /\ \A n : n # e /\ (\A q \in DOMAIN s : s[q] = n => q < p) => Precedes(t, n, e)
  BY InsertedNames
<1>3. ASSUME NEW j \in DOMAIN as, as[j].before # NoName
      PROVE  Precedes(t, as[j].name, as[j].before)
  <2>1. PICK n : n = as[j].before OBVIOUS
  <2>2. PICK m : m = as[j].name OBVIOUS
  <2>3. Wishes(as, j, n) /\ n # m BY <1>3, <2>1, <2>2, NoSelfWish DEF Wishes
  <2>4. Precedes(s, m, n) BY <1>3, <2>1, <2>2 DEF WishesMet
  <2>5. CASE m = e
    <3>1. \A q \in DOMAIN s : s[q] = n => q >= p BY <2>1, <2>2, <2>3, <2>5 DEF Fits
    <3> QED BY <1>2, <2>1, <2>2, <2>3, <2>5, <3>1
  <2>6. CASE n = e
    <3>1. \A q \in DOMAIN s : s[q] = m => q < p BY <2>1, <2>2, <2>3, <2>6 DEF Fits
    <3> QED BY <1>2, <2>1, <2>2, <2>3, <2>6, <3>1
  <2>7. CASE m # e /\ n # e BY <1>1, <2>1, <2>2, <2>4, <2>7
  <2> QED BY <2>5, <2>6, <2>7
<1>4. ASSUME NEW j \in DOMAIN as, as[j].after # NoName
      PROVE  Precedes(t, as[j].after, as[j].name)
  <2>1. PICK n : n = as[j].after OBVIOUS
  <2>2. PICK m : m = as[j].name OBVIOUS
  <2>3. Wishes(as, j, n) /\ n # m BY <1>4, <2>1, <2>2, NoSelfWish DEF Wishes
  <2>4. Precedes(s, n, m) /\ as[j].before # n BY <1>4, <2>1, <2>2 DEF WishesMet, SimpleList
  <2>5. CASE m = e
    <3>1. \A q \in DOMAIN s : s[q] = n => q < p BY <2>1, <2>2, <2>3, <2>4, <2>5 DEF Fits
    <3> QED BY <1>2, <2>1, <2>2, <2>3, <2>5, <3>1
  <2>6. CASE n = e
    <3>1. \A q \in DOMAIN s : s[q] = m => q >= p BY <2>1, <2>2, <2>3, <2>4, <2>6 DEF Fits
    <3> QED BY <1>2, <2>1, <2>2, <2>3, <2>6, <3>1
  <2>7. CASE m # e /\ n # e BY <1>1, <2>1, <2>2, <2>4, <2>7
  <2> QED BY <2>5, <2>6, <2>7
<1>5. WishesMet(as, t) BY <1>3, <1>4 DEF WishesMet
<1> QED BY <1>1, <1>2, <1>5 DEF Orderly

\* The turn of the callback that was asked for next, with a name e that is not sorted.
Turn(ps, as, k, st, i, e) ==
  /\ Sees(ps, as) /\ SimpleList(as) /\ k \in Nat /\ SortedTo(as, ps, st, k)
  /\ i \in DOMAIN as /\ i = k + 1 /\ e = as[i].name /\ ~Has(st.out, e)

\* What is known then.
TurnFacts(as, st, i, e) ==
  /\ st.before[i] = as[i].before
  /\ \A j \in DOMAIN as : as[j].name = e /\ ~Wishless(as[j]) => j = i
  /\ \A j \in DOMAIN as : Wishes(as, j, e) => ~Has(st.out, as[j].name)
  /\ \A n : Wishes(as, i, n) /\ ~Has(st.out, n) =>
       /\ n # e /\ Free(as, n)
       /\ \A j \in DOMAIN as : as[j].name = n => j > i
       /\ \A j \in 1 .. i - 1 : AskedFor(as, n) => ~Wishes(as, j, n)
       /\ \A j \in DOMAIN as : Wishes(as, j, n) /\ AskedFor(as, n) /\ j # i =>
            ~Has(st.out, as[j].name) /\ as[j].name # e

LEMMA TurnIs ==
  ASSUME NEW ps, NEW as, NEW k, NEW st, NEW i, NEW e, Turn(ps, as, k, st, i, e)
  PROVE  TurnFacts(as, st, i, e)
<1> /\ Sees(ps, as) /\ SimpleList(as) /\ k \in Nat /\ SortedTo(as, ps, st, k)
    /\ i \in DOMAIN as /\ i = k + 1 /\ e = as[i].name /\ ~Has(st.out, e)
  BY DEF Turn
<1>0. /\ Len(as) \in Nat /\ DOMAIN as = 1 .. Len(as) /\ 1 .. k \subseteq DOMAIN as
      /\ i - 1 = k /\ i \in Nat /\ \A j \in DOMAIN as : j \in Nat /\ (j < i => j \in 1 .. k)
  <2>1. Len(as) \in Nat /\ DOMAIN as = 1 .. Len(as) BY SeesIs
  <2>2. PICK l \in Nat : l = Len(as) BY <2>1
  <2>3. k + 1 \in 1 .. l /\ DOMAIN as = 1 .. l BY <2>1, <2>2
  <2>4. i - 1 = k /\ i \in Nat OBVIOUS
  <2>5. \A j \in 1 .. l : j \in Nat /\ (j < i => j \in 1 .. k) OBVIOUS
  <2>6. 1 .. k \subseteq 1 .. l BY <2>3
  <2> QED BY <2>1, <2>3, <2>4, <2>5, <2>6
<1>1. AskedFor(as, e) BY DEF AskedFor
<1>2. \A j \in 1 .. k : as[j].name # e BY DEF SortedTo
<1>3. \A j \in 1 .. k : ~Wishes(as, j, e) BY <1>1 DEF SortedTo
<1>4. st.before[i] = as[i].before
  <2>1. CASE Link(as, i, st.before[i])
    <3>1. PICK j \in DOMAIN as : /\ as[j].after = as[i].name
                                 /\ \A m \in DOMAIN as : as[m].name = as[i].name => j < m
      BY <2>1 DEF Link
    <3>2. j \in 1 .. k BY <1>0, <3>1
    <3>3. as[i].name # NoName BY SeesIs
    <3>4. Wishes(as, j, e) BY <3>1, <3>3 DEF Wishes
    <3> QED BY <1>3, <3>2, <3>4
  <2> QED BY <2>1 DEF SortedTo, LinksOk
<1>5. ASSUME NEW j \in DOMAIN as, as[j].name = e, ~Wishless(as[j]) PROVE j = i
  <2>1. ~(i < j)
    <3>1. SUFFICES ASSUME i < j PROVE FALSE OBVIOUS
    <3>2. i \in 1 .. j - 1 BY <1>0, <3>1
    <3> QED BY <1>5, <3>2 DEF SimpleList
  <2>2. ~(j < i) BY <1>0, <1>2, <1>5
  <2> QED BY <1>0, <2>1, <2>2
\* whoever is sorted and has a wish had its turn
<1>6. ASSUME NEW j \in DOMAIN as, ~Wishless(as[j]), Has(st.out, as[j].name) PROVE j \in 1 .. k
  <2>1. ~Free(as, as[j].name) BY <1>6 DEF Free
  <2>2. PICK m \in 1 .. k : as[m].name = as[j].name BY <1>6, <2>1 DEF SortedTo
  <2>3. CASE m < j
    <3>1. m \in 1 .. j - 1 BY <1>0, <2>3
    <3> QED BY <1>6, <2>2, <3>1 DEF SimpleList
  <2>4. CASE ~(m < j) BY <1>0, <2>2, <2>4
  <2> QED BY <2>3, <2>4
<1>7. ASSUME NEW j \in DOMAIN as, Wishes(as, j, e), Has(st.out, as[j].name) PROVE FALSE
  <2>1. ~Wishless(as[j]) BY <1>7 DEF Wishes, Wishless
  <2>2. j \in 1 .. k BY <1>6, <1>7, <2>1
  <2> QED BY <1>3, <1>7, <2>2
<1>8. ASSUME NEW n, Wishes(as, i, n), ~Has(st.out, n)
      PROVE  /\ n # e /\ Free(as, n)
             /\ \A j \in DOMAIN as : as[j].name = n => j > i
             /\ \A j \in 1 .. i - 1 : AskedFor(as, n) => ~Wishes(as, j, n)
             /\ \A j \in DOMAIN as : Wishes(as, j, n) /\ AskedFor(as, n) /\ j # i =>
                  ~Has(st.out, as[j].name) /\ as[j].name # e
  <2>1. n # e BY <1>8, NoSelfWish
  <2>2. \A j \in 1 .. k : as[j].name # n BY <1>8 DEF SortedTo
  <2>3. Free(as, n) BY <1>0, <1>8, <2>2 DEF SimpleList
  <2>4. ASSUME NEW j \in DOMAIN as, as[j].name = n PROVE j > i
    <3>1. j # i /\ ~(j < i) BY <1>0, <2>1, <2>2, <2>4
    <3> QED BY <1>0, <3>1
  <2>5. \A j \in 1 .. i - 1 : AskedFor(as, n) => ~Wishes(as, j, n) BY <1>0, <1>8 DEF SortedTo
  <2>6. ASSUME NEW j \in DOMAIN as, Wishes(as, j, n), AskedFor(as, n), j # i
        PROVE  ~Has(st.out, as[j].name) /\ as[j].name # e
    <3>1. ~Wishless(as[j]) BY <2>6 DEF Wishes, Wishless
    <3>2. j \notin 1 .. k BY <1>0, <2>5, <2>6
    <3> QED BY <1>5, <1>6, <2>6, <3>1, <3>2
  <2> QED BY <2>1, <2>3, <2>4, <2>5, <2>6
<1> QED BY <1>4, <1>5, <1>7, <1>8 DEF TurnFacts

\* What placing it leaves: it is sorted, and so are those of W, whom its wish names.
Placed(ps, as, st, i, e, v, W) ==
  /\ v \in SortStates(ps) /\ Orderly(as, v.out) /\ LinksOk(as, v.before)
  /\ \A n \in W : Wishes(as, i, n) /\ ~Has(st.out, n) /\ AskedFor(as, n)
  /\ \A n : Has(v.out, n) <=> Has(st.out, n) \/ n = e \/ n \in W
  /\ \A n : Wishes(as, i, n) /\ AskedFor(as, n) => Has(v.out, n)

LEMMA TurnTaken ==
  ASSUME NEW ps, NEW as, NEW k, NEW st, NEW i, NEW e, Turn(ps, as, k, st, i, e),
         NEW v, NEW W, Placed(ps, as, st, i, e, v, W)
  PROVE  SortedTo(as, ps, v, i)
<1> /\ Sees(ps, as) /\ SimpleList(as) /\ k \in Nat /\ SortedTo(as, ps, st, k)
    /\ i \in DOMAIN as /\ i = k + 1 /\ e = as[i].name /\ ~Has(st.out, e)
  BY DEF Turn
<1> /\ v \in SortStates(ps) /\ IsInjective(v.out) /\ LinksOk(as, v.before) /\ WishesMet(as, v.out)
    /\ \A n \in W : Wishes(as, i, n) /\ ~Has(st.out, n) /\ AskedFor(as, n)
    /\ \A n : Has(v.out, n) <=> Has(st.out, n) \/ n = e \/ n \in W
    /\ \A n : Wishes(as, i, n) /\ AskedFor(as, n) => Has(v.out, n)
  BY DEF Placed, Orderly
<1> TurnFacts(as, st, i, e) BY TurnIs
<1>0. \A j \in 1 .. i : j \in 1 .. k \/ j = i OBVIOUS
<1>1. \A n \in W : Free(as, n) BY DEF TurnFacts
<1>2. \A j \in 1 .. i : Has(v.out, as[j].name) BY <1>0 DEF SortedTo
<1>3. \A j \in 1 .. i : \A n : Wishes(as, j, n) /\ AskedFor(as, n) => Has(v.out, n)
  BY <1>0 DEF SortedTo
<1>4. ASSUME NEW n, Has(v.out, n)
      PROVE  (\E j \in 1 .. i : as[j].name = n) \/ (AskedFor(as, n) /\ Free(as, n))
  <2>1. CASE Has(st.out, n)
    <3>1. (\E j \in 1 .. k : as[j].name = n) \/ (AskedFor(as, n) /\ Free(as, n))
      BY <2>1 DEF SortedTo
    <3>2. \A j \in 1 .. k : j \in 1 .. i OBVIOUS
    <3> QED BY <3>1, <3>2
  <2>2. CASE n = e
    <3>1. i \in 1 .. i OBVIOUS
    <3> QED BY <2>2, <3>1
  <2>3. CASE n \in W BY <1>1, <2>3
  <2> QED BY <1>4, <2>1, <2>2, <2>3
<1> QED BY <1>2, <1>3, <1>4 DEF SortedTo

\* The i-th callback wishes a place relative to w, which is not sorted yet.
Names(as, st, i, w) == Wishes(as, i, w) /\ ~Has(st.out, w) /\ AskedFor(as, w)

NextFacts(ps, as, st, i, e, n, next) ==
  /\ next \in DOMAIN as /\ next # 0 /\ next # i /\ as[next].name = n
  /\ ps[next].name = n /\ ps[next].after = NoName /\ Wishless(as[next])
  /\ st.before[next] = NoName \/ (st.before[next] = e /\ as[i].after = n)

\* The last request for a callback that is sorted because of a wish has no wish, but
\* for the one an earlier sort may have set on behalf of this callback.
LEMMA NextIs ==
  ASSUME NEW ps, NEW as, NEW k, NEW st, NEW i, NEW e, Turn(ps, as, k, st, i, e),
         NEW n, Names(as, st, i, n), NEW next, next = LastIndex(NamesOf(ps), n)
  PROVE  NextFacts(ps, as, st, i, e, n, next)
<1> /\ Sees(ps, as) /\ SimpleList(as) /\ k \in Nat /\ SortedTo(as, ps, st, k)
    /\ i \in DOMAIN as /\ i = k + 1 /\ e = as[i].name /\ ~Has(st.out, e)
  BY DEF Turn
<1> TurnFacts(as, st, i, e) BY TurnIs
<1> Wishes(as, i, n) /\ ~Has(st.out, n) /\ AskedFor(as, n) BY DEF Names
<1>0. /\ DOMAIN NamesOf(ps) = DOMAIN as /\ NamesOf(ps) \in Seq(Nat) /\ DOMAIN as = 1 .. Len(as)
      /\ Len(as) \in Nat /\ \A j \in DOMAIN as : NamesOf(ps)[j] = as[j].name
  BY SeesIs
<1>1. Has(NamesOf(ps), n) BY <1>0 DEF Has, AskedFor
<1>2. next \in DOMAIN as /\ next # 0 /\ as[next].name = n BY <1>0, <1>1, LastIndexIs
<1>3. /\ n # e /\ Free(as, n) /\ \A j \in 1 .. i - 1 : ~Wishes(as, j, n)
  BY DEF TurnFacts
<1>4. Wishless(as[next]) BY <1>2, <1>3 DEF Free
<1>5. ps[next].name = n /\ ps[next].after = NoName BY <1>2, <1>4 DEF Sees, Wishless
<1>6. st.before[next] = NoName \/ (st.before[next] = e /\ as[i].after = n)
  <2>1. CASE Link(as, next, st.before[next])
    <3>1. PICK j \in DOMAIN as : /\ as[j].name = st.before[next] /\ as[j].after = n
                                 /\ \A m \in 1 .. j - 1 : ~Wishes(as, m, n)
      BY <1>2, <2>1 DEF Link
    <3>2. Wishes(as, j, n) BY <3>1 DEF Wishes
    <3>3. j \in Nat /\ i \in Nat /\ j >= 1 /\ i >= 1 BY <1>0
    <3>4. ~(j < i)
      <4>1. SUFFICES ASSUME j < i PROVE FALSE OBVIOUS
      <4>2. j \in 1 .. i - 1 BY <3>3, <4>1
      <4> QED BY <1>3, <3>2, <4>2
    <3>5. ~(i < j)
      <4>1. SUFFICES ASSUME i < j PROVE FALSE OBVIOUS
      <4>2. i \in 1 .. j - 1 BY <3>3, <4>1
      <4> QED BY <3>1, <4>2
    <3>6. j = i BY <3>3, <3>4, <3>5
    <3> QED BY <3>1, <3>6
  <2>2. CASE st.before[next] = as[next].before BY <1>4, <2>2 DEF Wishless
  <2> QED BY <1>2, <2>1, <2>2 DEF SortedTo, LinksOk
<1> QED BY <1>2, <1>3, <1>4, <1>5, <1>6 DEF NextFacts

\* At place p the wish of the i-th callback is met.
FitsWish(as, s, i, p) ==
  \A n : Wishes(as, i, n) =>
    \A q \in DOMAIN s : s[q] = n => IF as[i].before = n THEN q >= p ELSE q < p

\* t has one more name than s.
OneMore(s, t, e) == \A n : Has(t, n) <=> Has(s, n) \/ n = e

LEMMA FitsKeeps ==
  ASSUME NEW as, SimpleList(as), NEW s, Orderly(as, s), NEW t, NEW e, NEW p,
         Inserted(s, t, e, p), ~Has(s, e), Fits(as, s, e, p)
  PROVE  Orderly(as, t) /\ OneMore(s, t, e)
BY WishesStayMet DEF OneMore

\* Nobody is sorted who wishes a place relative to a callback that is not.
LEMMA TurnPut ==
  ASSUME NEW ps, NEW as, NEW k, NEW st, NEW i, NEW e, Turn(ps, as, k, st, i, e),
         NEW s, s = st.out, NEW t, NEW p, Inserted(s, t, e, p), FitsWish(as, s, i, p)
  PROVE  Orderly(as, t) /\ OneMore(s, t, e)
<1>0. /\ Sees(ps, as) /\ SimpleList(as) /\ SortedTo(as, ps, st, k) /\ e = as[i].name
      /\ ~Has(st.out, e)
  BY DEF Turn
<1>2. Orderly(as, s) BY <1>0, SortStateIs DEF SortedTo, Sees, Orderly
<1>3. /\ \A j \in DOMAIN as : as[j].name = e /\ ~Wishless(as[j]) => j = i
      /\ \A j \in DOMAIN as : Wishes(as, j, e) => ~Has(s, as[j].name)
  <2>1. TurnFacts(as, st, i, e) BY TurnIs
  <2> QED BY <2>1 DEF TurnFacts
<1>4. ASSUME NEW j \in DOMAIN as, NEW n, as[j].name = e, Wishes(as, j, n)
      PROVE  \A q \in DOMAIN s : s[q] = n => IF as[j].before = n THEN q >= p ELSE q < p
  <2>1. j = i BY <1>3, <1>4 DEF Wishes, Wishless
  <2> QED BY <1>4, <2>1 DEF FitsWish
<1>5. \A j \in DOMAIN as : Wishes(as, j, e) => \A q \in DOMAIN s : s[q] # as[j].name
  BY <1>3 DEF Has
<1>6. Fits(as, s, e, p)
  <2>1. \A j \in DOMAIN as : Wishes(as, j, e) =>
          \A q \in DOMAIN s : s[q] = as[j].name => IF as[j].before = e THEN q < p ELSE q >= p
    BY <1>5
  <2>2. \A j \in DOMAIN as : \A n : as[j].name = e /\ Wishes(as, j, n) =>
          \A q \in DOMAIN s : s[q] = n => IF as[j].before = n THEN q >= p ELSE q < p
    BY <1>4
  <2> QED BY <2>1, <2>2 DEF Fits
<1>7. SimpleList(as) /\ Inserted(s, t, e, p) /\ ~Has(s, e) BY <1>0
<1>8. Orderly(as, t) /\ \A n : Has(t, n) <=> Has(s, n) \/ n = e
  BY <1>2, <1>6, <1>7, WishesStayMet, Zenon
<1> QED BY <1>8 DEF OneMore

\* A state with another list.
ListIs(ps, as, st, v, s) ==
  /\ v \in SortStates(ps) /\ v.out = s /\ v.before = st.before
  /\ Orderly(as, v.out) /\ LinksOk(as, v.before)

LEMMA WithOut ==
  ASSUME NEW ps, NEW as, NEW k, NEW st, NEW i, NEW e, Turn(ps, as, k, st, i, e),
         NEW s, Orderly(as, s), NEW v, Relisted(st, v, s)
  PROVE  ListIs(ps, as, st, v, s)
<1>1. ps \in Seq(Processors) /\ st \in SortStates(ps) /\ LinksOk(as, st.before)
  BY DEF Turn, SortedTo, Sees
<1>2. s \in Seq(Nat) BY DEF Orderly
<1>3. v \in SortStates(ps) /\ v.out = s /\ v.before = st.before
  BY <1>1, <1>2, SortStateIs DEF Relisted
<1> QED BY <1>1, <1>3 DEF ListIs

\* What a turn is about.
TurnTypes(ps, as, k, st, i, e) ==
  /\ ps \in Seq(Processors) /\ st \in SortStates(ps) /\ st.out \in Seq(Nat)
  /\ i \in DOMAIN as /\ i \in DOMAIN ps /\ DOMAIN ps = DOMAIN as
  /\ DOMAIN as = 1 .. Len(as) /\ Len(as) \in Nat /\ k \in Nat /\ i = k + 1
  /\ e \in Nat /\ e = as[i].name /\ e = ps[i].name /\ ~Has(st.out, e)
  /\ ps[i].after = as[i].after /\ st.before[i] = as[i].before
  /\ as[i].before = NoName \/ as[i].after = NoName
  /\ IsInjective(st.out) /\ SimpleList(as)

LEMMA TurnHas ==
  ASSUME NEW ps, NEW as, NEW k, NEW st, NEW i, NEW e, Turn(ps, as, k, st, i, e)
  PROVE  TurnTypes(ps, as, k, st, i, e)
<1>1. /\ Sees(ps, as) /\ SimpleList(as) /\ SortedTo(as, ps, st, k) /\ i \in DOMAIN as
      /\ e = as[i].name /\ ~Has(st.out, e) /\ k \in Nat /\ i = k + 1
  BY DEF Turn
<1>2. st \in SortStates(ps) /\ ps \in Seq(Processors) /\ IsInjective(st.out)
  BY <1>1 DEF SortedTo, Sees
<1>3. DOMAIN ps = DOMAIN as /\ as[i].name \in Nat /\ DOMAIN as = 1 .. Len(as) /\ Len(as) \in Nat
  BY <1>1, SeesIs
<1>4. ps[i].name = e /\ ps[i].after = as[i].after BY <1>1 DEF Sees
<1>5. st.before[i] = as[i].before
  <2>1. TurnFacts(as, st, i, e) BY TurnIs
  <2> QED BY <2>1 DEF TurnFacts
<1>6. as[i].before = NoName \/ as[i].after = NoName BY <1>1 DEF SimpleList
<1> QED BY <1>1, <1>2, <1>3, <1>4, <1>5, <1>6, SortStateIs DEF TurnTypes

Nowhere(ps, st, n) == n = NoName \/ (~Has(st.out, n) /\ ~Has(NamesOf(ps), n))

LEMMA PlainPut ==
  ASSUME NEW ps \in Seq(Processors), NEW st \in SortStates(ps), NEW i \in DOMAIN ps, NEW nested,
         NEW e, e = ps[i].name, ~Has(st.out, e),
         NEW b, b = st.before[i], Nowhere(ps, st, b),
         NEW a, a = ps[i].after, Nowhere(ps, st, a),
         NEW t, t = Append(st.out, e), NEW v, v = PlaceOne(nested, st, ps, i)
  PROVE  Relisted(st, v, t)
<1>1. st.before[i] = NoName \/ (~Has(st.out, st.before[i]) /\ ~Has(NamesOf(ps), st.before[i]))
  BY DEF Nowhere
<1>2. ps[i].after = NoName \/ (~Has(st.out, ps[i].after) /\ ~Has(NamesOf(ps), ps[i].after))
  BY DEF Nowhere
<1>3. PlaceOne(nested, st, ps, i) = [st EXCEPT !.out = Append(st.out, ps[i].name)]
  BY <1>1, <1>2, PlainPlace
<1> QED BY <1>3 DEF Relisted

\* Its wish is for a callback that was not asked for, or it has none.
LEMMA PlainTurn ==
  ASSUME NEW ps, NEW as, NEW k, NEW st, NEW i, NEW e, Turn(ps, as, k, st, i, e), NEW nested,
         \A n : Wishes(as, i, n) => ~AskedFor(as, n)
  PROVE  SortedTo(as, ps, PlaceOne(nested, st, ps, i), i)
<1>0. /\ ps \in Seq(Processors) /\ st \in SortStates(ps) /\ st.out \in Seq(Nat)
      /\ i \in DOMAIN as /\ i \in DOMAIN ps /\ k \in Nat /\ i = k + 1
      /\ e \in Nat /\ e = ps[i].name /\ ~Has(st.out, e)
      /\ ps[i].after = as[i].after /\ st.before[i] = as[i].before
  <2>1. TurnTypes(ps, as, k, st, i, e) BY TurnHas
  <2> QED BY <2>1 DEF TurnTypes
<1>1. /\ DOMAIN NamesOf(ps) = DOMAIN as
      /\ \A j \in DOMAIN as : NamesOf(ps)[j] = as[j].name
  BY SeesIs DEF Turn
<1>2. 1 .. k \subseteq DOMAIN as
  <2>1. DOMAIN as = 1 .. Len(as) /\ Len(as) \in Nat BY SeesIs DEF Turn
  <2>2. PICK l \in Nat : l = Len(as) BY <2>1
  <2>3. k + 1 \in 1 .. l /\ k \in Nat BY <1>0, <2>1, <2>2
  <2>4. 1 .. k \subseteq 1 .. l BY <2>3
  <2> QED BY <2>1, <2>2, <2>4
<1>3. ASSUME NEW n, Wishes(as, i, n) PROVE ~Has(st.out, n) /\ ~Has(NamesOf(ps), n)
  <2>1. ~AskedFor(as, n) /\ ~(\E j \in DOMAIN as : as[j].name = n) BY <1>3 DEF AskedFor
  <2>2. ~Has(NamesOf(ps), n) BY <1>1, <2>1 DEF Has
  <2>3. ~(\E j \in 1 .. k : as[j].name = n) BY <1>2, <2>1
  <2>4. ~Has(st.out, n) BY <2>1, <2>3 DEF Turn, SortedTo
  <2> QED BY <2>2, <2>4
<1>4. PICK t : t = Append(st.out, e) OBVIOUS
<1>5. PICK p : p = Len(st.out) + 1 OBVIOUS
<1>6. PICK s : s = st.out OBVIOUS
<1>7. Inserted(s, t, e, p) BY <1>0, <1>4, <1>5, <1>6, AppendInserts
<1>8. Orderly(as, t) /\ OneMore(s, t, e)
  <2>1. FitsWish(as, s, i, p) BY <1>3, <1>6 DEF FitsWish, Has
  <2> QED BY <1>6, <1>7, <2>1, TurnPut
<1>9. PICK v : v = PlaceOne(nested, st, ps, i) OBVIOUS
<1>10. Relisted(st, v, t)
  <2>1. PICK b : b = st.before[i] OBVIOUS
  <2>2. PICK a : a = ps[i].after OBVIOUS
  <2>3. Nowhere(ps, st, b) BY <1>0, <1>3, <2>1 DEF Wishes, Nowhere
  <2>4. Nowhere(ps, st, a) BY <1>0, <1>3, <2>2 DEF Wishes, Nowhere
  <2> QED BY <1>0, <1>4, <1>9, <2>1, <2>2, <2>3, <2>4, PlainPut
<1>11. v \in SortStates(ps) /\ v.out = t /\ Orderly(as, v.out) /\ LinksOk(as, v.before)
  <2>2. ListIs(ps, as, st, v, t) BY <1>8, <1>10, WithOut
  <2> QED BY <2>2 DEF ListIs
<1>12. Placed(ps, as, st, i, e, v, {})
  <2>1. \A n : Has(v.out, n) <=> Has(st.out, n) \/ n = e BY <1>6, <1>8, <1>11 DEF OneMore
  <2>2. \A n : ~(Wishes(as, i, n) /\ AskedFor(as, n)) OBVIOUS
  <2> QED BY <1>11, <2>1, <2>2 DEF Placed
<1>13. PICK W : W = {} OBVIOUS
<1>14. SortedTo(as, ps, v, i) BY <1>12, <1>13, TurnTaken
<1> QED BY <1>9, <1>14

\* Its wish is for one that is sorted.
LEMMA SortedTurn ==
  ASSUME NEW ps, NEW as, NEW k, NEW st, NEW i, NEW e, Turn(ps, as, k, st, i, e), NEW nested,
         NEW w, Wishes(as, i, w), Has(st.out, w)
  PROVE  SortedTo(as, ps, PlaceOne(nested, st, ps, i), i)
<1>0. /\ ps \in Seq(Processors) /\ st \in SortStates(ps) /\ st.out \in Seq(Nat)
      /\ i \in DOMAIN as /\ i \in DOMAIN ps
      /\ e \in Nat /\ e = ps[i].name /\ ~Has(st.out, e)
      /\ ps[i].after = as[i].after /\ st.before[i] = as[i].before
      /\ as[i].before = NoName \/ as[i].after = NoName
      /\ IsInjective(st.out)
  <2>1. TurnTypes(ps, as, k, st, i, e) BY TurnHas
  <2> QED BY <2>1 DEF TurnTypes
<1>1. /\ as[i].before = w => as[i].after = NoName
      /\ as[i].after = w => as[i].before = NoName
      /\ w # NoName /\ (as[i].before = w \/ as[i].after = w)
      /\ \A n : Wishes(as, i, n) => n = w
  <2>1. w # NoName /\ (as[i].before = w \/ as[i].after = w) BY DEF Wishes
  <2>2. ASSUME NEW n, Wishes(as, i, n) PROVE n = w
    <3>1. n # NoName /\ (as[i].before = n \/ as[i].after = n) BY <2>2 DEF Wishes
    <3> QED BY <1>0, <2>1, <3>1
  <2> QED BY <1>0, <2>1, <2>2
<1>2. PICK s : s = st.out OBVIOUS
<1>3. PICK x : x = LastIndex(s, w) OBVIOUS
<1>4. x \in Nat /\ \A q \in DOMAIN s : q \in Nat /\ (s[q] = w => q = x)
  <2>1. s \in Seq(Nat) /\ Has(s, w) BY <1>0, <1>2
  <2>2. x \in DOMAIN s /\ s[x] = w BY <1>3, <2>1, LastIndexIs
  <2>3. \A q \in DOMAIN s : s[q] = w => q = x BY <1>0, <1>2, <2>2 DEF IsInjective
  <2> QED BY <2>1, <2>2, <2>3, SeqFacts
<1>5. PICK p : p = IF as[i].before = w THEN x ELSE x + 1 OBVIOUS
<1>6. PutIn(ps, nested, st, i, e, p)
  <2>1. CASE as[i].before = w
    <3>1. ps[i].after = NoName /\ w = st.before[i] BY <1>0, <1>1, <2>1
    <3>2. p = LastIndex(st.out, w) BY <1>2, <1>3, <1>5, <2>1
    <3> QED BY <1>0, <1>1, <3>1, <3>2, PlacedBefore
  <2>2. CASE as[i].before # w
    <3>1. st.before[i] = NoName /\ w = ps[i].after BY <1>0, <1>1, <2>2
    <3>2. p = LastIndex(st.out, w) + 1 BY <1>2, <1>3, <1>5, <2>2
    <3> QED BY <1>0, <1>1, <3>1, <3>2, PlacedAfter
  <2> QED BY <2>1, <2>2
<1>7. PICK t : Inserted(s, t, e, p) /\ PlaceOne(nested, st, ps, i) = [st EXCEPT !.out = t]
  BY <1>2, <1>6 DEF PutIn
<1>8. Orderly(as, t) /\ OneMore(s, t, e)
  <2>1. ASSUME NEW n, Wishes(as, i, n), NEW q \in DOMAIN s, s[q] = n
        PROVE  IF as[i].before = n THEN q >= p ELSE q < p
    <3>1. n = w BY <1>1, <2>1
    <3>2. q = x /\ x \in Nat BY <1>4, <2>1, <3>1
    <3>3. CASE as[i].before = w
      <4>1. p = x BY <1>5, <3>3
      <4>2. q >= p BY <3>2, <4>1
      <4> QED BY <3>1, <3>3, <4>2
    <3>4. CASE as[i].before # w
      <4>1. p = x + 1 BY <1>5, <3>4
      <4>2. q < p BY <3>2, <4>1
      <4> QED BY <3>1, <3>4, <4>2
    <3> QED BY <3>3, <3>4
  <2>2. FitsWish(as, s, i, p) BY <2>1 DEF FitsWish
  <2> QED BY <1>2, <1>7, <2>2, TurnPut
<1>9. PICK v : v = [st EXCEPT !.out = t] OBVIOUS
<1>10. v \in SortStates(ps) /\ v.out = t /\ Orderly(as, v.out) /\ LinksOk(as, v.before)
  <2>1. Relisted(st, v, t) BY <1>9 DEF Relisted
  <2>2. ListIs(ps, as, st, v, t) BY <1>8, <2>1, WithOut
  <2> QED BY <2>2 DEF ListIs
<1>11. Placed(ps, as, st, i, e, v, {})
  <2>1. \A n : Has(v.out, n) <=> Has(st.out, n) \/ n = e BY <1>2, <1>8, <1>10 DEF OneMore
  <2>2. \A n : Wishes(as, i, n) => Has(v.out, n) BY <1>1, <2>1
  <2> QED BY <1>10, <2>1, <2>2 DEF Placed
<1>12. PICK W : W = {} OBVIOUS
<1>13. SortedTo(as, ps, v, i) BY <1>11, <1>12, TurnTaken
<1> QED BY <1>7, <1>9, <1>13

\* Its wish is for one that is not: that one is put in first or second.
LEMMA NextFirst ==
  ASSUME NEW ps, NEW as, NEW k, NEW st, NEW i, NEW e, Turn(ps, as, k, st, i, e),
         NEW w, Names(as, st, i, w),
         NEW s, s = st.out, NEW t, NEW p, Inserted(s, t, w, p)
  PROVE  Orderly(as, t) /\ OneMore(s, t, w)
<1> Wishes(as, i, w) /\ ~Has(st.out, w) /\ AskedFor(as, w) BY DEF Names
<1>1. SimpleList(as) /\ Orderly(as, s) /\ e = as[i].name /\ ~Has(s, e)
  BY SortStateIs DEF Turn, SortedTo, Sees, Orderly
<1>2. /\ Free(as, w)
      /\ \A j \in DOMAIN as : Wishes(as, j, w) /\ j # i => ~Has(s, as[j].name)
  <2>1. TurnFacts(as, st, i, e) BY TurnIs
  <2> QED BY <2>1 DEF TurnFacts
<1>3. \A j \in DOMAIN as : \A n : ~(as[j].name = w /\ Wishes(as, j, n))
  <2>1. \A j \in DOMAIN as : as[j].name = w => Wishless(as[j]) BY <1>2 DEF Free
  <2>2. \A j \in DOMAIN as : \A n : Wishes(as, j, n) => ~Wishless(as[j]) BY DEF Wishes, Wishless
  <2> QED BY <2>1, <2>2
<1>4. \A j \in DOMAIN as : Wishes(as, j, w) => \A q \in DOMAIN s : s[q] # as[j].name
  BY <1>1, <1>2 DEF Has
<1>5. Fits(as, s, w, p) BY <1>3, <1>4 DEF Fits
<1>6. Orderly(as, t) /\ \A n : Has(t, n) <=> Has(s, n) \/ n = w
  BY <1>1, <1>5, WishesStayMet, Zenon
<1> QED BY <1>6 DEF OneMore

AtEnd(t, z, w) == \E p : Inserted(t, z, w, p) /\ \A q \in DOMAIN t : q < p

SecondPut(as, st, i, e, w, t, z) ==
  /\ Names(as, st, i, w) /\ as[i].before = w
  /\ Orderly(as, t) /\ OneMore(st.out, t, e) /\ AtEnd(t, z, w)

LEMMA NextSecond ==
  ASSUME NEW ps, NEW as, NEW k, NEW st, NEW i, NEW e, Turn(ps, as, k, st, i, e),
         NEW w, NEW t, NEW z, SecondPut(as, st, i, e, w, t, z)
  PROVE  Orderly(as, z) /\ OneMore(t, z, w)
<1> PICK s : s = st.out OBVIOUS
<1> /\ Names(as, st, i, w) /\ as[i].before = w
    /\ Orderly(as, t) /\ OneMore(s, t, e) /\ AtEnd(t, z, w)
  BY DEF SecondPut
<1>0. PICK p : Inserted(t, z, w, p) /\ \A q \in DOMAIN t : q < p BY DEF AtEnd
<1> Wishes(as, i, w) /\ ~Has(st.out, w) /\ AskedFor(as, w) BY DEF Names
<1>1. SimpleList(as) BY DEF Turn
<1>2. /\ Free(as, w) /\ w # e
      /\ \A j \in DOMAIN as : Wishes(as, j, w) /\ j # i => ~Has(s, as[j].name) /\ as[j].name # e
  <2>1. TurnFacts(as, st, i, e) BY TurnIs
  <2> QED BY <2>1 DEF TurnFacts
<1>3. \A j \in DOMAIN as : \A n : ~(as[j].name = w /\ Wishes(as, j, n))
  <2>1. \A j \in DOMAIN as : as[j].name = w => Wishless(as[j]) BY <1>2 DEF Free
  <2>2. \A j \in DOMAIN as : \A n : Wishes(as, j, n) => ~Wishless(as[j]) BY DEF Wishes, Wishless
  <2> QED BY <2>1, <2>2
<1>4. \A j \in DOMAIN as : Wishes(as, j, w) /\ j # i => \A q \in DOMAIN t : t[q] # as[j].name
  <2>1. \A j \in DOMAIN as : Wishes(as, j, w) /\ j # i => ~Has(t, as[j].name)
    BY <1>2 DEF OneMore
  <2> QED BY <2>1 DEF Has
<1>5. Fits(as, t, w, p) BY <1>0, <1>3, <1>4 DEF Fits
<1>6. ~Has(t, w) BY <1>2 DEF OneMore
<1> QED BY <1>0, <1>1, <1>5, <1>6, FitsKeeps

\* The callback itself after that one.
Behind(t, z, e, w) ==
  \E p : Inserted(t, z, e, p) /\ \A q \in DOMAIN t : t[q] = w => q < p

AfterPut(as, st, i, e, w, t, z) ==
  /\ Names(as, st, i, w) /\ as[i].after = w
  /\ Orderly(as, t) /\ OneMore(st.out, t, w) /\ Behind(t, z, e, w)

LEMMA AfterFirst ==
  ASSUME NEW ps, NEW as, NEW k, NEW st, NEW i, NEW e, Turn(ps, as, k, st, i, e),
         NEW w, NEW t, NEW z, AfterPut(as, st, i, e, w, t, z)
  PROVE  Orderly(as, z) /\ OneMore(t, z, e)
<1> PICK s : s = st.out OBVIOUS
<1> /\ Names(as, st, i, w) /\ as[i].after = w
    /\ Orderly(as, t) /\ OneMore(s, t, w) /\ Behind(t, z, e, w)
  BY DEF AfterPut
<1>0. PICK p : Inserted(t, z, e, p) /\ \A q \in DOMAIN t : t[q] = w => q < p BY DEF Behind
<1> Wishes(as, i, w) /\ ~Has(st.out, w) /\ AskedFor(as, w) BY DEF Names
<1>1. SimpleList(as) /\ ~Has(s, e) /\ i \in DOMAIN as BY DEF Turn
<1>2. /\ Free(as, w) /\ w # e
      /\ \A j \in DOMAIN as : as[j].name = e /\ ~Wishless(as[j]) => j = i
      /\ \A j \in DOMAIN as : Wishes(as, j, e) => ~Has(s, as[j].name)
  <2>1. TurnFacts(as, st, i, e) BY TurnIs
  <2> QED BY <2>1 DEF TurnFacts
<1>3. as[i].before = NoName /\ w # NoName
  <2>1. w # NoName BY DEF Wishes
  <2> QED BY <1>1, <2>1 DEF SimpleList
<1>4. ASSUME NEW j \in DOMAIN as, NEW n, as[j].name = e, Wishes(as, j, n)
      PROVE  \A q \in DOMAIN t : t[q] = n => IF as[j].before = n THEN q >= p ELSE q < p
  <2>1. j = i BY <1>2, <1>4 DEF Wishes, Wishless
  <2>2. n = w /\ as[j].before # n BY <1>3, <1>4, <2>1 DEF Wishes
  <2> QED BY <1>0, <2>2
<1>5. ASSUME NEW j \in DOMAIN as, Wishes(as, j, e) PROVE \A q \in DOMAIN t : t[q] # as[j].name
  <2>1. ~Has(s, as[j].name) BY <1>2, <1>5
  <2>2. as[j].name # w BY <1>2, <1>5 DEF Free, Wishes, Wishless
  <2>3. ~Has(t, as[j].name) BY <2>1, <2>2 DEF OneMore
  <2> QED BY <2>3 DEF Has
<1>6. Fits(as, t, e, p)
  <2>1. \A j \in DOMAIN as : Wishes(as, j, e) =>
          \A q \in DOMAIN t : t[q] = as[j].name => IF as[j].before = e THEN q < p ELSE q >= p
    BY <1>5
  <2>2. \A j \in DOMAIN as : \A n : as[j].name = e /\ Wishes(as, j, n) =>
          \A q \in DOMAIN t : t[q] = n => IF as[j].before = n THEN q >= p ELSE q < p
    BY <1>4
  <2> QED BY <2>1, <2>2 DEF Fits
<1>7. ~Has(t, e) BY <1>1, <1>2 DEF OneMore
<1> QED BY <1>0, <1>1, <1>6, <1>7, FitsKeeps

\* For a place before it: that one is appended after the callback.
LEMMA BeforeNextTurn ==
  ASSUME NEW ps, NEW as, NEW k, NEW st, NEW i, NEW e, Turn(ps, as, k, st, i, e),
         NEW f, NEW g, SortsBy(ps, f, g),
         NEW w, Names(as, st, i, w), as[i].before = w
  PROVE  SortedTo(as, ps, PlaceOne(f, st, ps, i), i)
<1> Wishes(as, i, w) /\ ~Has(st.out, w) /\ AskedFor(as, w) BY DEF Names
<1>0. /\ ps \in Seq(Processors) /\ st \in SortStates(ps) /\ st.out \in Seq(Nat)
      /\ i \in DOMAIN as /\ i \in DOMAIN ps /\ DOMAIN ps = DOMAIN as
      /\ e \in Nat /\ e = ps[i].name /\ ~Has(st.out, e)
      /\ ps[i].after = as[i].after /\ st.before[i] = as[i].before
      /\ as[i].before = NoName \/ as[i].after = NoName
  <2>1. TurnTypes(ps, as, k, st, i, e) BY TurnHas
  <2> QED BY <2>1 DEF TurnTypes
<1>1. w # NoName /\ ps[i].after = NoName /\ w = st.before[i]
  <2>1. w # NoName BY DEF Wishes
  <2> QED BY <1>0, <2>1
<1>2. w # e
  <2>1. TurnFacts(as, st, i, e) BY TurnIs
  <2> QED BY <2>1 DEF TurnFacts
<1>3. PICK next : next = LastIndex(NamesOf(ps), w) OBVIOUS
<1>4. /\ next \in DOMAIN ps /\ next # 0 /\ ps[next].name = w /\ ps[next].after = NoName
      /\ st.before[next] = NoName
  <2>1. NextFacts(ps, as, st, i, e, w, next) BY <1>3, NextIs
  <2> QED BY <1>0, <1>1, <2>1 DEF NextFacts
<1>5. PICK s : s = st.out OBVIOUS
<1>6. PICK t : t = Append(s, e) OBVIOUS
<1>7. PICK p : p = Len(s) + 1 OBVIOUS
<1>8. Inserted(s, t, e, p) BY <1>0, <1>5, <1>6, <1>7, AppendInserts
<1>9. Orderly(as, t) /\ OneMore(s, t, e)
  <2>1. ASSUME NEW n, Wishes(as, i, n) PROVE n = w
    <3>1. n # NoName /\ (as[i].before = n \/ as[i].after = n) BY <2>1 DEF Wishes
    <3> QED BY <1>0, <1>1, <3>1
  <2>2. FitsWish(as, s, i, p) BY <1>5, <2>1 DEF FitsWish, Has
  <2> QED BY <1>5, <1>8, <2>2, TurnPut
<1>10. PICK u : Relisted(st, u, t) BY DEF Relisted
<1>11. u \in SortStates(ps) /\ u.out = t /\ u.before = st.before /\ LinksOk(as, u.before)
  <2>2. ListIs(ps, as, st, u, t) BY <1>9, <1>10, WithOut
  <2> QED BY <2>2 DEF ListIs
<1>12. PICK v : v = f[next][u] OBVIOUS
<1>13. v = PlaceOne(g, u, ps, next) BY <1>4, <1>11, <1>12 DEF SortsBy
<1>14. PICK z : z = Append(t, w) OBVIOUS
<1>15. Relisted(u, v, z)
  <2>1. ~Has(u.out, w) BY <1>2, <1>5, <1>9, <1>11 DEF OneMore
  <2>2. PICK b : b = u.before[next] OBVIOUS
  <2>3. PICK a : a = ps[next].after OBVIOUS
  <2>4. Nowhere(ps, u, b) BY <1>4, <1>11, <2>2 DEF Nowhere
  <2>5. Nowhere(ps, u, a) BY <1>4, <2>3 DEF Nowhere
  <2>6. w = ps[next].name /\ z = Append(u.out, w) BY <1>4, <1>11, <1>14
  <2> QED BY <1>0, <1>4, <1>11, <1>13, <2>1, <2>2, <2>3, <2>4, <2>5, <2>6, PlainPut
<1>16. PICK m : m = Len(t) + 1 OBVIOUS
<1>17. AtEnd(t, z, w)
  <2>1. t \in Seq(Nat) BY <1>9 DEF Orderly
  <2>2. w \in Nat
    <3>1. ps[next] \in Processors BY <1>0, <1>4, NamesAre
    <3> QED BY <1>4, <3>1 DEF Processors
  <2>3. \A q \in DOMAIN t : q < m BY <1>16, <2>1, SeqFacts
  <2>4. Inserted(t, z, w, m) BY <1>14, <1>16, <2>1, <2>2, AppendInserts
  <2> QED BY <2>3, <2>4 DEF AtEnd
<1>18. Orderly(as, z) /\ OneMore(t, z, w) 
  <2>1. SecondPut(as, st, i, e, w, t, z) BY <1>5, <1>9, <1>17 DEF SecondPut
  <2> QED BY <2>1, NextSecond
<1>19. v \in SortStates(ps) /\ v.out = z /\ v.before = u.before
  <2>1. z \in Seq(Nat) /\ v = [u EXCEPT !.out = z] BY <1>15, <1>18 DEF Orderly, Relisted
  <2> QED BY <1>0, <1>11, <2>1, SortStateIs
<1>20. Has(v.out, e) BY <1>9, <1>18, <1>19 DEF OneMore
<1>21. PlaceOne(f, st, ps, i) = v
  <2>1. t = Append(st.out, e) BY <1>5, <1>6
  <2>2. BeforeNext(ps, f, st, i, e, w, next, t, u, v)
    BY <1>0, <1>1, <1>3, <1>4, <1>10, <1>12, <1>19, <1>20, <2>1 DEF BeforeNext
  <2> QED BY <2>2, PlacedBeforeNext
<1>22. PICK W : W = {w} OBVIOUS
<1>23. Placed(ps, as, st, i, e, v, W)
  <2>1. \A n : Has(v.out, n) <=> Has(st.out, n) \/ n = e \/ n \in W
    BY <1>5, <1>9, <1>18, <1>19, <1>22 DEF OneMore
  <2>2. \A n \in W : Wishes(as, i, n) /\ ~Has(st.out, n) /\ AskedFor(as, n) BY <1>22
  <2>3. ASSUME NEW n, Wishes(as, i, n) PROVE Has(v.out, n)
    <3>1. n # NoName /\ (as[i].before = n \/ as[i].after = n) BY <2>3 DEF Wishes
    <3>2. n = w BY <1>0, <1>1, <3>1
    <3> QED BY <1>22, <2>1, <3>2
  <2>4. Orderly(as, v.out) /\ LinksOk(as, v.before) BY <1>11, <1>18, <1>19
  <2> QED BY <1>19, <2>1, <2>2, <2>3, <2>4 DEF Placed
<1>24. SortedTo(as, ps, v, i) BY <1>23, TurnTaken
<1> QED BY <1>21, <1>24

\* A callback that was sorted before its turn has no wish.
LEMMA RepeatTurn ==
  ASSUME NEW ps, NEW as, Sees(ps, as), SimpleList(as), NEW k \in Nat, NEW st,
         SortedTo(as, ps, st, k), NEW i \in DOMAIN as, i = k + 1, Has(st.out, as[i].name),
         NEW nested
  PROVE  SortedTo(as, ps, PlaceOne(nested, st, ps, i), i)
<1>1. st \in SortStates(ps) /\ ps \in Seq(Processors) BY DEF SortedTo, Sees
<1>2. i \in DOMAIN ps /\ ps[i].name = as[i].name BY SeesIs DEF Sees
<1>3. PlaceOne(nested, st, ps, i) = st BY <1>1, <1>2, PlacedAlready
<1>4. Wishless(as[i])
  <2>1. \/ \E j \in 1 .. k : as[j].name = as[i].name
        \/ Free(as, as[i].name)
    BY DEF SortedTo
  <2>2. CASE \E j \in 1 .. k : as[j].name = as[i].name
    <3>1. i - 1 = k OBVIOUS
    <3>2. \E j \in 1 .. i - 1 : as[j].name = as[i].name BY <2>2, <3>1
    <3> QED BY <3>2 DEF SimpleList
  <2>3. CASE Free(as, as[i].name) BY <2>3 DEF Free
  <2> QED BY <2>1, <2>2, <2>3
<1>5. \A n : ~Wishes(as, i, n) BY <1>4 DEF Wishes, Wishless
<1>6. \A j \in 1 .. i : j \in 1 .. k \/ j = i OBVIOUS
<1>7. \A j \in 1 .. k : j \in 1 .. i OBVIOUS
<1>8. \A j \in 1 .. i : Has(st.out, as[j].name) BY <1>6 DEF SortedTo
<1>9. \A n : Has(st.out, n) => (\E j \in 1 .. i : as[j].name = n) \/ (AskedFor(as, n) /\ Free(as, n))
  BY <1>7 DEF SortedTo
<1>10. \A j \in 1 .. i : \A n : Wishes(as, j, n) /\ AskedFor(as, n) => Has(st.out, n)
  BY <1>5, <1>6 DEF SortedTo
<1>11. SortedTo(as, ps, st, i) BY <1>8, <1>9, <1>10 DEF SortedTo
<1> QED BY <1>3, <1>11

\* The callback itself, once the one it wishes to run after is sorted and has set it a
\* wish: nothing an earlier sort has set is left in its before field.
Called(ps, as, st, e, w, u, next, h, v) ==
  /\ next = LastIndex(NamesOf(ps), e) /\ v = PlaceOne(h, u, ps, next)
  /\ u \in SortStates(ps) /\ OneMore(st.out, u.out, w)
  /\ \A j \in DOMAIN as : as[j].name = e => u.before[j] = st.before[j]

PutsBehind(u, v, e, w) == \E z : Behind(u.out, z, e, w) /\ Relisted(u, v, z)

LEMMA PutBehind ==
  ASSUME NEW ps, NEW as, NEW k, NEW st, NEW i, NEW e, Turn(ps, as, k, st, i, e),
         NEW w, Names(as, st, i, w), as[i].after = w,
         NEW u, NEW next, NEW h, NEW v, Called(ps, as, st, e, w, u, next, h, v)
  PROVE  PutsBehind(u, v, e, w)
<1> /\ next = LastIndex(NamesOf(ps), e) /\ v = PlaceOne(h, u, ps, next)
    /\ u \in SortStates(ps) /\ OneMore(st.out, u.out, w)
    /\ \A j \in DOMAIN as : as[j].name = e => u.before[j] = st.before[j]
  BY DEF Called
<1> Wishes(as, i, w) /\ ~Has(st.out, w) /\ AskedFor(as, w) BY DEF Names
<1>0. /\ ps \in Seq(Processors) /\ st \in SortStates(ps) /\ u.out \in Seq(Nat)
      /\ i \in DOMAIN as /\ i \in DOMAIN ps /\ DOMAIN ps = DOMAIN as
      /\ e \in Nat /\ e = ps[i].name /\ e = as[i].name /\ ~Has(st.out, e)
      /\ ps[i].after = as[i].after /\ st.before[i] = as[i].before
      /\ as[i].before = NoName \/ as[i].after = NoName
  <2>1. TurnTypes(ps, as, k, st, i, e) BY TurnHas
  <2>2. ps \in Seq(Processors) BY <2>1 DEF TurnTypes
  <2> QED BY <2>1, <2>2, SortStateIs DEF TurnTypes
<1>1. w # NoName /\ st.before[i] = NoName
  <2>1. w # NoName BY DEF Wishes
  <2> QED BY <1>0, <2>1
<1>2. w # e /\ \A j \in DOMAIN as : as[j].name = e /\ ~Wishless(as[j]) => j = i
  <2>1. TurnFacts(as, st, i, e) BY TurnIs
  <2> QED BY <2>1 DEF TurnFacts
<1>3. ~Has(u.out, e) /\ Has(u.out, w) BY <1>0, <1>2 DEF OneMore
<1>4. /\ DOMAIN NamesOf(ps) = DOMAIN as /\ NamesOf(ps) \in Seq(Nat)
      /\ \A j \in DOMAIN as : NamesOf(ps)[j] = as[j].name /\ ps[j].name = as[j].name
                              /\ ps[j].after = as[j].after
  <2>1. Sees(ps, as) BY DEF Turn
  <2>2. \A j \in DOMAIN as : ps[j].name = as[j].name /\ ps[j].after = as[j].after
    BY <2>1 DEF Sees
  <2>3. /\ DOMAIN NamesOf(ps) = DOMAIN as /\ NamesOf(ps) \in Seq(Nat)
        /\ \A j \in DOMAIN as : NamesOf(ps)[j] = as[j].name
    BY <2>1, SeesIs
  <2> QED BY <2>2, <2>3
<1>5. next \in DOMAIN as /\ next \in DOMAIN ps /\ ps[next].name = e /\ as[next].name = e
      /\ u.before[next] = st.before[next]
  <2>1. Has(NamesOf(ps), e) BY <1>0, <1>4 DEF Has
  <2>2. next \in DOMAIN as /\ NamesOf(ps)[next] = e BY <1>4, <2>1, LastIndexIs
  <2> QED BY <1>0, <1>4, <2>2
<1>6. st.before[next] = NoName
  <2>1. LinksOk(as, st.before) /\ \A j \in 1 .. k : Has(st.out, as[j].name)
    BY DEF Turn, SortedTo
  <2>2. ~Link(as, next, st.before[next])
    <3>1. SUFFICES ASSUME Link(as, next, st.before[next]) PROVE FALSE OBVIOUS
    <3>2. PICK j \in DOMAIN as : /\ as[j].after = e
                                 /\ \A m \in DOMAIN as : as[m].name = e => j < m
      BY <1>5, <3>1 DEF Link
    <3>3. j < i BY <1>0, <3>2
    <3>4. j \in 1 .. k
      <4>1. TurnTypes(ps, as, k, st, i, e) BY TurnHas
      <4>2. DOMAIN as = 1 .. Len(as) /\ Len(as) \in Nat /\ k \in Nat /\ i = k + 1
        BY <4>1 DEF TurnTypes
      <4> QED BY <3>3, <4>2
    <3>5. e # NoName
      <4>1. ps[i] \in Processors BY <1>0, NamesAre
      <4> QED BY <1>0, <4>1 DEF Processors
    <3>6. Wishes(as, j, e) BY <3>2, <3>5 DEF Wishes
    <3>7. TurnFacts(as, st, i, e) BY TurnIs
    <3>8. ~Has(st.out, as[j].name) BY <3>6, <3>7 DEF TurnFacts
    <3> QED BY <2>1, <3>4, <3>8
  <2>3. st.before[next] = as[next].before BY <1>5, <2>1, <2>2 DEF LinksOk
  <2>4. CASE next = i BY <1>1, <2>4
  <2>5. CASE next # i
    <3>1. Wishless(as[next]) BY <1>2, <1>5, <2>5
    <3> QED BY <2>3, <3>1 DEF Wishless
  <2> QED BY <2>4, <2>5
<1>7. CASE next = i
  <2>1. PICK p : p = LastIndex(u.out, w) + 1 OBVIOUS
  <2>2. u.before[i] = NoName /\ w = ps[i].after BY <1>0, <1>5, <1>6, <1>7
  <2>3. PutIn(ps, h, u, i, e, p) BY <1>0, <1>1, <1>3, <2>1, <2>2, PlacedAfter
  <2>4. PICK z : Inserted(u.out, z, e, p) /\ PlaceOne(h, u, ps, i) = [u EXCEPT !.out = z]
    BY <2>3 DEF PutIn
  <2>5. \A q \in DOMAIN u.out : u.out[q] = w => q < p
    <3>1. PICK s : s = u.out OBVIOUS
    <3>2. PICK x : x = LastIndex(s, w) OBVIOUS
    <3>3. s \in Seq(Nat) /\ Has(s, w) BY <1>0, <1>3, <3>1
    <3>4. x \in DOMAIN s /\ \A q \in DOMAIN s : s[q] = w => q <= x BY <3>2, <3>3, LastIndexIs
    <3>5. x \in Nat /\ \A q \in DOMAIN s : q \in Nat BY <3>3, <3>4, SeqFacts
    <3>6. p = x + 1 BY <2>1, <3>1, <3>2
    <3>7. \A q \in DOMAIN s : s[q] = w => q < p BY <3>4, <3>5, <3>6
    <3> QED BY <3>1, <3>7
  <2>6. Behind(u.out, z, e, w) BY <2>4, <2>5 DEF Behind
  <2>7. Relisted(u, v, z) BY <1>7, <2>4 DEF Relisted
  <2> QED BY <2>6, <2>7 DEF PutsBehind
<1>8. CASE next # i
  <2>1. ps[next].after = NoName
    <3>1. Wishless(as[next]) BY <1>2, <1>5, <1>8
    <3> QED BY <1>4, <1>5, <3>1 DEF Wishless
  <2>2. PICK z : z = Append(u.out, e) OBVIOUS
  <2>3. PICK b : b = u.before[next] OBVIOUS
  <2>4. PICK a : a = ps[next].after OBVIOUS
  <2>5. Nowhere(ps, u, b) /\ Nowhere(ps, u, a) BY <1>5, <1>6, <2>1, <2>3, <2>4 DEF Nowhere
  <2>6. Relisted(u, v, z) BY <1>0, <1>3, <1>5, <2>2, <2>3, <2>4, <2>5, PlainPut
  <2>7. Behind(u.out, z, e, w)
    <3>1. PICK s : s = u.out OBVIOUS
    <3>2. PICK p : p = Len(s) + 1 OBVIOUS
    <3>3. s \in Seq(Nat) /\ z = Append(s, e) BY <1>0, <2>2, <3>1
    <3>4. Inserted(s, z, e, p) BY <1>0, <3>2, <3>3, AppendInserts
    <3>5. \A q \in DOMAIN s : q < p BY <3>2, <3>3, SeqFacts
    <3> QED BY <3>1, <3>4, <3>5 DEF Behind
  <2> QED BY <2>6, <2>7 DEF PutsBehind
<1> QED BY <1>7, <1>8

\* For a place after it: that one gets a wish for a place before the callback, is
\* appended, and the callback is put behind it.
LEMMA AfterNextTurn ==
  ASSUME NEW ps, NEW as, NEW k, NEW st, NEW i, NEW e, Turn(ps, as, k, st, i, e),
         NEW f, NEW g, NEW h, SortsBy(ps, f, g), SortsBy(ps, g, h),
         NEW w, Names(as, st, i, w), as[i].after = w
  PROVE  SortedTo(as, ps, PlaceOne(f, st, ps, i), i)
<1> Wishes(as, i, w) /\ ~Has(st.out, w) /\ AskedFor(as, w) BY DEF Names
<1>0. /\ ps \in Seq(Processors) /\ st \in SortStates(ps) /\ st.out \in Seq(Nat)
      /\ i \in DOMAIN as /\ i \in DOMAIN ps /\ DOMAIN ps = DOMAIN as
      /\ e \in Nat /\ e = ps[i].name /\ e = as[i].name /\ ~Has(st.out, e)
      /\ ps[i].after = as[i].after /\ st.before[i] = as[i].before
      /\ as[i].before = NoName \/ as[i].after = NoName
  <2>1. TurnTypes(ps, as, k, st, i, e) BY TurnHas
  <2> QED BY <2>1 DEF TurnTypes
<1>1. w # NoName /\ st.before[i] = NoName /\ e # NoName
  <2>1. w # NoName BY DEF Wishes
  <2>2. e # NoName
    <3>1. ps[i] \in Processors BY <1>0, NamesAre
    <3> QED BY <1>0, <3>1 DEF Processors
  <2> QED BY <1>0, <2>1, <2>2
<1>2. /\ w # e /\ \A j \in DOMAIN as : as[j].name = w => j > i
      /\ \A j \in 1 .. i - 1 : ~Wishes(as, j, w)
  <2>1. TurnFacts(as, st, i, e) BY TurnIs
  <2> QED BY <2>1 DEF TurnFacts
<1>3. PICK next : next = LastIndex(NamesOf(ps), w) OBVIOUS
<1>4. /\ next \in DOMAIN ps /\ next # 0 /\ next # i /\ as[next].name = w
      /\ ps[next].name = w /\ ps[next].after = NoName /\ Wishless(as[next])
      /\ st.before[next] = NoName \/ st.before[next] = e
  <2>1. NextFacts(ps, as, st, i, e, w, next) BY <1>3, NextIs
  <2> QED BY <1>0, <2>1 DEF NextFacts
<1>5. w \in Nat
  <2>1. ps[next] \in Processors BY <1>0, <1>4, NamesAre
  <2> QED BY <1>4, <2>1 DEF Processors
<1>6. PICK n : n = IF st.before[next] = NoName THEN e ELSE st.before[next] OBVIOUS
<1>7. n = e BY <1>4, <1>6
<1>8. PICK u : u = [st EXCEPT !.before[next] = n] OBVIOUS
<1>9. /\ u \in SortStates(ps) /\ u.out = st.out
      /\ u.before[next] = e /\ \A j \in DOMAIN as : j # next => u.before[j] = st.before[j]
  <2>1. n \in Nat BY <1>0, <1>7
  <2>2. st.before \in [DOMAIN ps -> Nat] BY <1>0, SortStateIs
  <2>3. u \in SortStates(ps) /\ u.out = st.out /\ u.before = [st.before EXCEPT ![next] = n]
    <3>1. st \in SortStates(ps) /\ ps \in Seq(Processors) /\ next \in DOMAIN ps BY <1>0, <1>4
    <3>2. PICK o \in Seq(Nat), b \in [DOMAIN ps -> Nat] : st = [out |-> o, before |-> b]
      BY <3>1 DEF SortStates
    <3>3. PICK c \in [DOMAIN ps -> Nat] : c = [b EXCEPT ![next] = n] BY <2>1, <3>1
    <3>4. u = [out |-> o, before |-> c] BY <1>8, <3>2, <3>3
    <3> QED BY <3>2, <3>3, <3>4 DEF SortStates
  <2> QED BY <1>0, <1>4, <1>7, <2>2, <2>3
<1>10. LinksOk(as, u.before)
  <2>1. LinksOk(as, st.before) BY DEF Turn, SortedTo
  <2>2. Link(as, next, e)
    <3>1. \A m \in DOMAIN as : as[m].name = as[next].name => i < m BY <1>2, <1>4, SeesIs DEF Turn
    <3>2. \A m \in 1 .. i - 1 : ~Wishes(as, m, as[next].name) BY <1>2, <1>4
    <3>3. as[i].name = e /\ as[i].after = as[next].name BY <1>0, <1>4
    <3> QED BY <1>0, <1>4, <3>1, <3>2, <3>3 DEF Link
  <2>3. ASSUME NEW j \in DOMAIN as PROVE u.before[j] = as[j].before \/ Link(as, j, u.before[j])
    <3>1. CASE j = next BY <1>9, <2>2, <3>1
    <3>2. CASE j # next BY <1>9, <2>1, <3>2 DEF LinksOk
    <3> QED BY <3>1, <3>2
  <2> QED BY <2>3 DEF LinksOk
<1>11. PICK s : s = st.out OBVIOUS
<1>12. PICK t : t = Append(s, w) OBVIOUS
<1>13. Orderly(as, t) /\ OneMore(s, t, w)
  <2>1. PICK p : p = Len(s) + 1 OBVIOUS
  <2>2. Inserted(s, t, w, p) BY <1>0, <1>5, <1>11, <1>12, <2>1, AppendInserts
  <2> QED BY <1>11, <2>2, NextFirst
<1>14. PICK x : Relisted(u, x, t) BY DEF Relisted
<1>15. x \in SortStates(ps) /\ x.out = t /\ x.before = u.before
  <2>1. t \in Seq(Nat) BY <1>13 DEF Orderly
  <2> QED BY <1>0, <1>9, <1>14, <2>1, SortStateIs DEF Relisted
<1>16. PICK own : own = LastIndex(NamesOf(ps), e) OBVIOUS
<1>17. own \in DOMAIN ps /\ own # 0
  <2>1. /\ DOMAIN NamesOf(ps) = DOMAIN as /\ NamesOf(ps) \in Seq(Nat)
        /\ \A j \in DOMAIN as : NamesOf(ps)[j] = as[j].name
    BY SeesIs DEF Turn
  <2>2. Has(NamesOf(ps), e) BY <1>0, <2>1 DEF Has
  <2> QED BY <1>0, <1>16, <2>1, <2>2, LastIndexIs
<1>18. PICK v : v = g[own][x] OBVIOUS
<1>19. v = PlaceOne(h, x, ps, own) BY <1>15, <1>17, <1>18 DEF SortsBy
<1>20. PICK z : Behind(t, z, e, w) /\ Relisted(x, v, z)
  <2>1. \A j \in DOMAIN as : as[j].name = e => x.before[j] = st.before[j]
    BY <1>2, <1>4, <1>9, <1>15
  <2>2. OneMore(st.out, x.out, w) BY <1>11, <1>13, <1>15
  <2>3. Called(ps, as, st, e, w, x, own, h, v) BY <1>15, <1>16, <1>19, <2>1, <2>2 DEF Called
  <2>4. PutsBehind(x, v, e, w) BY <2>3, PutBehind
  <2> QED BY <1>15, <2>4 DEF PutsBehind
<1>21. Orderly(as, z) /\ OneMore(t, z, e)
  <2>1. AfterPut(as, st, i, e, w, t, z) BY <1>11, <1>13, <1>20 DEF AfterPut
  <2> QED BY <2>1, AfterFirst
<1>22. v \in SortStates(ps) /\ v.out = z /\ v.before = u.before
  <2>1. z \in Seq(Nat) /\ v = [x EXCEPT !.out = z] BY <1>20, <1>21 DEF Orderly, Relisted
  <2> QED BY <1>0, <1>15, <2>1, SortStateIs
<1>23. /\ Has(v.out, e) /\ Has(v.out, w)
       /\ \A m : Has(v.out, m) <=> Has(st.out, m) \/ m = e \/ m = w
  BY <1>11, <1>13, <1>21, <1>22 DEF OneMore
<1>24. PlaceOne(g, u, ps, next) = v
  <2>1. BeforeNext(ps, g, u, next, w, e, own, t, x, v)
    BY <1>0, <1>1, <1>4, <1>9, <1>11, <1>12, <1>14, <1>16, <1>17, <1>18, <1>22, <1>23 DEF BeforeNext
  <2> QED BY <2>1, PlacedBeforeNext
<1>25. PlaceOne(f, st, ps, i) = v
  <2>1. v = f[next][u] BY <1>4, <1>9, <1>24 DEF SortsBy
  <2>2. AfterNext(ps, f, st, i, e, w, next, n, u, v)
    BY <1>0, <1>1, <1>3, <1>4, <1>6, <1>8, <1>22, <1>23, <2>1 DEF AfterNext
  <2> QED BY <2>2, PlacedAfterNext
<1>26. PICK W : W = {w} OBVIOUS
<1>27. Placed(ps, as, st, i, e, v, W)
  <2>1. \A m : Has(v.out, m) <=> Has(st.out, m) \/ m = e \/ m \in W BY <1>23, <1>26
  <2>2. \A m \in W : Wishes(as, i, m) /\ ~Has(st.out, m) /\ AskedFor(as, m) BY <1>26
  <2>3. ASSUME NEW m, Wishes(as, i, m) PROVE Has(v.out, m)
    <3>1. m # NoName /\ (as[i].before = m \/ as[i].after = m) BY <2>3 DEF Wishes
    <3>2. m = w BY <1>0, <1>1, <3>1
    <3> QED BY <1>23, <3>2
  <2>4. Orderly(as, v.out) /\ LinksOk(as, v.before) BY <1>10, <1>21, <1>22
  <2> QED BY <1>22, <2>1, <2>2, <2>3, <2>4 DEF Placed
<1>28. SortedTo(as, ps, v, i) BY <1>27, TurnTaken
<1> QED BY <1>25, <1>28

\* So whatever its wish is.
LEMMA AnyTurn ==
  ASSUME NEW ps, NEW as, Sees(ps, as), SimpleList(as), NEW k \in Nat, NEW st,
         SortedTo(as, ps, st, k), NEW i \in DOMAIN as, i = k + 1,
         NEW f, NEW g, NEW h, SortsBy(ps, f, g), SortsBy(ps, g, h)
  PROVE  SortedTo(as, ps, PlaceOne(f, st, ps, i), i)
<1>1. PICK e : e = as[i].name OBVIOUS
<1>2. CASE Has(st.out, as[i].name) BY <1>2, RepeatTurn
<1>3. CASE ~Has(st.out, as[i].name)
  <2>1. Turn(ps, as, k, st, i, e) BY <1>1, <1>3 DEF Turn
  <2>2. CASE \A n : Wishes(as, i, n) => ~AskedFor(as, n) BY <2>1, <2>2, PlainTurn
  <2>3. CASE ~(\A n : Wishes(as, i, n) => ~AskedFor(as, n))
    <3>1. PICK w : Wishes(as, i, w) /\ AskedFor(as, w) BY <2>3
    <3>2. CASE Has(st.out, w) BY <2>1, <3>1, <3>2, SortedTurn
    <3>3. CASE ~Has(st.out, w)
      <4>1. Names(as, st, i, w) BY <3>1, <3>3 DEF Names
      <4>2. as[i].before = w \/ as[i].after = w BY <3>1 DEF Wishes
      <4>3. CASE as[i].before = w BY <2>1, <4>1, <4>3, BeforeNextTurn
      <4>4. CASE as[i].after = w BY <2>1, <4>1, <4>4, AfterNextTurn
      <4> QED BY <4>2, <4>3, <4>4
    <3> QED BY <3>2, <3>3
  <2> QED BY <2>2, <2>3
<1> QED BY <1>2, <1>3

\* Sorting a simple list serves every request, and leaves nothing in the before fields
\* that would make the next sort of it fail.
LEMMA SortedSimple ==
  ASSUME NEW ps, NEW as, Sees(ps, as), SimpleList(as)
  PROVE  SortedTo(as, ps, Sorted(ps), Len(as))
<1>7. PICK n \in Nat : n = Len(as) BY SeesIs
<1>0. ps \in Seq(Processors) /\ Len(ps) = n /\ DOMAIN as = 1 .. n /\ DOMAIN ps = DOMAIN as
  <2>1. ps \in Seq(Processors) /\ Len(ps) = Len(as) BY DEF Sees
  <2>2. DOMAIN as = 1 .. Len(as) /\ DOMAIN ps = DOMAIN as BY SeesIs
  <2> QED BY <1>7, <2>1, <2>2
<1>1. PICK a : SortRun(ps, n, a)
  <2>1. n = Len(ps) BY <1>0
  <2> QED BY <2>1, SortSteps
<1>2. /\ a[0] = Unsorted(ps) /\ Sorted(ps) = a[n]
      /\ \A k \in 0 .. n - 1 : a[k + 1] = Place(ps)[k + 1][a[k]]
  BY <1>1 DEF SortRun
<1>3. PICK S : S = {k \in 0 .. n : SortedTo(as, ps, a[k], k)} OBVIOUS
<1>4. 0 \in S
  <2>1. PICK st : st = Unsorted(ps) OBVIOUS
  <2>2. st \in SortStates(ps) /\ st.out = <<>> BY <1>0, <2>1, UnsortedIs
  <2>3. LinksOk(as, st.before) BY <2>1 DEF Sees
  <2>4. \A m : ~Has(st.out, m) BY <2>2 DEF Has
  <2>5. IsInjective(st.out) /\ WishesMet(as, st.out)
    BY <2>2 DEF IsInjective, WishesMet, Precedes
  <2>6. \A j \in 1 .. 0 : FALSE OBVIOUS
  <2>7. SortedTo(as, ps, st, 0) BY <2>2, <2>3, <2>4, <2>5, <2>6 DEF SortedTo
  <2>8. SortedTo(as, ps, a[0], 0) BY <1>2, <2>1, <2>7
  <2>9. 0 \in 0 .. n OBVIOUS
  <2> QED BY <1>3, <2>8, <2>9
<1>5. ASSUME NEW k \in 0 .. n - 1, k \in S PROVE k + 1 \in S
  <2>1. PICK st : st = a[k] OBVIOUS
  <2>2. SortedTo(as, ps, st, k) BY <1>3, <1>5, <2>1
  <2>3. PICK i \in 1 .. n : i = k + 1 OBVIOUS
  <2>4. i \in DOMAIN as /\ i \in DOMAIN ps /\ st \in SortStates(ps) BY <1>0, <2>2 DEF SortedTo
  <2>5. PICK f, g, h : SortsBy(ps, Place(ps), f) /\ SortsBy(ps, f, g) /\ SortsBy(ps, g, h)
    <3>1. ps # <<>> BY <1>0
    <3> QED BY <1>0, <3>1, PlaceIs
  <2>6. PICK l \in Nat : l = k OBVIOUS
  <2>7. SortedTo(as, ps, PlaceOne(f, st, ps, i), i)
    <3>1. SortedTo(as, ps, st, l) /\ i = l + 1 BY <2>2, <2>3, <2>6
    <3> QED BY <2>4, <2>5, <3>1, AnyTurn
  <2>8. a[k + 1] = PlaceOne(f, st, ps, i)
    <3>1. Place(ps)[i][st] = PlaceOne(f, st, ps, i) BY <2>4, <2>5 DEF SortsBy
    <3> QED BY <1>2, <2>1, <2>3, <3>1
  <2>9. SortedTo(as, ps, a[k + 1], i) BY <2>7, <2>8
  <2>10. SortedTo(as, ps, a[i], i) BY <2>3, <2>9
  <2>11. i \in 0 .. n BY <2>3
  <2> QED BY <1>3, <2>3, <2>10, <2>11
<1>6. 0 .. n \subseteq S BY <1>4, <1>5, Steps
<1>8. n \in S
  <2>1. n \in 0 .. n OBVIOUS
  <2> QED BY <1>6, <2>1
<1> QED BY <1>2, <1>3, <1>7, <1>8

\* What a chain does for those it was asked by.
Served(as, c) ==
  /\ IsInjective(c) /\ WishesMet(as, c)
  /\ \A i \in DOMAIN as :
       Has(c, as[i].name) <=> as[LastIndex(NamesOf(as), as[i].name)].op # "remove"

LEMMA ChainServes ==
  ASSUME NEW ps, NEW as, Sees(ps, as), SimpleList(as)
  PROVE  Served(as, Chain(ps)) /\ LinksOk(as, Sorted(ps).before)
<1>1. ps \in Seq(Processors) /\ DOMAIN ps = DOMAIN as BY SeesIs DEF Sees
<1>2. PICK n \in Nat : n = Len(as) /\ DOMAIN as = 1 .. n BY SeesIs
<1>3. PICK st : st = Sorted(ps) OBVIOUS
<1>4. SortedTo(as, ps, st, n)
  <2>1. SortedTo(as, ps, Sorted(ps), Len(as)) BY SortedSimple
  <2> QED BY <1>2, <1>3, <2>1
<1>5. /\ st \in SortStates(ps) /\ IsInjective(st.out) /\ LinksOk(as, st.before)
      /\ WishesMet(as, st.out) /\ \A i \in DOMAIN as : Has(st.out, as[i].name)
  BY <1>2, <1>4 DEF SortedTo
<1>6. PICK sorted : sorted = st.out OBVIOUS
<1>7. sorted \in Seq(Nat) /\ sorted = Sorted(ps).out BY <1>1, <1>3, <1>5, <1>6, SortStateIs
<1>8. PICK c : c = Chain(ps) OBVIOUS
<1>9. /\ \A m : Has(c, m) <=> Has(sorted, m) /\ ps[LastIndex(NamesOf(ps), m)].op # "remove"
      /\ \A l, m : Precedes(sorted, l, m) => Precedes(c, l, m)
      /\ IsInjective(sorted) => IsInjective(c)
  <2>1. /\ \A m : Has(Chain(ps), m) <=>
             Has(sorted, m) /\ ps[LastIndex(NamesOf(ps), m)].op # "remove"
        /\ \A l, m : Precedes(sorted, l, m) => Precedes(Chain(ps), l, m)
        /\ IsInjective(sorted) => IsInjective(Chain(ps))
    BY <1>1, <1>7, ChainFacts
  <2> QED BY <1>8, <2>1
<1>10. IsInjective(c) BY <1>5, <1>6, <1>9
<1>11. WishesMet(as, c) BY <1>5, <1>6, <1>9 DEF WishesMet
<1>12. NamesOf(ps) = NamesOf(as)
  <2>1. \A i \in DOMAIN as : ps[i].name = as[i].name BY DEF Sees
  <2> QED BY <1>1, <2>1 DEF NamesOf
<1>13. ASSUME NEW i \in DOMAIN as
       PROVE  Has(c, as[i].name) <=> as[LastIndex(NamesOf(as), as[i].name)].op # "remove"
  <2>1. PICK m : m = as[i].name OBVIOUS
  <2>2. PICK j : j = LastIndex(NamesOf(as), m) OBVIOUS
  <2>3. j \in DOMAIN as
    <3>1. /\ DOMAIN NamesOf(ps) = DOMAIN as /\ NamesOf(ps) \in Seq(Nat)
          /\ NamesOf(ps)[i] = as[i].name
      BY SeesIs
    <3>2. Has(NamesOf(ps), m) BY <2>1, <3>1 DEF Has
    <3> QED BY <1>12, <2>2, <3>1, <3>2, LastIndexIs
  <2>4. ps[j].op = as[j].op BY <2>3 DEF Sees
  <2>5. Has(sorted, m) BY <1>5, <1>6, <2>1
  <2> QED BY <1>9, <1>12, <2>1, <2>2, <2>4, <2>5
<1>14. Served(as, c) BY <1>10, <1>11, <1>13 DEF Served
<1> QED BY <1>3, <1>5, <1>8, <1>14

-----------------------------------------------------------------------------
(* What is asked for, request by request.                                    *)

More(as, bs, l) ==
  /\ as \in Seq(Processors) /\ bs \in Seq(Processors) /\ Len(as) = l /\ Len(bs) = l + 1
  /\ \A i \in 1 .. l : bs[i] = as[i]

LEMMA MoreIs ==
  ASSUME NEW as, NEW bs, NEW l \in Nat, More(as, bs, l)
  PROVE  /\ DOMAIN as = 1 .. l /\ DOMAIN bs = 1 .. l + 1 /\ l + 1 \in DOMAIN bs
         /\ \A i \in DOMAIN as : i \in DOMAIN bs /\ bs[i] = as[i] /\ i \in Nat /\ i < l + 1
         /\ \A i \in DOMAIN bs : i \in DOMAIN as \/ i = l + 1
         /\ \A i \in DOMAIN as : \A j \in 1 .. i - 1 : j \in DOMAIN as
<1>1. DOMAIN as = 1 .. l /\ DOMAIN bs = 1 .. l + 1 BY SeqFacts DEF More
<1>2. \A i \in 1 .. l : i \in 1 .. l + 1 /\ i \in Nat /\ i < l + 1 OBVIOUS
<1>3. \A i \in 1 .. l + 1 : i \in 1 .. l \/ i = l + 1 OBVIOUS
<1>4. l + 1 \in 1 .. l + 1 OBVIOUS
<1>5. \A i \in 1 .. l : \A j \in 1 .. i - 1 : j \in 1 .. l OBVIOUS
<1>6. \A i \in 1 .. l : bs[i] = as[i] BY DEF More
<1> QED BY <1>1, <1>2, <1>3, <1>4, <1>5, <1>6

\* A request makes no container simple.
LEMMA SimpleBefore ==
  ASSUME NEW as, NEW bs, NEW l \in Nat, More(as, bs, l), SimpleList(bs)
  PROVE  SimpleList(as)
<1>1. /\ \A i \in DOMAIN as : i \in DOMAIN bs /\ bs[i] = as[i]
      /\ \A i \in DOMAIN as : \A j \in 1 .. i - 1 : j \in DOMAIN as
  BY MoreIs
<1>2. ASSUME NEW i \in DOMAIN as
      PROVE  /\ as[i].before = NoName \/ as[i].after = NoName
             /\ (\E j \in 1 .. i - 1 : as[j].name = as[i].name) => Wishless(as[i])
             /\ \A n : Wishes(as, i, n) => (\E j \in 1 .. i - 1 : as[j].name = n) \/ Free(as, n)
  <2>1. /\ bs[i].before = NoName \/ bs[i].after = NoName
        /\ (\E j \in 1 .. i - 1 : bs[j].name = bs[i].name) => Wishless(bs[i])
        /\ \A n : Wishes(bs, i, n) => (\E j \in 1 .. i - 1 : bs[j].name = n) \/ Free(bs, n)
    BY <1>1 DEF SimpleList
  <2>2. bs[i] = as[i] /\ \A j \in 1 .. i - 1 : bs[j] = as[j] BY <1>1
  <2>3. \A n : Wishes(bs, i, n) <=> Wishes(as, i, n) BY <2>2 DEF Wishes
  <2>4. \A n : Free(bs, n) => Free(as, n) BY <1>1 DEF Free
  <2> QED BY <2>1, <2>2, <2>3, <2>4
<1> QED BY <1>2 DEF SimpleList

\* And what earlier sorts have left in the before fields is as good afterwards.
LEMMA LinksMore ==
  ASSUME NEW as, NEW bs, NEW l \in Nat, More(as, bs, l), NEW bf, LinksOk(as, bf),
         NEW cf, \A i \in DOMAIN as : cf[i] = bf[i], cf[l + 1] = bs[l + 1].before
  PROVE  LinksOk(bs, cf)
<1>1. /\ \A i \in DOMAIN as : i \in DOMAIN bs /\ bs[i] = as[i] /\ i \in Nat /\ i < l + 1
      /\ \A i \in DOMAIN bs : i \in DOMAIN as \/ i = l + 1
      /\ \A i \in DOMAIN as : \A j \in 1 .. i - 1 : j \in DOMAIN as
  BY MoreIs
<1>2. ASSUME NEW i \in DOMAIN as, Link(as, i, bf[i]) PROVE Link(bs, i, bf[i])
  <2>1. PICK n : n = bf[i] OBVIOUS
  <2>2. Wishless(as[i]) BY <1>2 DEF Link
  <2>3. PICK j \in DOMAIN as :
          /\ as[j].name = n /\ as[j].after = as[i].name
          /\ \A m \in DOMAIN as : as[m].name = as[i].name => j < m
          /\ \A m \in 1 .. j - 1 : ~Wishes(as, m, as[i].name)
    BY <1>2, <2>1 DEF Link
  <2>4. j \in DOMAIN bs /\ bs[j] = as[j] /\ bs[i] = as[i] BY <1>1
  <2>5. \A m \in DOMAIN bs : bs[m].name = bs[i].name => j < m BY <1>1, <2>3, <2>4
  <2>6. \A m \in 1 .. j - 1 : ~Wishes(bs, m, bs[i].name)
    <3>1. \A m \in 1 .. j - 1 : bs[m] = as[m] BY <1>1
    <3> QED BY <2>3, <2>4, <3>1 DEF Wishes
  <2> QED BY <2>1, <2>2, <2>3, <2>4, <2>5, <2>6 DEF Link
<1>3. ASSUME NEW i \in DOMAIN bs PROVE cf[i] = bs[i].before \/ Link(bs, i, cf[i])
  <2>1. CASE i = l + 1 BY <2>1
  <2>2. CASE i \in DOMAIN as
    <3>1. cf[i] = bf[i] /\ bs[i] = as[i] BY <1>1, <2>2
    <3>2. bf[i] = as[i].before \/ Link(as, i, bf[i]) BY <2>2 DEF LinksOk
    <3> QED BY <1>2, <2>2, <3>1, <3>2
  <2> QED BY <1>1, <2>1, <2>2
<1> QED BY <1>3 DEF LinksOk

-----------------------------------------------------------------------------
(* What a container was asked for, and what it does for that.                *)

Asked(k) == [i \in 1 .. conts[k].len |-> procs[Slice(k)[i]]]
FieldsOf(k) == [i \in 1 .. conts[k].len |-> before[Slice(k)[i]]]

AskedWell(k) ==
  /\ Asked(k) \in Seq(Processors) /\ conts[k].len \in Nat /\ Len(Asked(k)) = conts[k].len
  /\ DOMAIN Asked(k) = 1 .. conts[k].len /\ DOMAIN Slice(k) = 1 .. conts[k].len
  /\ \A i \in 1 .. conts[k].len :
       /\ Asked(k)[i] = procs[Slice(k)[i]] /\ FieldsOf(k)[i] = before[Slice(k)[i]]
       /\ Slice(k)[i] = arrays[conts[k].array][i] /\ Slice(k)[i] \in DOMAIN procs

LEMMA AskedIs ==
  ASSUME RegistryInv, NEW k \in DOMAIN conts
  PROVE  AskedWell(k)
<1>1. /\ Slice(k) \in Seq(DOMAIN procs) /\ conts[k].len \in Nat
      /\ DOMAIN Slice(k) = 1 .. conts[k].len
      /\ \A i \in 1 .. conts[k].len : Slice(k)[i] = arrays[conts[k].array][i]
  BY SliceIs
<1>2. \A i \in 1 .. conts[k].len : Slice(k)[i] \in DOMAIN procs BY <1>1, SeqFacts
<1>3. \A q \in DOMAIN procs : procs[q] \in Processors BY SeqFacts DEF RegistryInv, RegistryTypes
<1>4. PICK n \in Nat : n = conts[k].len BY <1>1
<1>5. PICK as : as = Asked(k) OBVIOUS
<1>6. as = [i \in 1 .. n |-> procs[Slice(k)[i]]] BY <1>4, <1>5 DEF Asked
<1>7. as \in [1 .. n -> Processors] BY <1>2, <1>3, <1>4, <1>6
<1>8. as \in Seq(Processors) /\ Len(as) = n /\ DOMAIN as = 1 .. n BY <1>7, IsSeq
<1>9. \A i \in 1 .. n : as[i] = procs[Slice(k)[i]] /\ FieldsOf(k)[i] = before[Slice(k)[i]]
  BY <1>4, <1>6 DEF FieldsOf
<1> QED BY <1>1, <1>2, <1>4, <1>5, <1>8, <1>9 DEF AskedWell

\* The same of the state after a step.
LEMMA AskedAfter ==
  ASSUME RegistryInv', NEW k \in DOMAIN conts'
  PROVE  AskedWell(k)'
<1>1. /\ procs' \in Seq(Processors) /\ SliceFront(k)' /\ arrays' \in Seq(Seq(Nat))
      /\ conts'[k] \in Containers
  BY SeqFacts DEF RegistryInv, RegistryTypes
<1>2. \A q \in DOMAIN procs' : procs'[q] \in Processors BY <1>1, SeqFacts
<1>3. PICK n \in Nat : n = conts'[k].len BY <1>1 DEF Containers
<1>4. PICK a : a = arrays'[conts'[k].array] OBVIOUS
<1>5. a \in Seq(Nat) /\ n <= Len(a) /\ \A i \in 1 .. n : a[i] \in DOMAIN procs'
  <2>1. /\ conts'[k].array \in DOMAIN arrays' /\ n <= Len(a)
        /\ \A i \in 1 .. n : a[i] \in DOMAIN procs'
    BY <1>1, <1>3, <1>4 DEF SliceFront
  <2> QED BY <1>1, <1>4, <2>1, SeqFacts
<1>6. PICK s : s = SubSeq(a, 1, n) OBVIOUS
<1>7. s \in Seq(Nat) /\ Len(s) = n /\ DOMAIN s = 1 .. n /\ \A i \in 1 .. n : s[i] = a[i]
  BY <1>5, <1>6
<1>8. Slice(k)' = s BY <1>3, <1>4, <1>6 DEF Slice
<1>9. PICK as : as = Asked(k)' OBVIOUS
<1>10. as = [i \in 1 .. n |-> procs'[s[i]]] BY <1>3, <1>8, <1>9 DEF Asked
<1>11. as \in [1 .. n -> Processors] BY <1>2, <1>5, <1>7, <1>10
<1>12. as \in Seq(Processors) /\ Len(as) = n /\ DOMAIN as = 1 .. n BY <1>11, IsSeq
<1>13. \A i \in 1 .. n : as[i] = procs'[s[i]] /\ FieldsOf(k)'[i] = before'[s[i]]
  BY <1>3, <1>8, <1>10 DEF FieldsOf
<1> QED BY <1>3, <1>4, <1>5, <1>7, <1>8, <1>9, <1>12, <1>13 DEF AskedWell

\* A container like one before the step, whose part of the array and whose
\* processors are left alone.
Kept(j, m) ==
  /\ j \in DOMAIN conts /\ m \in DOMAIN conts' /\ conts'[m] = conts[j]
  /\ \A i \in 1 .. conts[j].len : /\ arrays'[conts[j].array][i] = arrays[conts[j].array][i]
                                  /\ procs'[Slice(j)[i]] = procs[Slice(j)[i]]

LEMMA KeptIs ==
  ASSUME RegistryInv, RegistryInv', NEW j, NEW m, Kept(j, m)
  PROVE  Asked(m)' = Asked(j) /\ \A i \in 1 .. conts[j].len : Slice(m)'[i] = Slice(j)[i]
<1>0. j \in DOMAIN conts /\ m \in DOMAIN conts' /\ conts'[m] = conts[j] BY DEF Kept
<1>1. AskedWell(j) /\ AskedWell(m)' BY <1>0, AskedIs, AskedAfter
<1>2. PICK n : n = conts[j].len OBVIOUS
<1>3. n = conts'[m].len BY <1>0, <1>2
<1>4. \A i \in 1 .. n : Slice(m)'[i] = Slice(j)[i]
  <2>1. \A i \in 1 .. n : Slice(j)[i] = arrays[conts[j].array][i] BY <1>1, <1>2 DEF AskedWell
  <2>2. \A i \in 1 .. n : Slice(m)'[i] = arrays'[conts[j].array][i]
    BY <1>0, <1>1, <1>3 DEF AskedWell
  <2>3. \A i \in 1 .. n : arrays'[conts[j].array][i] = arrays[conts[j].array][i]
    BY <1>2 DEF Kept
  <2> QED BY <2>1, <2>2, <2>3
<1>5. \A i \in 1 .. n : procs'[Slice(m)'[i]] = procs[Slice(j)[i]] BY <1>2, <1>4 DEF Kept
<1>6. Asked(m)' = [i \in 1 .. n |-> procs'[Slice(m)'[i]]] BY <1>3 DEF Asked
<1>7. Asked(j) = [i \in 1 .. n |-> procs[Slice(j)[i]]] BY <1>2 DEF Asked
<1> QED BY <1>2, <1>4, <1>5, <1>6, <1>7

\* Every container serves those it was asked by, if they are simple; ...
ServedAt(k) == SimpleList(Asked(k)) => Served(Asked(k), conts[k].chain)

\* ... the next one to sort has distinct processors, with good before fields, and
\* nobody who shares its array has more of it.
ReadyAt(k) ==
  /\ \A i, j \in 1 .. conts[k].len : Slice(k)[i] = Slice(k)[j] => i = j
  /\ SimpleList(Asked(k)) => LinksOk(Asked(k), FieldsOf(k))
  /\ \A j \in DOMAIN conts : conts[j].array = conts[k].array => conts[j].len <= conts[k].len

PlacedInv ==
  /\ RegistryInv
  /\ \A k \in DOMAIN conts : ServedAt(k)
  /\ \A u \in Writers : ReadyAt(current[u])

LEMMA KeptServes ==
  ASSUME RegistryInv, RegistryInv', NEW j, NEW m, Kept(j, m), ServedAt(j)
  PROVE  ServedAt(m)'
<1>1. Asked(m)' = Asked(j) BY KeptIs
<1>2. conts'[m] = conts[j] BY DEF Kept
<1> QED BY <1>1, <1>2 DEF ServedAt

\* What the init functions ask for is served in their order, which is that of Open's clones.
LEMMA PlacedInit == RegistryInit => PlacedInv
<1> SUFFICES ASSUME RegistryInit PROVE PlacedInv OBVIOUS
<1>0. RegistryInv BY RegistryInit_Inv
<1>1. /\ Len(Base) \in Nat /\ DOMAIN Base = 1 .. Len(Base) /\ Base \in Seq(Nat \ {NoName})
      /\ IsInjective(Base)
  BY BaseIs, RegistryAssumption
<1>2. ASSUME NEW k \in DOMAIN conts
      PROVE  /\ conts[k].array = 1 /\ conts[k].len = Len(Base) /\ conts[k].chain = Base
             /\ AskedWell(k) /\ DOMAIN Asked(k) = DOMAIN Base
             /\ \A i \in DOMAIN Base : /\ Slice(k)[i] = i /\ Asked(k)[i] = Default(i)
                                       /\ FieldsOf(k)[i] = NoName
  <2>1. conts[k].array = 1 /\ conts[k].len = Len(Base) /\ conts[k].chain = Base
    <3>1. DOMAIN conts = 1 .. Handles + 1 BY DEF RegistryInit
    <3>2. conts[k] = [array |-> 1, len |-> Len(Base), chain |-> Base] BY <3>1 DEF RegistryInit
    <3> QED BY <3>2
  <2>2. AskedWell(k) BY <1>0, AskedIs
  <2>3. SliceFront(k) BY <1>0 DEF RegistryInv
  <2>4. \A i \in DOMAIN Base : Slice(k)[i] = i
    <3>1. \A i \in DOMAIN Base : i \in 1 .. conts[k].len /\ i <= Len(Base) BY <1>1, <2>1
    <3> QED BY <2>2, <2>3, <3>1 DEF AskedWell, SliceFront
  <2>5. ASSUME NEW i \in DOMAIN Base PROVE Asked(k)[i] = Default(i) /\ FieldsOf(k)[i] = NoName
    <3>1. i \in 1 .. conts[k].len BY <1>1, <2>1
    <3>2. procs[i] = Default(i) /\ before[i] = NoName BY <1>0 DEF RegistryInv
    <3> QED BY <2>2, <2>4, <3>1, <3>2 DEF AskedWell
  <2>6. DOMAIN Asked(k) = DOMAIN Base BY <1>1, <2>1, <2>2 DEF AskedWell
  <2> QED BY <2>1, <2>2, <2>4, <2>5, <2>6
<1>3. \A i : /\ Default(i).name = Base[i] /\ Default(i).op = "register"
              /\ Default(i).before = NoName /\ Default(i).after = NoName
  BY DEF Default
<1>4. ASSUME NEW k \in DOMAIN conts PROVE ServedAt(k)
  <2>1. PICK as : as = Asked(k) OBVIOUS
  <2>2. DOMAIN as = DOMAIN Base /\ as \in Seq(Processors) BY <1>2, <2>1 DEF AskedWell
  <2>3. \A i \in DOMAIN as : /\ as[i].name = Base[i] /\ as[i].op = "register"
                             /\ as[i].before = NoName /\ as[i].after = NoName
    <3>1. \A i \in DOMAIN as : as[i] = Default(i) BY <1>2, <2>1, <2>2
    <3> QED BY <1>3, <3>1
  <2>4. WishesMet(as, Base) BY <2>3 DEF WishesMet
  <2>5. ASSUME NEW i \in DOMAIN as
        PROVE  Has(Base, as[i].name) <=> as[LastIndex(NamesOf(as), as[i].name)].op # "remove"
    <3>1. Has(Base, as[i].name) BY <2>2, <2>3 DEF Has
    <3>2. /\ NamesOf(as) \in Seq(Nat) /\ DOMAIN NamesOf(as) = DOMAIN as
          /\ NamesOf(as)[i] = as[i].name
      BY <2>2, NamesAre
    <3>3. PICK m : m = as[i].name OBVIOUS
    <3>4. Has(NamesOf(as), m) BY <3>2, <3>3 DEF Has
    <3>5. LastIndex(NamesOf(as), m) \in DOMAIN as BY <3>2, <3>4, LastIndexIs
    <3> QED BY <2>3, <3>1, <3>3, <3>5
  <2>6. Served(as, Base) BY <1>1, <2>4, <2>5 DEF Served
  <2> QED BY <1>2, <2>1, <2>6 DEF ServedAt
<1>5. ASSUME NEW u \in Writers PROVE ReadyAt(current[u])
  <2>1. PICK k \in DOMAIN conts : k = current[u]
    <3>1. u \in Owners BY RegistryAssumption
    <3> QED BY <1>0, <3>1 DEF RegistryInv, RegistryTypes
  <2>2. \A i, j \in 1 .. conts[k].len : Slice(k)[i] = Slice(k)[j] => i = j BY <1>1, <1>2
  <2>3. LinksOk(Asked(k), FieldsOf(k))
    <3>1. \A i \in DOMAIN Base : Asked(k)[i].before = NoName /\ FieldsOf(k)[i] = NoName
      BY <1>2, <1>3
    <3> QED BY <1>2, <3>1 DEF LinksOk
  <2>4. \A j \in DOMAIN conts : conts[j].len <= conts[k].len BY <1>1, <1>2
  <2> QED BY <2>1, <2>2, <2>3, <2>4 DEF ReadyAt
<1> QED BY <1>0, <1>4, <1>5 DEF PlacedInv

\* DB.Callback: the clone serves the same, and its handle goes on with it.
LEMMA PlacedCallback ==
  ASSUME PlacedInv, NEW u \in Owners, Callback(u)
  PROVE  PlacedInv'
<1>0. RegistryInv /\ RegistryInv' BY CallbackKeeps DEF PlacedInv
<1>1. /\ conts \in Seq(Containers) /\ current \in [Owners -> DOMAIN conts]
      /\ current' \in [Owners -> DOMAIN conts']
  BY <1>0 DEF RegistryInv, RegistryTypes
<1>2. PICK c : c = conts[current[u]] OBVIOUS
<1>3. PICK n \in Nat : n = Len(conts) BY <1>1, SeqFacts
<1>4. conts' = Append(conts, c) /\ current' = [current EXCEPT ![u] = n + 1]
  BY <1>2, <1>3 DEF Callback
<1>5. current[u] \in DOMAIN conts /\ c \in Containers BY <1>1, <1>2, SeqFacts
<1>6. /\ DOMAIN conts' = 1 .. n + 1 /\ DOMAIN conts = 1 .. n
      /\ conts'[n + 1] = c /\ \A k \in 1 .. n : conts'[k] = conts[k]
  BY <1>1, <1>3, <1>4, <1>5
<1>7. UNCHANGED <<procs, before, arrays>> BY DEF Callback
<1>8. ASSUME NEW m \in DOMAIN conts'
      PROVE  \E j \in DOMAIN conts : Kept(j, m)
  <2>1. PICK j \in DOMAIN conts : conts'[m] = conts[j]
    <3>1. CASE m = n + 1 BY <1>2, <1>5, <1>6, <3>1
    <3>2. CASE m # n + 1 BY <1>3, <1>6, <3>2
    <3> QED BY <3>1, <3>2
  <2>2. Kept(j, m) BY <1>7, <2>1 DEF Kept
  <2> QED BY <2>2
<1>9. ASSUME NEW m \in DOMAIN conts' PROVE ServedAt(m)'
  <2>1. PICK j \in DOMAIN conts : Kept(j, m) BY <1>8
  <2>2. ServedAt(j) BY DEF PlacedInv
  <2> QED BY <1>0, <2>1, <2>2, KeptServes
<1>10. ASSUME NEW v \in Writers PROVE ReadyAt(current[v])'
  <2>0. v \in Owners BY RegistryAssumption
  <2>1. PICK m : m = current'[v] OBVIOUS
  <2>2. PICK j : j = current[v] OBVIOUS
  <2>3. m \in DOMAIN conts' /\ j \in DOMAIN conts BY <1>1, <2>0, <2>1, <2>2
  <2>4. conts'[m] = conts[j]
    <3>1. CASE v = u BY <1>1, <1>2, <1>4, <1>6, <2>0, <2>1, <2>2, <3>1
    <3>2. CASE v # u
      <4>1. m = j BY <1>1, <1>4, <2>0, <2>1, <2>2, <3>2
      <4> QED BY <1>6, <2>3, <4>1
    <3> QED BY <3>1, <3>2
  <2>5. Kept(j, m) BY <1>7, <2>3, <2>4 DEF Kept
  <2>6. Asked(m)' = Asked(j) /\ \A i \in 1 .. conts[j].len : Slice(m)'[i] = Slice(j)[i]
    BY <1>0, <2>5, KeptIs
  <2>7. ReadyAt(j) BY <2>2 DEF PlacedInv
  <2>8. PICK len : len = conts[j].len OBVIOUS
  <2>9. conts'[m].len = len /\ conts'[m].array = conts[j].array BY <2>4, <2>8
  <2>10. \A i, k \in 1 .. len : Slice(m)'[i] = Slice(m)'[k] => i = k
    BY <2>6, <2>7, <2>8 DEF ReadyAt
  <2>11. FieldsOf(m)' = FieldsOf(j)
    <3>1. FieldsOf(m)' = [i \in 1 .. len |-> before'[Slice(m)'[i]]] BY <2>9 DEF FieldsOf
    <3>2. FieldsOf(j) = [i \in 1 .. len |-> before[Slice(j)[i]]] BY <2>8 DEF FieldsOf
    <3> QED BY <1>7, <2>6, <2>8, <3>1, <3>2
  <2>12. SimpleList(Asked(m)') => LinksOk(Asked(m)', FieldsOf(m)')
    BY <2>6, <2>7, <2>11 DEF ReadyAt
  <2>13. ASSUME NEW k \in DOMAIN conts', conts'[k].array = conts'[m].array
         PROVE  conts'[k].len <= conts'[m].len
    <3>1. PICK i \in DOMAIN conts : Kept(i, k) BY <1>8
    <3>2. conts'[k] = conts[i] BY <3>1 DEF Kept
    <3>3. conts[i].len <= len BY <2>7, <2>8, <2>9, <2>13, <3>2 DEF ReadyAt
    <3> QED BY <2>9, <3>2, <3>3
  <2>14. ReadyAt(m)' BY <2>9, <2>10, <2>12, <2>13 DEF ReadyAt
  <2> QED BY <2>1, <2>14
<1> QED BY <1>0, <1>9, <1>10 DEF PlacedInv

\* Register, Replace and Remove write one more entry of one array, and one container.
Extends(k, r, ps, l, p) ==
  /\ DOMAIN conts' = DOMAIN conts /\ \A j \in DOMAIN conts : j # k => conts'[j] = conts[j]
  /\ conts'[k].len = l + 1 /\ conts'[k].chain = Chain(ps)
  /\ conts'[k].array = conts[k].array \/ conts'[k].array \notin DOMAIN arrays
  /\ arrays'[conts'[k].array][l + 1] = p
  /\ \A i \in 1 .. l : arrays'[conts'[k].array][i] = arrays[conts[k].array][i]
  /\ \A a \in DOMAIN arrays : \A i \in DOMAIN arrays[a] :
       arrays'[a][i] = arrays[a][i] \/ (a = conts[k].array /\ i = l + 1)
  /\ DOMAIN procs = 1 .. p - 1 /\ DOMAIN procs' = 1 .. p /\ procs'[p] = r
  /\ \A q \in 1 .. p - 1 : procs'[q] = procs[q]
  /\ current' = current

Reaches(k, p, app, l) ==
  /\ app.arrays[app.array][l + 1] = p
  /\ \A i \in 1 .. l : app.arrays[app.array][i] = arrays[conts[k].array][i]
  /\ \A a \in DOMAIN arrays : \A i \in DOMAIN arrays[a] :
       app.arrays[a][i] = arrays[a][i] \/ (a = conts[k].array /\ i = l + 1)

LEMMA AppendReaches ==
  ASSUME RegistryInv, NEW k \in DOMAIN conts, NEW p \in Nat, NEW app, app = Appended(k, p),
         NEW l, l = conts[k].len
  PROVE  Reaches(k, p, app, l)
<1>1. /\ app.arrays \in Seq(Seq(Nat)) /\ app.array \in DOMAIN app.arrays
      /\ Len(app.arrays) >= Len(arrays)
      /\ l + 1 <= Len(app.arrays[app.array])
      /\ app.arrays[app.array][l + 1] = p
      /\ \A i \in 1 .. l : app.arrays[app.array][i] = arrays[conts[k].array][i]
      /\ \A a \in DOMAIN arrays :
          /\ a \in DOMAIN app.arrays /\ Len(app.arrays[a]) = Len(arrays[a])
          /\ \A i \in DOMAIN arrays[a] :
               \/ app.arrays[a][i] = arrays[a][i]
               \/ a = conts[k].array /\ i = l + 1 /\ app.arrays[a][i] = p
  BY AppendedIs, ZenonT(60)
<1> QED BY <1>1 DEF Reaches

LEMMA AskDoes ==
  ASSUME RegistryInv, RegistryInv', NEW u \in Owners, NEW r \in Requests, Ask(u, r),
         NEW k, k = current[u], NEW ps, ps = Append(Objects(Slice(k)), r),
         NEW l \in Nat, l = conts[k].len, NEW p \in Nat, p = Len(procs) + 1
  PROVE  Extends(k, r, ps, l, p)
<1>1. /\ k \in DOMAIN conts /\ conts \in Seq(Containers) /\ procs \in Seq(Processors)
      /\ arrays \in Seq(Seq(Nat))
  BY DEF RegistryInv, RegistryTypes
<1>2. r \in Processors BY RegistryAssumption DEF Processors
<1>3. PICK app : app = Appended(k, p) OBVIOUS
<1>4. PICK c : c = [array |-> app.array, len |-> l + 1, chain |-> Chain(ps)] OBVIOUS
<1>5. arrays' = app.arrays /\ conts' = [conts EXCEPT ![k] = c] /\ current' = current
  <2>1. Len(Append(Slice(k), p)) = l + 1 BY <1>1, SliceIs
  <2>2. /\ arrays' = Appended(k, p).arrays /\ current' = current
        /\ conts' = [conts EXCEPT ![k] =
             [array |-> Appended(k, p).array, len |-> Len(Append(Slice(k), p)),
              chain |-> Chain(ps)]]
    BY Zenon DEF Ask
  <2> QED BY <1>3, <1>4, <2>1, <2>2
<1>6. /\ DOMAIN conts' = DOMAIN conts /\ conts'[k] = c
      /\ \A j \in DOMAIN conts : j # k => conts'[j] = conts[j]
  BY <1>1, <1>5
<1>7. conts'[k].array = app.array /\ conts'[k].len = l + 1 /\ conts'[k].chain = Chain(ps)
  BY <1>4, <1>6
<1>8. app.array = conts[k].array \/ app.array \notin DOMAIN arrays
  <2>1. app.array = conts[k].array \/ app.array = Len(arrays) + 1 BY <1>3 DEF Appended
  <2>2. DOMAIN arrays = 1 .. Len(arrays) /\ Len(arrays) \in Nat BY <1>1, SeqFacts
  <2>3. Len(arrays) + 1 \notin 1 .. Len(arrays) BY <2>2
  <2> QED BY <2>1, <2>2, <2>3
<1>9. /\ app.arrays[app.array][l + 1] = p
      /\ \A i \in 1 .. l : app.arrays[app.array][i] = arrays[conts[k].array][i]
      /\ \A a \in DOMAIN arrays : \A i \in DOMAIN arrays[a] :
           app.arrays[a][i] = arrays[a][i] \/ (a = conts[k].array /\ i = l + 1)
  <2>1. k \in DOMAIN conts BY <1>1
  <2>2. Reaches(k, p, app, l) BY <1>3, <2>1, AppendReaches
  <2> QED BY <2>2 DEF Reaches
<1>10. /\ DOMAIN procs = 1 .. p - 1 /\ DOMAIN procs' = 1 .. p /\ procs'[p] = r
       /\ \A q \in 1 .. p - 1 : procs'[q] = procs[q]
  <2>1. procs' = Append(procs, r) BY DEF Ask
  <2>2. Len(procs) = p - 1 /\ DOMAIN procs = 1 .. p - 1
    <3>1. Len(procs) \in Nat /\ DOMAIN procs = 1 .. Len(procs) BY <1>1, SeqFacts
    <3> QED BY <3>1
  <2> QED BY <1>1, <1>2, <2>1, <2>2
<1> QED BY <1>5, <1>6, <1>7, <1>8, <1>9, <1>10 DEF Extends

\* Other containers keep what they have, unless they share the array and have more of it.
LEMMA OthersKept ==
  ASSUME RegistryInv, RegistryInv', NEW k \in DOMAIN conts, NEW r, NEW ps,
         NEW l \in Nat, l = conts[k].len, NEW p \in Nat, Extends(k, r, ps, l, p), ReadyAt(k),
         NEW j \in DOMAIN conts, j # k
  PROVE  Kept(j, j)
<1>1. j \in DOMAIN conts' /\ conts'[j] = conts[j] BY DEF Extends
<1>2. PICK n : n = conts[j].len OBVIOUS
<1>3. PICK a : a = conts[j].array OBVIOUS
<1>4. AskedWell(j) BY AskedIs
<1>5. n \in Nat /\ a \in DOMAIN arrays /\ \A i \in 1 .. n : i \in DOMAIN arrays[a]
  <2>1. SliceFront(j) BY DEF RegistryInv
  <2>2. n \in Nat /\ a \in DOMAIN arrays /\ n <= Len(arrays[a])
    BY <1>2, <1>3, <1>4, <2>1 DEF SliceFront, AskedWell
  <2>3. arrays[a] \in Seq(Nat) BY <2>2, SeqFacts DEF RegistryInv, RegistryTypes
  <2>4. DOMAIN arrays[a] = 1 .. Len(arrays[a]) /\ Len(arrays[a]) \in Nat BY <2>3, SeqFacts
  <2> QED BY <2>2, <2>4
<1>6. a = conts[k].array => n <= l BY <1>2, <1>3 DEF ReadyAt
<1>7. ASSUME NEW i \in 1 .. n
      PROVE  arrays'[a][i] = arrays[a][i] /\ procs'[Slice(j)[i]] = procs[Slice(j)[i]]
  <2>1. ~(a = conts[k].array /\ i = l + 1) BY <1>5, <1>6
  <2>2. arrays'[a][i] = arrays[a][i] BY <1>5, <2>1 DEF Extends
  <2>3. Slice(j)[i] \in DOMAIN procs BY <1>2, <1>4 DEF AskedWell
  <2>4. procs'[Slice(j)[i]] = procs[Slice(j)[i]] BY <2>3 DEF Extends
  <2> QED BY <2>2, <2>4
<1> QED BY <1>1, <1>2, <1>3, <1>7 DEF Kept

\* The container has one request more, and one processor.
OneAsked(k, as, bs, l, r, p) ==
  /\ More(as, bs, l) /\ bs[l + 1] = r /\ DOMAIN as = 1 .. l /\ DOMAIN bs = 1 .. l + 1
  /\ Slice(k)'[l + 1] = p /\ \A i \in 1 .. l : Slice(k)'[i] = Slice(k)[i]
  /\ \A i \in 1 .. l + 1 : FieldsOf(k)'[i] = before'[Slice(k)'[i]] /\ Slice(k)'[i] \in 1 .. p
  /\ \A i, j \in 1 .. l + 1 : Slice(k)'[i] = Slice(k)'[j] => i = j

LEMMA OneAskedIs ==
  ASSUME RegistryInv, RegistryInv', NEW k \in DOMAIN conts, NEW r \in Processors, NEW ps,
         NEW l \in Nat, l = conts[k].len, NEW p \in Nat, Extends(k, r, ps, l, p), ReadyAt(k),
         NEW as, as = Asked(k), NEW bs, bs = Asked(k)'
  PROVE  OneAsked(k, as, bs, l, r, p)
<1>1. k \in DOMAIN conts' /\ conts'[k].len = l + 1 BY DEF Extends
<1>2. AskedWell(k) /\ AskedWell(k)' BY <1>1, AskedIs, AskedAfter
<1>3. /\ as \in Seq(Processors) /\ Len(as) = l /\ DOMAIN as = 1 .. l
      /\ \A i \in 1 .. l : /\ as[i] = procs[Slice(k)[i]] /\ Slice(k)[i] \in DOMAIN procs
                           /\ Slice(k)[i] = arrays[conts[k].array][i]
  BY <1>2 DEF AskedWell
<1>4. /\ bs \in Seq(Processors) /\ Len(bs) = l + 1 /\ DOMAIN bs = 1 .. l + 1
      /\ \A i \in 1 .. l + 1 : /\ bs[i] = procs'[Slice(k)'[i]] /\ Slice(k)'[i] \in DOMAIN procs'
                               /\ FieldsOf(k)'[i] = before'[Slice(k)'[i]]
                               /\ Slice(k)'[i] = arrays'[conts'[k].array][i]
  BY <1>1, <1>2 DEF AskedWell
<1>5. l + 1 \in 1 .. l + 1 /\ \A i \in 1 .. l : i \in 1 .. l + 1 OBVIOUS
<1>6. \A i \in 1 .. l : Slice(k)'[i] = Slice(k)[i] BY <1>3, <1>4, <1>5 DEF Extends
<1>7. Slice(k)'[l + 1] = p BY <1>4, <1>5 DEF Extends
<1>8. /\ DOMAIN procs = 1 .. p - 1 /\ DOMAIN procs' = 1 .. p /\ procs'[p] = r
      /\ \A q \in 1 .. p - 1 : procs'[q] = procs[q]
  BY DEF Extends
<1>9. bs[l + 1] = r BY <1>4, <1>5, <1>7, <1>8
<1>10. \A i \in 1 .. l : bs[i] = as[i] BY <1>3, <1>4, <1>5, <1>6, <1>8
<1>11. More(as, bs, l) BY <1>3, <1>4, <1>10 DEF More
<1>12. ASSUME NEW i \in 1 .. l + 1, NEW j \in 1 .. l + 1, Slice(k)'[i] = Slice(k)'[j]
       PROVE  i = j
  <2>1. \A m \in 1 .. l : Slice(k)'[m] # p
    <3>1. p \notin 1 .. p - 1 OBVIOUS
    <3> QED BY <1>3, <1>6, <1>8, <3>1
  <2>2. CASE i = l + 1 \/ j = l + 1
    <3>1. \A m \in 1 .. l + 1 : m \in 1 .. l \/ m = l + 1 OBVIOUS
    <3> QED BY <1>7, <1>12, <2>1, <2>2, <3>1
  <2>3. CASE i # l + 1 /\ j # l + 1
    <3>1. i \in 1 .. l /\ j \in 1 .. l BY <2>3
    <3>2. Slice(k)[i] = Slice(k)[j] BY <1>6, <1>12, <3>1
    <3> QED BY <3>1, <3>2 DEF ReadyAt
  <2> QED BY <2>2, <2>3
<1>13. \A i \in 1 .. l + 1 : FieldsOf(k)'[i] = before'[Slice(k)'[i]] /\ Slice(k)'[i] \in 1 .. p
  BY <1>4, <1>8
<1> QED BY <1>3, <1>4, <1>6, <1>7, <1>9, <1>11, <1>12, <1>13 DEF OneAsked

\* What is sorted then is what was asked for, with good before fields.
LEMMA AskSees ==
  ASSUME RegistryInv, NEW k, NEW r \in Processors, NEW ps, NEW l \in Nat, l = conts[k].len,
         NEW p \in Nat, Sorts(k, r, ps, l, p), ReadyAt(k),
         NEW as, as = Asked(k), NEW bs, OneAsked(k, as, bs, l, r, p), SimpleList(bs)
  PROVE  Sees(ps, bs)
<1>0. /\ k \in DOMAIN conts /\ ps \in Seq(Processors) /\ Len(ps) = l + 1 /\ ps[l + 1] = r
      /\ \A i \in 1 .. l : ps[i] = Objects(Slice(k))[i]
  BY DEF Sorts
<1>1. /\ More(as, bs, l) /\ bs[l + 1] = r /\ DOMAIN as = 1 .. l /\ DOMAIN bs = 1 .. l + 1
  BY DEF OneAsked
<1>2. /\ bs \in Seq(Processors) /\ Len(bs) = l + 1 /\ \A i \in 1 .. l : bs[i] = as[i]
  BY <1>1 DEF More
<1>3. SimpleList(as) BY <1>1, SimpleBefore
<1>4. PICK bf : bf = FieldsOf(k) OBVIOUS
<1>5. LinksOk(as, bf) BY <1>3, <1>4 DEF ReadyAt
<1>6. AskedWell(k) BY <1>0, AskedIs
<1>7. ASSUME NEW i \in 1 .. l
      PROVE  /\ ps[i].name = as[i].name /\ ps[i].after = as[i].after /\ ps[i].op = as[i].op
             /\ ps[i].before = bf[i]
  <2>1. Objects(Slice(k))[i] = [procs[Slice(k)[i]] EXCEPT !.before = before[Slice(k)[i]]]
    BY <1>0, SliceIs
  <2>2. as[i] = procs[Slice(k)[i]] /\ bf[i] = before[Slice(k)[i]] BY <1>4, <1>6 DEF AskedWell
  <2>3. as[i] \in Processors BY <1>1, SeqFacts DEF More
  <2>4. ps[i] = [as[i] EXCEPT !.before = bf[i]] BY <1>0, <2>1, <2>2
  <2> QED BY <2>3, <2>4 DEF Processors
<1>8. \A i \in 1 .. l + 1 : i \in 1 .. l \/ i = l + 1 OBVIOUS
<1>9. PICK cf : cf = Unsorted(ps).before OBVIOUS
<1>10. \A i \in 1 .. l + 1 : cf[i] = ps[i].before
  <2>1. DOMAIN ps = 1 .. l + 1 BY <1>0, SeqFacts
  <2> QED BY <1>9, <2>1 DEF Unsorted
<1>11. LinksOk(bs, cf)
  <2>1. \A i \in DOMAIN as : cf[i] = bf[i]
    <3>1. \A i \in 1 .. l : i \in 1 .. l + 1 OBVIOUS
    <3> QED BY <1>1, <1>7, <1>10, <3>1
  <2>2. cf[l + 1] = bs[l + 1].before
    <3>1. l + 1 \in 1 .. l + 1 OBVIOUS
    <3> QED BY <1>0, <1>1, <1>10, <3>1
  <2> QED BY <1>1, <1>5, <2>1, <2>2, LinksMore
<1>12. \A i \in DOMAIN bs : /\ ps[i].name = bs[i].name /\ ps[i].after = bs[i].after
                            /\ ps[i].op = bs[i].op
  BY <1>0, <1>1, <1>2, <1>7, <1>8
<1> QED BY <1>0, <1>2, <1>9, <1>11, <1>12 DEF Sees

\* Sorting leaves the fields it worked with in the objects, each of which it met once.
SameOn(bs, cf, bf) == \A i \in DOMAIN bs : cf[i] = bf[i]
SortsOne(k, r, ps, l, p, as, bs, bf, cf) ==
  /\ l \in Nat /\ p \in Nat /\ Sorts(k, r, ps, l, p) /\ OneAsked(k, as, bs, l, r, p)
  /\ bf = Sorted(ps).before /\ cf = FieldsOf(k)'

LEMMA FieldsLeft ==
  ASSUME NEW k, NEW r, NEW ps, NEW l, NEW p, NEW as, NEW bs, NEW bf, NEW cf,
         SortsOne(k, r, ps, l, p, as, bs, bf, cf)
  PROVE  SameOn(bs, cf, bf)
<1> /\ l \in Nat /\ p \in Nat /\ Sorts(k, r, ps, l, p) /\ OneAsked(k, as, bs, l, r, p)
    /\ bf = Sorted(ps).before /\ cf = FieldsOf(k)'
  BY DEF SortsOne
<1>0. DOMAIN bs = 1 .. l + 1 BY DEF OneAsked
<1> SUFFICES ASSUME NEW i \in 1 .. l + 1 PROVE FieldsOf(k)'[i] = bf[i] BY <1>0 DEF SameOn
<1>1. PICK q : q = Slice(k)'[i] OBVIOUS
<1>2. q \in 1 .. p /\ FieldsOf(k)'[i] = before'[q] BY <1>1 DEF OneAsked
<1>3. \/ /\ q # p /\ \A j \in 1 .. l : Slice(k)[j] # q
         /\ before'[q] = before[q]
      \/ \E j \in 1 .. l + 1 : /\ IF j = l + 1 THEN q = p ELSE Slice(k)[j] = q
                               /\ before'[q] = bf[j]
  BY <1>2 DEF Sorts
<1>4. /\ Slice(k)'[l + 1] = p /\ \A j \in 1 .. l : Slice(k)'[j] = Slice(k)[j]
      /\ \A j, m \in 1 .. l + 1 : Slice(k)'[j] = Slice(k)'[m] => j = m
  BY DEF OneAsked
<1>5. \A j \in 1 .. l + 1 : j \in 1 .. l \/ j = l + 1 OBVIOUS
<1>6. ~(q # p /\ \A j \in 1 .. l : Slice(k)[j] # q) BY <1>1, <1>4, <1>5
<1>7. PICK j \in 1 .. l + 1 : /\ IF j = l + 1 THEN q = p ELSE Slice(k)[j] = q
                              /\ before'[q] = bf[j]
  BY <1>3, <1>6
<1>8. Slice(k)'[j] = q BY <1>4, <1>5, <1>7
<1>9. i = j BY <1>1, <1>4, <1>8
<1> QED BY <1>2, <1>7, <1>9

\* One user registers callbacks: the container that grows serves all it was asked by.
LEMMA PlacedAsk ==
  ASSUME PlacedInv, NEW w \in Owners, Writers \subseteq {w}, NEW r \in Requests, Ask(w, r),
         w \in Writers
  PROVE  PlacedInv'
<1>0. RegistryInv /\ RegistryInv' BY AskKeeps DEF PlacedInv
<1>1. PICK k \in DOMAIN conts : k = current[w] BY <1>0 DEF RegistryInv, RegistryTypes
<1>2. PICK ps : ps = Append(Objects(Slice(k)), r) OBVIOUS
<1>3. PICK l \in Nat : l = conts[k].len BY <1>0, SliceIs
<1>4. PICK p \in Nat : p = Len(procs) + 1
  <2>1. Len(procs) \in Nat BY <1>0, SeqFacts DEF RegistryInv, RegistryTypes
  <2> QED BY <2>1
<1>5. Sorts(k, r, ps, l, p) BY <1>0, <1>1, <1>2, <1>3, <1>4, AskIs
<1>6. Extends(k, r, ps, l, p) BY <1>0, <1>1, <1>2, <1>3, <1>4, AskDoes
<1>7. r \in Processors BY <1>5 DEF Sorts
<1>8. ReadyAt(k) BY <1>1 DEF PlacedInv
<1>9. PICK as : as = Asked(k) OBVIOUS
<1>10. PICK bs : bs = Asked(k)' OBVIOUS
<1>11. OneAsked(k, as, bs, l, r, p)
  BY <1>0, <1>3, <1>6, <1>7, <1>8, <1>9, <1>10, OneAskedIs
<1>12. ASSUME SimpleList(bs) PROVE Served(bs, Chain(ps)) /\ LinksOk(bs, FieldsOf(k)')
  <2>1. Sees(ps, bs) BY <1>0, <1>3, <1>5, <1>7, <1>8, <1>9, <1>11, <1>12, AskSees
  <2>2. PICK bf : bf = Sorted(ps).before OBVIOUS
  <2>3. Served(bs, Chain(ps)) /\ LinksOk(bs, bf) BY <1>12, <2>1, <2>2, ChainServes
  <2>4. PICK cf : cf = FieldsOf(k)' OBVIOUS
  <2>5. SortsOne(k, r, ps, l, p, as, bs, bf, cf) BY <1>5, <1>11, <2>2, <2>4 DEF SortsOne
  <2>6. SameOn(bs, cf, bf) BY <2>5, FieldsLeft
  <2> QED BY <2>3, <2>4, <2>6 DEF LinksOk, SameOn
<1>13. ASSUME NEW j \in DOMAIN conts' PROVE ServedAt(j)'
  <2>1. CASE j = k
    <3>1. conts'[k].chain = Chain(ps) BY <1>6 DEF Extends
    <3> QED BY <1>10, <1>12, <2>1, <3>1 DEF ServedAt
  <2>2. CASE j # k
    <3>1. j \in DOMAIN conts BY <1>6 DEF Extends
    <3>2. Kept(j, j) BY <1>0, <1>3, <1>6, <1>8, <2>2, <3>1, OthersKept
    <3>3. ServedAt(j) BY <3>1 DEF PlacedInv
    <3> QED BY <1>0, <3>2, <3>3, KeptServes
  <2> QED BY <2>1, <2>2
<1>14. ReadyAt(k)'
  <2>1. conts'[k].len = l + 1 BY <1>6 DEF Extends
  <2>2. \A i, j \in 1 .. l + 1 : Slice(k)'[i] = Slice(k)'[j] => i = j BY <1>11 DEF OneAsked
  <2>3. ASSUME NEW j \in DOMAIN conts', conts'[j].array = conts'[k].array
        PROVE  conts'[j].len <= l + 1
    <3>1. CASE j = k BY <1>3, <2>1, <3>1
    <3>2. CASE j # k
      <4>1. j \in DOMAIN conts /\ conts'[j] = conts[j] BY <1>6, <3>2 DEF Extends
      <4>2. conts[j].array \in DOMAIN arrays /\ conts[j].len \in Nat
        <5>1. SliceFront(j) BY <1>0, <4>1 DEF RegistryInv
        <5> QED BY <1>0, <4>1, <5>1, SliceIs DEF SliceFront
      <4>3. conts[j].array = conts[k].array BY <1>6, <2>3, <4>1, <4>2 DEF Extends
      <4>4. conts[j].len <= l BY <1>3, <1>8, <4>1, <4>3 DEF ReadyAt
      <4> QED BY <4>1, <4>2, <4>4
    <3> QED BY <3>1, <3>2
  <2> QED BY <1>10, <1>12, <2>1, <2>2, <2>3 DEF ReadyAt
<1>15. ASSUME NEW u \in Writers PROVE ReadyAt(current[u])'
  <2>1. u = w BY <1>15
  <2>2. current'[u] = k BY <1>1, <1>6, <2>1 DEF Extends
  <2> QED BY <1>14, <2>2
<1> QED BY <1>0, <1>13, <1>15 DEF PlacedInv

LEMMA PlacedNext ==
  ASSUME PlacedInv, NEW w \in Owners, Writers \subseteq {w}, [RegistryNext]_registryVars
  PROVE  PlacedInv'
<1>1. ASSUME NEW u \in Owners, Callback(u) PROVE PlacedInv' BY <1>1, PlacedCallback
<1>2. ASSUME NEW u \in Writers, NEW r \in Requests, Ask(u, r) PROVE PlacedInv'
  <2>1. u = w /\ w \in Writers OBVIOUS
  <2>2. Ask(w, r) BY <1>2, <2>1
  <2> QED BY <2>1, <2>2, PlacedAsk
<1>3. CASE UNCHANGED registryVars
  <2>1. UNCHANGED <<procs, before, arrays, conts, current>> BY <1>3 DEF registryVars
  <2>2. RegistryInv /\ RegistryInv' BY RegistryNext_Inv DEF PlacedInv
  <2>3. \A k : Slice(k)' = Slice(k) BY <2>1 DEF Slice
  <2>4. \A k : Asked(k)' = Asked(k) /\ FieldsOf(k)' = FieldsOf(k)
    BY <2>1, <2>3 DEF Asked, FieldsOf
  <2>5. ASSUME NEW k \in DOMAIN conts' PROVE ServedAt(k)'
    <3>1. ServedAt(k) BY <2>1 DEF PlacedInv
    <3> QED BY <2>1, <2>4, <3>1 DEF ServedAt
  <2>6. ASSUME NEW u \in Writers PROVE ReadyAt(current[u])'
    <3>1. PICK k : k = current[u] OBVIOUS
    <3>2. ReadyAt(k) BY <3>1 DEF PlacedInv
    <3>3. ReadyAt(k)' BY <2>1, <2>3, <2>4, <3>2 DEF ReadyAt
    <3> QED BY <2>1, <3>1, <3>3
  <2> QED BY <2>2, <2>5, <2>6 DEF PlacedInv
<1> QED BY <1>1, <1>2, <1>3 DEF RegistryNext

\* What Simple says of a container is that what it was asked for is a simple list.
LEMMA SimpleIs ==
  ASSUME RegistryInv, NEW k \in DOMAIN conts, Simple(k)
  PROVE  SimpleList(Asked(k))
<1>1. PICK as : as = Asked(k) OBVIOUS
<1>2. PICK l \in Nat : l = conts[k].len BY SliceIs
<1>3. /\ DOMAIN as = 1 .. l /\ as \in Seq(Processors)
      /\ \A i \in 1 .. l : as[i] = procs[Slice(k)[i]]
  BY <1>1, <1>2, AskedIs DEF AskedWell
<1>4. ASSUME NEW i \in 1 .. l
      PROVE  /\ as[i].before = NoName \/ as[i].after = NoName
             /\ (\E j \in 1 .. i - 1 : as[j].name = as[i].name) => Wishless(as[i])
             /\ \A n : Wishes(as, i, n) => (\E j \in 1 .. i - 1 : as[j].name = n) \/ Free(as, n)
  <2>1. \A j \in 1 .. i - 1 : j \in 1 .. l OBVIOUS
  <2>2. \A j \in 1 .. i - 1 : procs[Slice(k)[j]] = as[j] BY <1>3, <2>1
  <2>3. procs[Slice(k)[i]] = as[i] BY <1>3
  <2>4. /\ as[i].before = NoName \/ as[i].after = NoName
        /\ ~First(k, i) => as[i].before = NoName /\ as[i].after = NoName
        /\ Placeable(k, i, as[i].before) /\ Placeable(k, i, as[i].after)
    BY <1>2, <2>3 DEF Simple
  <2>5. (\E j \in 1 .. i - 1 : as[j].name = as[i].name) => Wishless(as[i])
    BY <2>2, <2>3, <2>4 DEF First, Wishless
  <2>6. ASSUME NEW n, Placeable(k, i, n), n # NoName
        PROVE  (\E j \in 1 .. i - 1 : as[j].name = n) \/ Free(as, n)
    <3>1. CASE \E j \in 1 .. i - 1 : procs[Slice(k)[j]].name = n BY <2>2, <3>1
    <3>2. CASE \A j \in 1 .. l : procs[Slice(k)[j]].name = n =>
                 procs[Slice(k)[j]].before = NoName /\ procs[Slice(k)[j]].after = NoName
      <4>1. ASSUME NEW j \in 1 .. l, as[j].name = n PROVE Wishless(as[j])
        <5>1. procs[Slice(k)[j]] = as[j] BY <1>3
        <5> QED BY <3>2, <4>1, <5>1 DEF Wishless
      <4>2. DOMAIN as = 1 .. l BY <1>3
      <4> QED BY <4>1, <4>2 DEF Free
    <3> QED BY <1>2, <2>6, <3>1, <3>2 DEF Placeable
  <2>7. \A n : Wishes(as, i, n) => (\E j \in 1 .. i - 1 : as[j].name = n) \/ Free(as, n)
    BY <2>4, <2>6 DEF Wishes
  <2> QED BY <2>4, <2>5, <2>7
<1>5. SimpleList(as) BY <1>3, <1>4 DEF SimpleList
<1> QED BY <1>1, <1>5

\* A name comes before another in a chain with both.
LEMMA PrecedesPlaces ==
  ASSUME NEW c \in Seq(Nat), NEW m, NEW n, Precedes(c, m, n),
         LastIndex(c, m) # 0, LastIndex(c, n) # 0
  PROVE  LastIndex(c, m) < LastIndex(c, n)
<1>1. /\ LastIndex(c, m) \in DOMAIN c /\ c[LastIndex(c, m)] = m
      /\ LastIndex(c, n) \in DOMAIN c /\ c[LastIndex(c, n)] = n
  BY LastIndexIs
<1> QED BY <1>1 DEF Precedes

LEMMA PlacedIsPlaced == PlacedInv => SimplePlaced
<1> SUFFICES ASSUME PlacedInv, NEW k \in DOMAIN conts, Simple(k)
             PROVE  /\ IsInjective(conts[k].chain)
                    /\ \A i \in 1 .. conts[k].len : Stays(k, i) /\ (First(k, i) => Gets(k, i))
  BY DEF SimplePlaced
<1>0. RegistryInv BY DEF PlacedInv
<1>1. PICK as : as = Asked(k) OBVIOUS
<1>2. PICK c : c = conts[k].chain OBVIOUS
<1>3. PICK l \in Nat : l = conts[k].len BY <1>0, SliceIs
<1>4. /\ DOMAIN as = 1 .. l /\ as \in Seq(Processors)
      /\ \A i \in 1 .. l : as[i] = procs[Slice(k)[i]]
  BY <1>0, <1>1, <1>3, AskedIs DEF AskedWell
<1>5. c \in Seq(Nat)
  <2>1. conts[k] \in Containers BY <1>0, SeqFacts DEF RegistryInv, RegistryTypes
  <2> QED BY <1>2, <2>1 DEF Containers
<1>6. Served(as, c)
  <2>1. ServedAt(k) BY DEF PlacedInv
  <2>2. SimpleList(Asked(k)) BY <1>0, SimpleIs
  <2> QED BY <1>1, <1>2, <2>1, <2>2 DEF ServedAt
<1>7. NamesOf(Objects(Slice(k))) = NamesOf(as)
  <2>1. PICK o : o = Objects(Slice(k)) OBVIOUS
  <2>2. /\ o \in Seq(Processors) /\ Len(o) = l
        /\ \A i \in 1 .. l : o[i] = [procs[Slice(k)[i]] EXCEPT !.before = before[Slice(k)[i]]]
    BY <1>0, <1>3, <2>1, SliceIs
  <2>3. DOMAIN o = 1 .. l BY <2>2, SeqFacts
  <2>4. ASSUME NEW i \in 1 .. l PROVE o[i].name = as[i].name
    <3>1. as[i] \in Processors BY <1>4, SeqFacts
    <3>2. o[i] = [as[i] EXCEPT !.before = before[Slice(k)[i]]] BY <1>4, <2>2
    <3> QED BY <3>1, <3>2 DEF Processors
  <2> QED BY <1>4, <2>1, <2>3, <2>4 DEF NamesOf
<1>8. ASSUME NEW i \in 1 .. l PROVE Stays(k, i)
  <2>1. PICK n : n = as[i].name OBVIOUS
  <2>2. PICK j : j = LastIndex(NamesOf(as), n) OBVIOUS
  <2>3. Has(c, n) <=> as[j].op # "remove" BY <1>4, <1>6, <2>1, <2>2 DEF Served
  <2>4. Runs(k, n) <=> Has(c, n) BY <1>2, <1>5, LastIndexIs DEF Runs, Position
  <2>5. j \in 1 .. l
    <3>1. /\ NamesOf(as) \in Seq(Nat) /\ DOMAIN NamesOf(as) = DOMAIN as
          /\ NamesOf(as)[i] = as[i].name
      BY <1>4, NamesAre
    <3>2. Has(NamesOf(as), n) BY <1>4, <2>1, <3>1 DEF Has
    <3> QED BY <1>4, <2>2, <3>1, <3>2, LastIndexIs
  <2>6. procs[Slice(k)[i]].name = n /\ procs[Slice(k)[j]] = as[j] BY <1>4, <2>1, <2>5
  <2> QED BY <1>7, <2>2, <2>3, <2>4, <2>6 DEF Stays
<1>9. ASSUME NEW i \in 1 .. l PROVE Gets(k, i)
  <2>1. /\ as[i].before # NoName => Precedes(c, as[i].name, as[i].before)
        /\ as[i].after # NoName => Precedes(c, as[i].after, as[i].name)
    BY <1>4, <1>6 DEF Served, WishesMet
  <2>2. ASSUME as[i].before # NoName, Runs(k, as[i].name), Runs(k, as[i].before)
        PROVE  Position(k, as[i].name) < Position(k, as[i].before)
    BY <1>2, <1>5, <2>1, <2>2, PrecedesPlaces DEF Runs, Position
  <2>3. ASSUME as[i].after # NoName, Runs(k, as[i].name), Runs(k, as[i].after)
        PROVE  Position(k, as[i].after) < Position(k, as[i].name)
    BY <1>2, <1>5, <2>1, <2>3, PrecedesPlaces DEF Runs, Position
  <2>4. procs[Slice(k)[i]] = as[i] BY <1>4
  <2> QED BY <2>2, <2>3, <2>4 DEF Gets
<1>10. IsInjective(conts[k].chain) BY <1>2, <1>6 DEF Served
<1> QED BY <1>3, <1>8, <1>9, <1>10

\* Register, Replace and Remove of one user, after any number of clones, give every
\* callback the place it asked for, and keep it there: sorting starts from scratch with
\* the before fields that earlier sorts have left (sortProcessors), and what they left
\* are wishes that are met in any case. With a second user one would write the other's
\* processor over in the array they share, and it would be sorted no more.
THEOREM SimplePlacedHolds ==
  ASSUME NEW w \in Owners, Writers \subseteq {w}
  PROVE  RegistrySpec => []SimplePlaced
<1>1. PlacedInv /\ [RegistryNext]_registryVars => PlacedInv' BY PlacedNext
<1> QED BY <1>1, PlacedInit, PlacedIsPlaced, PTL DEF RegistrySpec
=============================================================================
