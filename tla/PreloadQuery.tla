----------------------------- MODULE PreloadQuery -----------------------------
(***************************************************************************)
(* A query with a nested preload, Preload("Rel.Leaves"), and other clients  *)
(* that write between its statements: callback_query.go reads users, then   *)
(* callback_query_preload.go reads the rows related to them by the          *)
(* relationship "Rel" of some kind, then the leaves each of those rows has. *)
(* What is read is put together in memory: a row is found by the key that   *)
(* was read with its owner, and objects may be shared by pointers.          *)
(*                                                                         *)
(* Preloads runs the preloads again over what an earlier query has filled,  *)
(* and First over a struct that was used before keeps its relationship.     *)
(***************************************************************************)
EXTENDS FiniteSets, SequencesExt, Positions

CONSTANTS
  Users, Rows, Leaves,
  None,
  Reads,     \* the users a query may return, in order; a join may repeat one
  MaxCalls,  \* bound: queries
  MaxWrites  \* bound: writes of other clients

Kinds == {"has_one", "has_many", "belongs_to", "many_to_many"}
ASSUME PreloadAssumption ==
  /\ IsFiniteSet(Users) /\ IsFiniteSet(Rows) /\ IsFiniteSet(Leaves)
  /\ Reads \subseteq Seq(Users)
  /\ MaxCalls \in Nat /\ MaxWrites \in Nat
  /\ None \notin Users \cup Rows \cup Leaves

VARIABLES
  conf,      \* the program: [kind, pointers, struct]
  rel,       \* user and row that refer to each other: foreign keys, or the join table
  present,   \* the rows there are
  leafOf,    \* the row each leaf refers to
  at,        \* the statement to come: "idle", "query", "rel", "leaves"
  calls, writes,
  out,       \* the destination: users [user, fk, rel]
  objs,      \* the row objects: [row, leaves]
  queryErr,  \* the error of the query's handle
  fresh,     \* history: the destination was empty when the query began
  failed,    \* history: statements that failed
  ever, everLeaf,     \* history: related at some time since the destination is in use
  stable, stableLeaf  \* history: related all the time since the query began

db == <<rel, present, leafOf>>
history == <<ever, everLeaf, stable, stableLeaf>>
queryVars == <<conf, rel, present, leafOf, at, calls, writes, out, objs, queryErr, fresh,
               failed, ever, everLeaf, stable, stableLeaf>>

-----------------------------------------------------------------------------
Many == conf.kind \in {"has_many", "many_to_many"}

\* The database keeps one owner for a row a user has, one row for a user that belongs to it.
Legal(pairs) ==
  CASE conf.kind \in {"has_one", "has_many"} -> \A p, q \in pairs : p[2] = q[2] => p = q
    [] conf.kind = "belongs_to" -> \A p, q \in pairs : p[1] = q[1] => p = q
    [] OTHER -> TRUE
LeafPairs(of) == {<<of[l], l>> : l \in {m \in Leaves : of[m] # None}}

Write ==
  /\ writes < MaxWrites
  /\ writes' = writes + 1
  /\ \/ \E p \in Users \X Rows : rel' = SymDiff(rel, {p}) /\ UNCHANGED <<present, leafOf>>
     \/ \E r \in Rows : present' = SymDiff(present, {r}) /\ UNCHANGED <<rel, leafOf>>
     \/ \E l \in Leaves, r \in Rows \cup {None} :
          leafOf' = [leafOf EXCEPT ![l] = r] /\ UNCHANGED <<rel, present>>
  /\ db' # db /\ Legal(rel')
  /\ ever' = ever \cup rel'
  /\ everLeaf' = everLeaf \cup LeafPairs(leafOf')
  /\ stable' = {p \in stable : p \in rel' /\ p[2] \in present'}
  /\ stableLeaf' = stableLeaf \cap LeafPairs(leafOf')
  /\ UNCHANGED <<conf, at, calls, out, objs, queryErr, fresh, failed>>

-----------------------------------------------------------------------------
\* Find or First, or Preloads over what is there.  A slice is emptied first.
Call(preloads) ==
  /\ at = "idle" /\ calls < MaxCalls
  /\ calls' = calls + 1
  /\ at' = IF preloads THEN "rel" ELSE "query"
  /\ fresh' = (~preloads /\ (conf.struct => out = <<>>))
  /\ queryErr' = FALSE /\ failed' = {}
  /\ ever' = IF fresh' THEN rel ELSE ever
  /\ everLeaf' = IF fresh' THEN LeafPairs(leafOf) ELSE everLeaf
  /\ stable' = {p \in rel : p[2] \in present}
  /\ stableLeaf' = LeafPairs(leafOf)
  /\ out' = IF fresh' THEN <<>> ELSE out
  /\ objs' = IF fresh' THEN <<>> ELSE objs
  /\ UNCHANGED <<conf, rel, present, leafOf, writes>>

FkOf(u) == IF \E r \in Rows : <<u, r>> \in rel /\ conf.kind = "belongs_to"
             THEN CHOOSE r \in Rows : <<u, r>> \in rel ELSE None

\* queryCallback: a struct keeps its other fields; no row for a struct is an error, and
\* no preload follows an error.
Query ==
  /\ at = "query"
  /\ \E read \in Reads \cup {None} :
       /\ (conf.struct /\ read # None) => Len(read) <= 1
       \* the primary key of a used struct is a condition
       /\ (conf.struct /\ out # <<>>) => read \in {None, <<>>, <<out[1].user>>}
       /\ failed' = IF read = None THEN {"query"} ELSE {}
       /\ queryErr' = (read = None \/ (conf.struct /\ read = <<>>))
       /\ at' = IF queryErr' THEN "idle" ELSE "rel"
       /\ out' = IF ~queryErr' THEN [j \in DOMAIN read |->
                   [user |-> read[j], fk |-> FkOf(read[j]),
                    rel |-> IF conf.struct /\ out # <<>> THEN out[1].rel ELSE <<>>]]
                 ELSE out
  /\ UNCHANGED <<conf, rel, present, leafOf, calls, writes, objs, fresh, ever, everLeaf, stable, stableLeaf>>

-----------------------------------------------------------------------------
\* The rows found for the keys of the destination.
Found ==
  LET users == {out[j].user : j \in DOMAIN out} IN
  CASE conf.kind = "belongs_to" -> {<<None, r>> : r \in present \cap {out[j].fk : j \in DOMAIN out}}
    [] OTHER -> {p \in rel : p[1] \in users /\ p[2] \in present}
NoKeys == IF conf.kind = "belongs_to" THEN \A j \in DOMAIN out : out[j].fk = None ELSE out = <<>>

Matches(o, p) == IF conf.kind = "belongs_to" THEN p[2] = o.fk ELSE p[1] = o.user

\* Faulty: any row found is a user's.
Matching_Any(results, j) == [i \in DOMAIN results |-> i]

\* The results for the user at j, of a struct all of them.
Matching(results, j) ==
  IF conf.struct /\ conf.kind # "many_to_many" THEN [i \in DOMAIN results |-> i]
  ELSE InOrder({i \in DOMAIN results : Matches(out[j], results[i])})

\* A row object: of the result itself, or of its copy in the destination's field.
Ref(j, i) == <<calls, IF conf.pointers THEN 0 ELSE j, i>>

\* Faulty: a user keeps the last of its rows.
FieldValue_LastOnly(old, refs) == IF refs = <<>> THEN old ELSE <<Last(refs)>>

\* handleHasOne-, HasMany-, BelongsTo- and ManyToManyPreload: what the field is set to.
FieldValue(old, refs) ==
  CASE conf.kind = "many_to_many" -> IF old # <<>> THEN old ELSE refs
    [] conf.kind = "has_many" -> IF conf.struct \/ refs = <<>> THEN refs ELSE old \o refs
    [] OTHER -> IF refs = <<>> THEN old ELSE <<Last(refs)>>

Assign(results) ==
  /\ out' = [j \in DOMAIN out |-> [out[j] EXCEPT !.rel =
       FieldValue(@, [n \in DOMAIN Matching(results, j) |-> Ref(j, Matching(results, j)[n])])]]
  /\ objs' = [ref \in DOMAIN objs \cup {Ref(j, i) : j \in DOMAIN out, i \in DOMAIN results} |->
       IF ref \in DOMAIN objs THEN objs[ref]
       ELSE [row |-> results[ref[3]][2], leaves |-> <<>>]]

\* The first level: one statement, its rows in any order.
PreloadRel ==
  /\ at = "rel" /\ ~NoKeys
  /\ \/ \E results \in SetToSeqs(Found) : Assign(results) /\ UNCHANGED <<queryErr, failed>>
     \/ /\ queryErr' = TRUE /\ failed' = failed \cup {"rel"}
        /\ IF conf.kind = "many_to_many" THEN UNCHANGED <<out, objs>> ELSE Assign(<<>>)
  /\ at' = "leaves"
  /\ UNCHANGED <<conf, rel, present, leafOf, calls, writes, fresh, ever, everLeaf, stable, stableLeaf>>

NoPreload ==
  /\ at = "rel" /\ NoKeys
  /\ at' = "leaves"
  /\ UNCHANGED <<conf, rel, present, leafOf, calls, writes, out, objs, queryErr, fresh, failed,
                 ever, everLeaf, stable, stableLeaf>>

-----------------------------------------------------------------------------
\* getColumnAsScope: the row objects of all users.  Objects are told apart by their
\* address, but of a slice of pointers by the address of the pointer.
Targets == UNION {ToSet(out[j].rel) : j \in DOMAIN out}
Places(j, ref) == {i \in DOMAIN out[j].rel : out[j].rel[i] = ref}
Listed(ref) == Cardinality(UNION {{<<j, i>> : i \in Places(j, ref)} : j \in DOMAIN out})

\* Faulty: no object is recognised.
Times_All(ref) == Listed(ref)

Times(ref) == IF Many /\ conf.pointers THEN Listed(ref) ELSE 1
Repeated(seq, n) == [i \in 1 .. n * Len(seq) |-> seq[((i - 1) % Len(seq)) + 1]]

\* The second level is has_many, over a slice or over one struct.
LeavesOf(r) == SetToSeq({l \in Leaves : leafOf[l] = r})
SetLeaves(found) ==
  objs' = [ref \in DOMAIN objs |->
    IF ref \notin Targets THEN objs[ref]
    ELSE [objs[ref] EXCEPT !.leaves =
      IF found[objs[ref].row] = <<>> \/ (conf.struct /\ ~Many) THEN found[objs[ref].row]
      ELSE @ \o Repeated(found[objs[ref].row], Times(ref))]]

\* Its error goes to the handle of that scope, which nobody reads; after an error the
\* statement is not run.
PreloadLeaves ==
  /\ at = "leaves"
  /\ at' = "idle"
  /\ IF Targets = {} THEN UNCHANGED <<objs, failed>>
     ELSE \/ ~queryErr /\ SetLeaves([r \in Rows |-> LeavesOf(r)]) /\ UNCHANGED failed
          \/ SetLeaves([r \in Rows |-> <<>>]) /\ failed' = IF queryErr THEN failed ELSE failed \cup {"leaves"}
  /\ UNCHANGED <<conf, rel, present, leafOf, calls, writes, out, queryErr, fresh, ever, everLeaf, stable, stableLeaf>>

-----------------------------------------------------------------------------
QueryInit ==
  /\ conf \in [kind : Kinds, pointers : BOOLEAN, struct : BOOLEAN]
  /\ rel \in SUBSET (Users \X Rows) /\ Legal(rel)
  /\ present = Rows
  /\ leafOf \in [Leaves -> Rows \cup {None}]
  /\ at = "idle" /\ calls = 0 /\ writes = 0
  /\ out = <<>> /\ objs = <<>>
  /\ queryErr = FALSE /\ fresh = TRUE /\ failed = {}
  /\ ever = {} /\ everLeaf = {} /\ stable = {} /\ stableLeaf = {}

QueryNext ==
  \/ Call(FALSE) \/ (out # <<>> /\ Call(TRUE)) \/ Query
  \/ PreloadRel \/ NoPreload \/ PreloadLeaves \/ Write
QuerySpec == QueryInit /\ [][QueryNext]_queryVars

-----------------------------------------------------------------------------
RowsAt(j) == {objs[ref].row : ref \in ToSet(out[j].rel)}
Complete == at = "idle" /\ ~queryErr /\ calls > 0

\* Nobody is given a row, and no row a leaf, it was at no time since related to,
\* whatever was written between the statements (the handlers match by keys read).
NothingWrong ==
  /\ \A j \in DOMAIN out : \A r \in RowsAt(j) : <<out[j].user, r>> \in ever
  /\ \A ref \in DOMAIN objs : \A l \in ToSet(objs[ref].leaves) : <<objs[ref].row, l>> \in everLeaf

\* What was related all the time is there, when the query told no error and the
\* destination was fresh: of a has_one, one of them.
NothingMissing == Complete /\ fresh =>
  /\ \A j \in DOMAIN out : LET all == {r \in Rows : <<out[j].user, r>> \in stable} IN
       IF conf.kind = "has_one" THEN all # {} => RowsAt(j) # {} ELSE all \subseteq RowsAt(j)
  /\ "leaves" \notin failed => \A ref \in Targets : \A l \in Leaves :
       <<objs[ref].row, l>> \in stableLeaf => l \in ToSet(objs[ref].leaves)

\* No row and no leaf comes twice, in a fresh destination, unless a join has returned a
\* user twice and its rows are shared by pointers (getColumnAsScope).
OnceEach ==
  LET shared == conf.pointers /\ Many /\ \E i, j \in DOMAIN out : i # j /\ out[i].user = out[j].user
  IN fresh =>
       /\ \A j \in DOMAIN out : Cardinality(RowsAt(j)) = Len(out[j].rel)
       /\ ~shared => \A ref \in Targets : IsInjective(objs[ref].leaves)
=============================================================================
