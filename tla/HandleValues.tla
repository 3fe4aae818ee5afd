----------------------------- MODULE HandleValues -----------------------------
(***************************************************************************)
(* gorm's handles (DB, main.go) and their statements (Scope) as they lie in*)
(* memory.  A handle holds a search, whose conditions are a slice (array and*)
(* length), and a map of settings; every chained call and every statement   *)
(* clones both.  Settings that are a statement's own, such as "it began the *)
(* transaction", are kept in the same map under a name made of the          *)
(* statement's address, and stay there when the statement has gone and its  *)
(* address is used again.                                                   *)
(*                                                                         *)
(* Goroutines are not named: any handle may be used, and any statement go   *)
(* on, at every step.  orders, orConditions, preloads and the other lists of*)
(* a search are cloned as whereConditions is.                               *)
(***************************************************************************)
EXTENDS Naturals, Sequences

CONSTANTS
  Conds,
  Clauses,       \* values of the setting "gorm:insert_option"
  None,
  Addrs,         \* addresses of scopes
  MaxHandles,    \* bound: handles made
  MaxStatements  \* bound: statements begun

ASSUME HandleAssumption ==
  MaxHandles \in Nat /\ MaxStatements \in Nat /\ None \notin Conds \cup Clauses

VARIABLES
  arrays,  \* the arrays of slices
  maps,    \* the maps of settings: [clause, started]
  dbs,     \* handles: [where, limit, values, tx]; the first is the one of Open
  scopes   \* statements: [db, where, limit, addr, within, at, began, ended, reused]

vars == <<arrays, maps, dbs, scopes>>

-----------------------------------------------------------------------------
Elements(slice) == SubSeq(arrays[slice.array], 1, slice.len)
Settings(h) == maps[dbs[h].values]
Running == {i \in DOMAIN scopes : scopes[i].at # "done"}

\* The handle of a statement is the caller's when the statement is done, and the
\* callbacks' before.
Usable(h) == \A i \in Running : scopes[i].db # h

\* append: in place when the array has room; Go leaves room when it makes a new one.
Appended(as, slice, c) ==
  IF slice.len < Len(as[slice.array])
    THEN [arrays |-> [as EXCEPT ![slice.array][slice.len + 1] = c],
          slice |-> [slice EXCEPT !.len = @ + 1]]
    ELSE [arrays |-> Append(as, SubSeq(as[slice.array], 1, slice.len) \o <<c, None>>),
          slice |-> [array |-> Len(as) + 1, len |-> slice.len + 1]]

\* search.clone: a list in an array of its own.
SearchClone(as, slice) ==
  [arrays |-> Append(as, SubSeq(as[slice.array], 1, slice.len)),
   slice |-> [array |-> Len(as) + 1, len |-> slice.len]]

-----------------------------------------------------------------------------
\* Faulty: the clone keeps the array of the conditions.
Clone_SharesArray(h) ==
  [arrays |-> arrays, maps |-> Append(maps, Settings(h)),
   db |-> [dbs[h] EXCEPT !.values = Len(maps) + 1]]

\* DB.clone.
Clone(h) ==
  LET search == SearchClone(arrays, dbs[h].where) IN
  [arrays |-> search.arrays, maps |-> Append(maps, Settings(h)),
   db |-> [dbs[h] EXCEPT !.where = search.slice, !.values = Len(maps) + 1]]

Makes(as, ms, db) ==
  /\ Len(dbs) < MaxHandles
  /\ arrays' = as /\ maps' = ms /\ dbs' = Append(dbs, db)

\* Where, Or, Not, ...: a condition more.
Where(h) == \E c \in Conds :
  LET a == Appended(Clone(h).arrays, Clone(h).db.where, c) IN
  /\ Makes(a.arrays, Clone(h).maps, [Clone(h).db EXCEPT !.where = a.slice])
  /\ UNCHANGED scopes

\* Limit, Offset, Select, ...: one value for another.
Limit(h) == Makes(Clone(h).arrays, Clone(h).maps, [Clone(h).db EXCEPT !.limit = 1])
            /\ UNCHANGED scopes

\* New: no search.
New(h) == Makes(Clone(h).arrays, Clone(h).maps,
                [Clone(h).db EXCEPT !.where.len = 0, !.limit = None])
          /\ UNCHANGED scopes

\* Begin: a handle of a transaction.
Begin(h) == ~dbs[h].tx /\ Makes(Clone(h).arrays, Clone(h).maps, [Clone(h).db EXCEPT !.tx = TRUE])
            /\ UNCHANGED scopes

\* Set, OnConflictDoNothing: in the clone's settings.
Set(h) == \E v \in Clauses :
  /\ Makes(Clone(h).arrays, [Clone(h).maps EXCEPT ![Clone(h).db.values].clause = v], Clone(h).db)
  /\ UNCHANGED scopes

\* InstantSet, SetOnConflict, OnConflictDoUpdate: in the receiver's.
InstantSet(h) == \E v \in Clauses :
  /\ maps' = [maps EXCEPT ![dbs[h].values].clause = v]
  /\ UNCHANGED <<arrays, dbs, scopes>>

-----------------------------------------------------------------------------
\* NewScope, of a handle, or NewDB and NewScope inside a running statement, whose
\* handle they clone.  First adds a limit, a condition may be given; both go to the
\* scope's own search.
Start(h, within) ==
  /\ Len(scopes) < MaxStatements
  /\ \E addr \in Addrs \ {scopes[i].addr : i \in Running}, limit \in BOOLEAN,
        own \in {<<>>} \cup {<<c>> : c \in Conds} :
       LET db == IF within = 0 THEN Clone(h).db ELSE [Clone(h).db EXCEPT !.where.len = 0, !.limit = None]
           search == SearchClone(Clone(h).arrays, db.where)
           a == IF own = <<>> THEN search ELSE Appended(search.arrays, search.slice, own[1])
       IN /\ Makes(a.arrays, Clone(h).maps, db)
          /\ scopes' = Append(scopes,
               [db |-> Len(dbs) + 1, where |-> a.slice, limit |-> IF limit THEN 1 ELSE db.limit,
                addr |-> addr, within |-> within, at |-> "new", began |-> FALSE, ended |-> FALSE,
                reused |-> addr \in Settings(h).started])

\* Faulty: the flag is found under its name alone.
HasStarted_Any(i) == Settings(scopes[i].db).started # {}

\* InstanceGet("gorm:started_transaction").
HasStarted(i) == scopes[i].addr \in Settings(scopes[i].db).started

\* Scope.Begin, of a handle that is not in a transaction.
ScopeBegin(i) ==
  LET s == scopes[i] IN
  /\ s.at = "new"
  /\ scopes' = [scopes EXCEPT ![i].at = "begun", ![i].began = ~dbs[s.db].tx]
  /\ dbs' = [dbs EXCEPT ![s.db].tx = TRUE]
  /\ maps' = IF dbs[s.db].tx THEN maps
             ELSE [maps EXCEPT ![dbs[s.db].values].started = @ \cup {s.addr}]
  /\ UNCHANGED arrays

\* Scope.CommitOrRollback, when the statements inside have ended.
CommitOrRollback(i) ==
  LET s == scopes[i] IN
  /\ s.at = "begun"
  /\ \A j \in Running : scopes[j].within # i
  /\ scopes' = [scopes EXCEPT ![i].at = "done", ![i].ended = HasStarted(i)]
  /\ dbs' = IF HasStarted(i) THEN [dbs EXCEPT ![s.db].tx = FALSE] ELSE dbs
  /\ UNCHANGED <<arrays, maps>>

\* A statement that reads only: no transaction.
Query(i) ==
  /\ scopes[i].at = "new"
  /\ scopes' = [scopes EXCEPT ![i].at = "done"]
  /\ UNCHANGED <<arrays, maps, dbs>>

Init ==
  /\ arrays = << <<>> >>
  /\ maps = <<[clause |-> None, started |-> {}]>>
  /\ dbs = <<[where |-> [array |-> 1, len |-> 0], limit |-> None, values |-> 1, tx |-> FALSE]>>
  /\ scopes = <<>>

Next ==
  \/ \E h \in DOMAIN dbs : /\ Usable(h)
                           /\ Where(h) \/ Limit(h) \/ New(h) \/ Begin(h) \/ Set(h) \/ InstantSet(h) \/ Start(h, 0)
  \/ \E i \in Running : ScopeBegin(i) \/ CommitOrRollback(i) \/ Query(i)
  \/ \E i \in Running : scopes[i].at = "begun" /\ Start(scopes[i].db, i)

Spec == Init /\ [][Next]_vars

-----------------------------------------------------------------------------
\* What the memory holds is what the chains of calls say: deriving a handle, or running
\* a statement, changes no other handle and no statement under way, through no slice
\* with room at its end and no shared map (search.go clone, main.go clone).
Chains == INSTANCE HandleChains WITH
  chains <- [h \in DOMAIN dbs |-> [where |-> Elements(dbs[h].where), limit |-> dbs[h].limit,
                                   clause |-> Settings(h).clause]],
  statements <- [i \in DOMAIN scopes |-> [where |-> Elements(scopes[i].where), limit |-> scopes[i].limit]]
HandlesAreValues == Chains!ChainSpec

\* A statement ends a transaction only when it began it: neither a statement inside
\* another nor one on a later handle finds the flag another has left in the settings
\* it copies, unless it lies where that one lay (scope.go InstanceID).
FlagIsOwn == \A i \in DOMAIN scopes : scopes[i].ended => scopes[i].began \/ scopes[i].reused
=============================================================================
