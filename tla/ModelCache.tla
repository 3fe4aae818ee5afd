------------------------------ MODULE ModelCache ------------------------------
(***************************************************************************)
(* The cache of model structs (model_struct.go) and the goroutines that use*)
(* models for the first time.                                              *)
(*                                                                         *)
(* A model is built field by field, published, and only then are the       *)
(* deferred builders of its slice and struct fields run, last field first: *)
(* they need the models of other types, which may need this one.  An       *)
(* embedded struct is a model of its own, whose fields are copied.  Nobody *)
(* holds a lock: two goroutines may build one model, the last one published*)
(* stays.                                                                  *)
(*                                                                         *)
(* Only the fields that are completed late are modelled: "late" ones, which*)
(* become normal columns ([]byte, say), and relationships with a type.     *)
(***************************************************************************)
EXTENDS Naturals, FiniteSets, SequencesExt

CONSTANTS
  Goroutines,
  Types,
  Embeds,   \* the types each one embeds, in order
  Slow,     \* its own late fields, in order: [name, kind, to]
  MaxUses   \* bound: uses begun

Kinds == {"late", "has", "belongs_to", "many_to_many"}
ASSUME ModelAssumption ==
  /\ MaxUses \in Nat
  /\ \A t \in Types : Embeds[t] \in Seq(Types) /\ Slow[t] \in Seq(ToSet(Slow[t]))
  /\ \A t \in Types : \A i \in DOMAIN Slow[t] :
       Slow[t][i].kind \in Kinds /\ (Slow[t][i].kind # "late" => Slow[t][i].to \in Types)

\* A field is known by its type and name, also where it has been copied to.
OwnSlow(t) == {<<t, Slow[t][i].name>> : i \in DOMAIN Slow[t]}
SlowOf[t \in Types] == OwnSlow(t) \cup UNION {OwnSlow(Embeds[t][i]) : i \in DOMAIN Embeds[t]}
OwnJoins(t) == {<<t, f.name>> : f \in {g \in ToSet(Slow[t]) : g.kind = "many_to_many"}}
Joins(t) == OwnJoins(t) \cup UNION {OwnJoins(Embeds[t][i]) : i \in DOMAIN Embeds[t]}

\* Embedding is one level deep here.
ASSUME EmbedAssumption ==
  \A t \in Types : \A i \in DOMAIN Embeds[t] : Embeds[Embeds[t][i]] = <<>>

VARIABLES
  objs,    \* model structs: [type, done, marks, custom]
  cache,   \* modelStructsMap: the one published for each type
  stack,   \* each goroutine's calls of getModelStruct
  job,     \* what the goroutine wants the model for
  uses,    \* uses begun
  got,     \* history: the model struct of the last use
  alone,   \* history: nobody else was building since the use began
  copied,  \* history: objects that copied a field not complete yet
  twice    \* history: types published more than once

vars == <<objs, cache, stack, job, uses, got, alone, copied, twice>>

-----------------------------------------------------------------------------
Busy(g) == stack[g] # <<>>
Top(g) == Last(stack[g])
Frame(t) == [type |-> t, at |-> "load", obj |-> 0, embeds |-> Embeds[t], slow |-> Reverse(Slow[t])]
SetTop(g, f) == [stack EXCEPT ![g] = Front(@) \o <<f>>]
PushOn(g, f, t) == [stack EXCEPT ![g] = Front(@) \o <<f, Frame(t)>>]

-----------------------------------------------------------------------------
\* A use: of the model's fields, or to set a join table handler of it.
Use(g, t, j) ==
  /\ ~Busy(g) /\ uses < MaxUses
  /\ uses' = uses + 1
  /\ stack' = [stack EXCEPT ![g] = <<Frame(t)>>]
  /\ job' = [job EXCEPT ![g] = j]
  /\ got' = [got EXCEPT ![g] = 0]
  /\ alone' = [h \in Goroutines |-> IF h = g THEN \A k \in Goroutines : ~Busy(k)
                                    ELSE alone[h] /\ ~Busy(h)]
  /\ UNCHANGED <<objs, cache, copied, twice>>

\* SetJoinTableHandler, for all such fields; a panic when one has no relationship yet.
SetsHandler(o) ==
  LET t == objs[o].type IN
  IF Joins(t) \subseteq objs[o].done
    THEN objs' = [objs EXCEPT ![o].custom = Joins(t)]
    ELSE UNCHANGED objs

\* getModelStruct returns o: to the use, or to the caller's frame, which copies the
\* fields of an embedded struct, or finishes the field of a relationship.
Copies(g, f, o) ==
  /\ objs' = [objs EXCEPT ![f.obj].done = @ \cup objs[o].done,
                          ![f.obj].custom = @ \cup objs[o].custom]
  /\ copied' = IF objs[o].done = SlowOf[objs[o].type] THEN copied ELSE copied \cup {f.obj}
  /\ stack' = [stack EXCEPT ![g] =
       SubSeq(@, 1, Len(@) - 2) \o <<[f EXCEPT !.embeds = Tail(@)]>>]

\* Faulty: marks the foreign key in the wrong model.
Relates_Swapped(g, f, o) ==
  LET s == Head(f.slow)
      field == <<f.type, s.name>>
      marked == IF s.kind = "has" THEN f.obj ELSE o
      finished == [objs EXCEPT ![f.obj].done = @ \cup {field}]
  IN /\ objs' = IF s.kind \in {"has", "belongs_to"}
                  THEN [finished EXCEPT ![marked].marks = @ \cup {field}] ELSE finished
     /\ stack' = [stack EXCEPT ![g] = SubSeq(@, 1, Len(@) - 2) \o <<[f EXCEPT !.slow = Tail(@)]>>]
     /\ UNCHANGED copied

Relates(g, f, o) ==
  LET s == Head(f.slow)
      field == <<f.type, s.name>>
      \* the foreign key: a column of the other model, or of this one
      marked == IF s.kind = "has" THEN o ELSE f.obj
      finished == [objs EXCEPT ![f.obj].done = @ \cup {field}]
  IN /\ objs' = IF s.kind \in {"has", "belongs_to"}
                  THEN [finished EXCEPT ![marked].marks = @ \cup {field}] ELSE finished
     /\ stack' = [stack EXCEPT ![g] = SubSeq(@, 1, Len(@) - 2) \o <<[f EXCEPT !.slow = Tail(@)]>>]
     /\ UNCHANGED copied

Returns(g, o) ==
  IF Len(stack[g]) = 1
    THEN /\ stack' = [stack EXCEPT ![g] = <<>>]
         /\ got' = [got EXCEPT ![g] = o]
         /\ IF job[g] = "handler" THEN SetsHandler(o) ELSE UNCHANGED objs
         /\ UNCHANGED copied
    ELSE LET f == stack[g][Len(stack[g]) - 1] IN
         /\ IF f.at = "fields" THEN Copies(g, f, o) ELSE Relates(g, f, o)
         /\ UNCHANGED got

\* modelStructsMap.Load.
Load(g) ==
  /\ Busy(g) /\ Top(g).at = "load"
  /\ IF cache[Top(g).type] # 0
       THEN Returns(g, cache[Top(g).type])
       ELSE /\ objs' = Append(objs, [type |-> Top(g).type, done |-> {}, marks |-> {}, custom |-> {}])
            /\ stack' = SetTop(g, [Top(g) EXCEPT !.at = "fields", !.obj = Len(objs) + 1])
            /\ UNCHANGED <<got, copied>>
  /\ UNCHANGED <<cache, job, uses, alone, twice>>

\* The loop over the fields comes to an embedded struct.
Embedded(g) ==
  /\ Busy(g) /\ Top(g).at = "fields" /\ Top(g).embeds # <<>>
  /\ stack' = PushOn(g, Top(g), Head(Top(g).embeds))
  /\ UNCHANGED <<objs, cache, job, uses, got, alone, copied, twice>>

\* modelStructsMap.Store, over what another goroutine has stored.
Store(g) ==
  /\ Busy(g) /\ Top(g).at = "fields" /\ Top(g).embeds = <<>>
  /\ cache' = [cache EXCEPT ![Top(g).type] = Top(g).obj]
  /\ twice' = IF cache[Top(g).type] # 0 THEN twice \cup {Top(g).type} ELSE twice
  /\ stack' = SetTop(g, [Top(g) EXCEPT !.at = "defer"])
  /\ UNCHANGED <<objs, job, uses, got, alone, copied>>

\* Faulty: returns before the last builder has run.
Defer_DropsLast(g) ==
  /\ Busy(g) /\ Top(g).at = "defer"
  /\ IF Len(Top(g).slow) <= 1
       THEN Returns(g, Top(g).obj)
       ELSE LET s == Head(Top(g).slow) IN
            /\ IF s.kind = "late"
                 THEN /\ objs' = [objs EXCEPT ![Top(g).obj].done = @ \cup {<<Top(g).type, s.name>>}]
                      /\ stack' = SetTop(g, [Top(g) EXCEPT !.slow = Tail(@)])
                 ELSE UNCHANGED objs /\ stack' = PushOn(g, Top(g), s.to)
            /\ UNCHANGED <<got, copied>>
  /\ UNCHANGED <<cache, job, uses, alone, twice>>

\* A deferred builder, or the return when there is none left.
Defer(g) ==
  /\ Busy(g) /\ Top(g).at = "defer"
  /\ IF Top(g).slow = <<>>
       THEN Returns(g, Top(g).obj)
       ELSE LET s == Head(Top(g).slow) IN
            /\ IF s.kind = "late"
                 THEN /\ objs' = [objs EXCEPT ![Top(g).obj].done = @ \cup {<<Top(g).type, s.name>>}]
                      /\ stack' = SetTop(g, [Top(g) EXCEPT !.slow = Tail(@)])
                 ELSE UNCHANGED objs /\ stack' = PushOn(g, Top(g), s.to)
            /\ UNCHANGED <<got, copied>>
  /\ UNCHANGED <<cache, job, uses, alone, twice>>

Step(g) == Load(g) \/ Embedded(g) \/ Store(g) \/ Defer(g)

Init ==
  /\ objs = <<>> /\ cache = [t \in Types |-> 0]
  /\ stack = [g \in Goroutines |-> <<>>] /\ job = [g \in Goroutines |-> ""]
  /\ uses = 0 /\ got = [g \in Goroutines |-> 0]
  /\ alone = [g \in Goroutines |-> FALSE] /\ copied = {} /\ twice = {}
Next == \E g \in Goroutines :
  Step(g) \/ \E t \in Types : Use(g, t, "fields") \/ (Joins(t) # {} /\ Use(g, t, "handler"))
Spec == Init /\ [][Next]_vars

-----------------------------------------------------------------------------
Complete(o) ==
  /\ objs[o].done = SlowOf[objs[o].type]
  /\ \A i \in DOMAIN Slow[objs[o].type] :
       LET s == Slow[objs[o].type][i] IN
       s.kind = "belongs_to" => <<objs[o].type, s.name>> \in objs[o].marks

\* A use by which nobody else was building gets a model with all its columns and
\* relationships, however models refer to one another: models that need each other
\* find each other published, and none is returned before its deferred builders
\* have run (model_struct.go getModelStruct).  Models that hold a copy of fields
\* that were not complete are another matter, see CacheSettles.
FirstUseIsComplete == \A g \in Goroutines :
  got[g] # 0 /\ alone[g] /\ copied = {} => Complete(got[g])

\* When nobody builds, the models everybody will use from now on are complete, in
\* whatever order goroutines have published over one another, unless they copied an
\* embedded struct whose deferred builders had not run; and a has_one or has_many has
\* its foreign key marked in the other model, unless that was published twice.
CacheSettles == (\A g \in Goroutines : ~Busy(g)) => \A t \in Types : cache[t] # 0 =>
  /\ Complete(cache[t]) \/ cache[t] \in copied
  /\ \A i \in DOMAIN Slow[t] : LET s == Slow[t][i] IN
       s.kind = "has" => s.to \in twice \/ <<t, s.name>> \in objs[cache[s.to]].marks
=============================================================================
