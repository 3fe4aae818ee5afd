--------------------------- MODULE AssociationMode ---------------------------
(***************************************************************************)
(* Association mode: Append, Replace (Clear is Replace with no values) and *)
(* Delete of association.go, for the five kinds of relationships, with the *)
(* join table of join_table_handler.go.                                    *)
(*                                                                         *)
(* A client holds a struct of a source row and calls on its association    *)
(* field; clients may hold structs of one row.  Every statement, and every *)
(* Save with what it saves, is a step; a call is several.  The relation    *)
(* links stands for join table rows, or for the foreign keys: of targets   *)
(* for has_one and has_many (with the owner's type if polymorphic), of     *)
(* sources for belongs_to.  The field is a struct or a slice of structs, by*)
(* their keys; 0 is a struct without one.                                  *)
(***************************************************************************)
EXTENDS Naturals, FiniteSets, SequencesExt

CONSTANTS
  Clients,
  Sources,   \* rows: [type, id]; ids of different types may agree
  Kinds,     \* kinds of relationship
  Old,       \* keys of the target rows that are there
  OldLinks,  \* links that are there, by kind
  Values,    \* what is passed: keys, 0 for a new struct, Bad for no struct
  MaxCalls   \* bound: calls made

Bad == 99
IsSingle(k) == k \in {"has_one", "belongs_to"}
ASSUME SourceAssumption == \A s \in Sources : s.id \in Nat \ {0}
ASSUME OldAssumption ==
  /\ Old = 1 .. Cardinality(Old) /\ Cardinality(Old) \in Nat /\ Bad \notin Old
  /\ \A k \in Kinds : OldLinks[k] \subseteq Sources \X Old
ASSUME ValuesAssumption == \A v \in Values : v \in Seq(Old \cup {0, Bad})
ASSUME KindsAssumption ==
  Kinds \subseteq {"many_to_many", "belongs_to", "has_one", "has_many", "polymorphic"}

VARIABLES
  kind,    \* the relationship
  source,  \* the row of each client's struct
  field,   \* its association field
  pc,      \* where the client's call is
  op,      \* the call
  values,  \* what was passed and is not saved yet
  link,    \* the key the next row of the join table is for
  err,     \* Association.Error
  links,   \* what the database has
  targets, \* target rows
  calls,   \* calls made
  nextKey, \* the generator of target keys
  before,  \* history: links when the call began
  given,   \* history: keys the values of the call had or got, in order
  sole,    \* history: no other client has changed links since
  failed,  \* history: a step of the call failed
  unsaved  \* history: sources a value of which could not be saved

clientVars == <<source, field, pc, op, values, link, err, before, given, sole, failed>>
dbVars     == <<links, targets, nextKey>>
vars == <<kind, clientVars, dbVars, calls, unsaved>>

-----------------------------------------------------------------------------
Keys(f) == ToSet(f) \ {0}
Named(vs) == ToSet(vs) \ {0, Bad}
LinksOf(L, s) == {l[2] : l \in {m \in L : m[1] = s}}

\* A link between a source and targets, over what the foreign keys were.
Linked(L, s, ks) ==
  LET new == {s} \X ks IN
  CASE kind = "many_to_many" -> L \cup new
    [] kind = "belongs_to"   -> {l \in L : l[1] # s} \cup new
    [] OTHER                 -> {l \in L : l[2] \notin ks} \cup new

\* The field with one more struct; a struct field is assigned.
Added(f, k) == IF IsSingle(kind) THEN <<k>> ELSE Append(f, k)

\* The first n structs without a key get one.
WithKeys(f, n) ==
  [i \in DOMAIN f |->
     LET blank == {j \in 1 .. i : f[j] = 0} IN
     IF f[i] = 0 /\ Cardinality(blank) <= n THEN nextKey + Cardinality(blank) - 1 ELSE f[i]]
Blanks(f) == Cardinality({i \in DOMAIN f : f[i] = 0})

\* What the end of a step means for the others' histories.
Meddles(c) == sole' = [d \in Clients |-> sole[d] /\ (links' = links \/ d = c)]
Continue(c, rest) ==
  pc' = [pc EXCEPT ![c] =
    IF rest # <<>> THEN "save" ELSE IF op[c] = "replace" THEN "unlink" ELSE "idle"]

\* Faulty: the error of the last step only.
Tells_Last(c, bad) == err' = [err EXCEPT ![c] = bad] /\ failed' = [failed EXCEPT ![c] = @ \/ bad]

\* setErr.
Tells(c, bad) == err' = [err EXCEPT ![c] = @ \/ bad] /\ failed' = [failed EXCEPT ![c] = @ \/ bad]

-----------------------------------------------------------------------------
\* DB.Association on a fresh handle, and the head of the call; Append to has_one
\* is Replace, which blanks the field.
Call(c, o, vs) ==
  /\ pc[c] = "idle" /\ calls < MaxCalls
  /\ calls' = calls + 1
  /\ LET replaces == o = "replace" \/ (o = "append" /\ kind = "has_one") IN
       /\ op' = [op EXCEPT ![c] = IF replaces THEN "replace" ELSE o]
       /\ field' = [field EXCEPT ![c] = IF replaces THEN <<>> ELSE @]
       /\ pc' = [pc EXCEPT ![c] =
            CASE o = "delete" -> IF vs = <<>> THEN "idle" ELSE "delete"
              [] o # "delete" /\ vs # <<>> -> "save"
              [] OTHER -> IF replaces THEN "unlink" ELSE "idle"]
  /\ values' = [values EXCEPT ![c] = vs]
  /\ err' = [err EXCEPT ![c] = FALSE] /\ failed' = [failed EXCEPT ![c] = FALSE]
  /\ before' = [before EXCEPT ![c] = links]
  /\ given' = [given EXCEPT ![c] = <<>>]
  /\ sole' = [sole EXCEPT ![c] = TRUE]
  /\ UNCHANGED <<kind, source, link, dbVars, unsaved>>

\* saveAssociations: a value that is neither a struct nor a slice.
InvalidValue(c) ==
  /\ pc[c] = "save" /\ Head(values[c]) = Bad
  /\ values' = [values EXCEPT ![c] = Tail(@)]
  /\ Tells(c, TRUE) /\ Continue(c, Tail(values[c]))
  /\ UNCHANGED <<kind, source, field, op, link, before, given, sole, dbVars, calls, unsaved>>

\* Faulty: takes the key before the value is saved.
SaveValue_KeyFirst(c) ==
  /\ pc[c] = "save" /\ kind = "many_to_many" /\ Head(values[c]) # Bad
  /\ LET new == Head(values[c]) = 0
         k   == IF new THEN nextKey ELSE Head(values[c])
     IN /\ field' = [field EXCEPT ![c] = Added(@, k)]
        /\ given' = [given EXCEPT ![c] = Append(@, k)]
        /\ link' = [link EXCEPT ![c] = Head(values[c])]
        /\ targets' = targets \cup (IF new THEN {k} ELSE {})
        /\ nextKey' = IF new THEN nextKey + 1 ELSE nextKey
  /\ values' = [values EXCEPT ![c] = Tail(@)]
  /\ pc' = [pc EXCEPT ![c] = "link"]
  /\ UNCHANGED <<kind, source, op, err, before, sole, failed, links, calls, unsaved>>

\* A value of a many-to-many field is saved first if it has no key.  It goes
\* into the field, and its link is next, saved or not.
SaveValue(c) ==
  /\ pc[c] = "save" /\ kind = "many_to_many" /\ Head(values[c]) # Bad
  /\ LET new == Head(values[c]) = 0
         k   == IF new THEN nextKey ELSE Head(values[c])
     IN /\ field' = [field EXCEPT ![c] = Added(@, k)]
        /\ given' = [given EXCEPT ![c] = Append(@, k)]
        /\ link' = [link EXCEPT ![c] = k]
        /\ targets' = targets \cup (IF new THEN {k} ELSE {})
        /\ nextKey' = IF new THEN nextKey + 1 ELSE nextKey
  /\ values' = [values EXCEPT ![c] = Tail(@)]
  /\ pc' = [pc EXCEPT ![c] = "link"]
  /\ UNCHANGED <<kind, source, op, err, before, sole, failed, links, calls, unsaved>>

\* The key stays in the struct if the insert was made and then rolled back.
SaveValueFails(c) ==
  /\ pc[c] = "save" /\ kind = "many_to_many" /\ Head(values[c]) = 0
  /\ \E k \in {0, nextKey} :
       /\ field' = [field EXCEPT ![c] = Added(@, k)]
       /\ link' = [link EXCEPT ![c] = k]
       /\ nextKey' = IF k = 0 THEN nextKey ELSE nextKey + 1
  /\ values' = [values EXCEPT ![c] = Tail(@)]
  /\ Tells(c, TRUE) /\ unsaved' = unsaved \cup {source[c]}
  /\ pc' = [pc EXCEPT ![c] = "link"]
  /\ UNCHANGED <<kind, source, op, before, given, sole, links, targets, calls>>

\* JoinTableHandler.Add: INSERT ... WHERE NOT EXISTS.
AddLink(c) ==
  /\ pc[c] = "link"
  /\ links' = Linked(links, source[c], {link[c]})
  /\ Continue(c, values[c]) /\ Meddles(c)
  /\ UNCHANGED <<kind, source, field, op, values, link, err, before, given, failed,
                 targets, nextKey, calls, unsaved>>

AddLinkFails(c) ==
  /\ pc[c] = "link"
  /\ Tells(c, TRUE) /\ Continue(c, values[c])
  /\ UNCHANGED <<kind, source, field, op, values, link, before, given, sole, dbVars, calls, unsaved>>

\* Other kinds: the source is saved with the field, in one transaction.  All
\* structs of the field are saved and linked, those that were there before too.
\* Save then reads the source if no row was updated, which may fail as well.
SaveSource(c) ==
  /\ pc[c] = "save" /\ kind # "many_to_many" /\ Head(values[c]) # Bad
  /\ LET f    == Added(field[c], Head(values[c]))
         full == WithKeys(f, Len(f))
     IN /\ field' = [field EXCEPT ![c] = full]
        /\ \E late \in BOOLEAN : Tells(c, late)
        /\ given' = [given EXCEPT ![c] =
             Append(@, IF Head(values[c]) = 0 THEN nextKey + Blanks(f) - 1 ELSE Head(values[c]))]
        /\ targets' = targets \cup ToSet(full)
        /\ nextKey' = nextKey + Blanks(f)
        /\ links' = Linked(links, source[c], ToSet(full))
  /\ values' = [values EXCEPT ![c] = Tail(@)]
  /\ Continue(c, Tail(values[c])) /\ Meddles(c)
  /\ UNCHANGED <<kind, source, op, link, before, calls, unsaved>>

\* Nothing is linked; the field keeps the struct, and keys that were rolled back.
SaveSourceFails(c) ==
  /\ pc[c] = "save" /\ kind # "many_to_many" /\ Head(values[c]) # Bad
  /\ LET f == Added(field[c], Head(values[c])) IN
     \E n \in 0 .. Blanks(f) :
       /\ field' = [field EXCEPT ![c] = WithKeys(f, n)]
       /\ nextKey' = nextKey + n
  /\ values' = [values EXCEPT ![c] = Tail(@)]
  /\ Tells(c, TRUE) /\ Continue(c, Tail(values[c]))
  /\ UNCHANGED <<kind, source, op, link, before, given, sole, links, targets, calls, unsaved>>

\* Faulty: removes the new ones too.
Unlinked_All(L, s, ks) == {l \in L : l[1] # s}

\* The links of a source go, those with the keys stay.
Unlinked(L, s, ks) == {l \in L : l[1] # s \/ l[2] \in ks}

NoneGiven(c) == field[c] = <<>> /\ ~err[c]

\* The rest of Replace, after an error as well; a belongs_to is set to null if
\* no values were given.
Unlink(c) ==
  /\ pc[c] = "unlink"
  /\ links' = IF kind = "belongs_to" /\ ~NoneGiven(c) THEN links
              ELSE Unlinked(links, source[c], Keys(field[c]))
  /\ pc' = [pc EXCEPT ![c] = "idle"] /\ Meddles(c)
  /\ UNCHANGED <<kind, source, field, op, values, link, err, before, given, failed,
                 targets, nextKey, calls, unsaved>>

UnlinkFails(c) ==
  /\ pc[c] = "unlink"
  /\ kind = "belongs_to" => NoneGiven(c)
  /\ pc' = [pc EXCEPT ![c] = "idle"] /\ Tells(c, TRUE)
  /\ UNCHANGED <<kind, source, field, op, values, link, before, given, sole, dbVars, calls, unsaved>>

\* Faulty: the rows of everybody.
Cut_Everywhere(s, ks) == {l \in links : l[2] \in ks}

\* The links Delete removes: belongs_to does not say of which source, and a
\* polymorphic one not of which type.
Cut(s, ks) ==
  {l \in links : /\ l[2] \in ks
                 /\ \/ kind = "belongs_to" \/ l[1] = s
                    \/ kind = "polymorphic" /\ l[1].id = s.id}

\* The first key of a struct that has none is asked for: index out of range.
NoFirstKey(f) == IF IsSingle(kind) THEN Keys(f) = {} ELSE 0 \in ToSet(f)

\* The structs with other keys, in their order (one such sequence).
Without(f, ks) ==
  LET left == {i \in DOMAIN f : f[i] \notin ks} IN
  {[j \in DOMAIN o |-> f[o[j]]] :
     o \in {s \in SetToSeqs(left) : \A i, j \in DOMAIN s : i < j => s[i] < s[j]}}

Delete(c) ==
  /\ pc[c] = "delete"
  /\ LET ks == Named(values[c]) IN
       /\ links' = links \ Cut(source[c], ks)
       /\ IF NoFirstKey(field[c])
          THEN pc' = [pc EXCEPT ![c] = "panicked"] /\ UNCHANGED field
          ELSE /\ pc' = [pc EXCEPT ![c] = "idle"]
               /\ \E f \in Without(field[c], ks) : field' = [field EXCEPT ![c] = f]
  /\ given' = [given EXCEPT ![c] = values[c]]
  /\ values' = [values EXCEPT ![c] = <<>>] /\ Meddles(c)
  /\ UNCHANGED <<kind, source, op, link, err, before, failed, targets, nextKey, calls, unsaved>>

DeleteFails(c) ==
  /\ pc[c] = "delete"
  /\ values' = [values EXCEPT ![c] = <<>>]
  /\ pc' = [pc EXCEPT ![c] = "idle"] /\ Tells(c, TRUE)
  /\ UNCHANGED <<kind, source, field, op, link, before, given, sole, dbVars, calls, unsaved>>

-----------------------------------------------------------------------------
\* A struct is loaded with its association, in any order, or without.
Loaded(s) == SetToSeqs(LinksOf(OldLinks[kind], s))

Init ==
  /\ kind \in Kinds
  /\ source \in [Clients -> Sources]
  /\ kind # "polymorphic" => \A c, d \in Clients : source[c].type = source[d].type
  /\ field \in [Clients -> {<<>>} \cup UNION {Loaded(s) : s \in Sources}]
  /\ \A c \in Clients : field[c] \in {<<>>} \cup Loaded(source[c])
  /\ pc = [c \in Clients |-> "idle"] /\ op = [c \in Clients |-> "append"]
  /\ values = [c \in Clients |-> <<>>] /\ link = [c \in Clients |-> 0]
  /\ err = [c \in Clients |-> FALSE]
  /\ links = OldLinks[kind] /\ targets = Old /\ nextKey = Cardinality(Old) + 1
  /\ calls = 0
  /\ before = [c \in Clients |-> links] /\ given = [c \in Clients |-> <<>>]
  /\ sole = [c \in Clients |-> FALSE] /\ failed = [c \in Clients |-> FALSE]
  /\ unsaved = {}

Step(c) ==
  \/ InvalidValue(c) \/ SaveValue(c) \/ SaveValueFails(c) \/ AddLink(c) \/ AddLinkFails(c)
  \/ SaveSource(c) \/ SaveSourceFails(c) \/ Unlink(c) \/ UnlinkFails(c)
  \/ Delete(c) \/ DeleteFails(c)

Next ==
  \E c \in Clients :
    \/ \E o \in {"append", "replace", "delete"}, vs \in Values : Call(c, o, vs)
    \/ Step(c)

Spec == Init /\ [][Next]_vars

-----------------------------------------------------------------------------
(* Properties.                                                             *)

KeySet == 0 .. Bad
\* The types of the variables.
TypeOK ==
  /\ kind \in Kinds /\ source \in [Clients -> Sources]
  /\ pc \in [Clients -> {"idle", "save", "link", "unlink", "delete", "panicked"}]
  /\ op \in [Clients -> {"append", "replace", "delete"}]
  /\ \A c \in Clients : /\ field[c] \in Seq(KeySet \ {Bad}) /\ values[c] \in Seq(KeySet)
                       /\ given[c] \in Seq(KeySet)
                       /\ IsSingle(kind) => Len(field[c]) <= 1
  /\ link \in [Clients -> KeySet \ {Bad}]
  /\ err \in [Clients -> BOOLEAN] /\ sole \in [Clients -> BOOLEAN]
  /\ failed \in [Clients -> BOOLEAN]
  /\ links \subseteq Sources \X KeySet /\ targets \subseteq 1 .. nextKey - 1
  /\ \A c \in Clients : before[c] \subseteq Sources \X KeySet
  /\ calls \in 0 .. MaxCalls /\ unsaved \subseteq Sources

Ours(c) == LinksOf(links, source[c])
Were(c) == LinksOf(before[c], source[c])
Fine(c) == pc[c] = "idle" /\ ~err[c]

\* What the values of the call make: those of a struct field, the last one.
Asked(c) ==
  IF IsSingle(kind) /\ given[c] # <<>> THEN {Last(given[c])} ELSE ToSet(given[c])

\* A call that reports no error has done what it was asked for, if no other
\* client changed links meanwhile: values appended to many are linked next to
\* what was there, values put in place of others are the only ones, also in the
\* field, deleted ones are gone and no others.
AskedIsDone ==
  \A c \in Clients : Fine(c) /\ sole[c] =>
    CASE op[c] = "append" ->
           IF kind = "belongs_to" THEN given[c] # <<>> => Ours(c) = Asked(c)
           ELSE (Were(c) \cup Asked(c)) \subseteq Ours(c) /\ Ours(c) \subseteq Were(c) \cup Keys(field[c])
      [] op[c] = "replace" -> Ours(c) = Asked(c) /\ Keys(field[c]) = Asked(c)
      [] op[c] = "delete" -> Ours(c) = Were(c) \ Named(given[c])

\* A call one step of which failed reports an error, whatever succeeded after.
ErrorTold == \A c \in Clients : pc[c] = "idle" /\ failed[c] => err[c]

\* Links point to rows; the exception is a source that a value was added to
\* which could not be saved (association.go:343 goes on and links it).
LinksHaveRows == \A l \in links : l[2] \in targets \/ l[1] \in unsaved

\* A step of a call removes links of its own source only.  Others lose a target
\* when it is given to this source, and by two deletions: a belongs_to one takes
\* every source's link, a polymorphic one that of an owner with the same id.
OthersKeepLinks ==
  [][\A l \in links \ links' : \E c \in Clients :
       /\ pc'[c] # pc[c] \/ values'[c] # values[c]
       /\ \/ l[1] = source[c]
          \/ <<source[c], l[2]>> \in links'
          \/ pc[c] = "delete" /\ (kind = "belongs_to" \/ (kind = "polymorphic" /\ l[1].id = source[c].id))]_vars

\* association.go:129 says Delete removes the relationship between source and
\* the arguments: other sources keep theirs.
DeleteIsOwn ==
  [][\A c \in Clients : pc[c] = "delete" /\ pc'[c] # "delete" =>
       \A l \in links \ links' : l[1] = source[c]]_vars
=============================================================================
