----------------------- MODULE AssociationMode_proofs -----------------------
(***************************************************************************)
(* Proofs about AssociationMode, for any clients, sources, links and       *)
(* values: links point to rows unless a value could not be saved, a step   *)
(* of a call takes links of its own source only, a call without an error   *)
(* has done what was asked, and no error of a step is lost.                *)
(***************************************************************************)
EXTENDS AssociationMode, FiniteSetTheorems, TLAPS

Passed == Old \cup {0, Bad}
Places == {"idle", "save", "link", "unlink", "delete", "panicked"}

\* What is passed and not saved yet are keys of rows that were there.
ValuesKnown ==
  /\ values \in [Clients -> Seq(Passed)]
  /\ Old \subseteq targets

\* A call that saves has something to save; between saving a value and linking
\* it, the row is there or its source is known to have an unsaved value.
PlaceKnown ==
  /\ pc \in [Clients -> Places] /\ DOMAIN link = Clients
  /\ \A c \in Clients :
       /\ pc[c] = "save" => values[c] # <<>>
       /\ pc[c] = "link" =>
            kind = "many_to_many" /\ (link[c] \in targets \/ source[c] \in unsaved)

AInv == ValuesKnown /\ PlaceKnown /\ LinksHaveRows

-----------------------------------------------------------------------------
\* A step that takes no link away and adds none but links to rows, while rows
\* and unsaved values only grow.
LEMMA LinksStay ==
  ASSUME LinksHaveRows, targets \subseteq targets', unsaved \subseteq unsaved',
         \A l \in links' \ links : l[2] \in targets' \/ l[1] \in unsaved'
  PROVE  LinksHaveRows'
<1>1. ASSUME NEW l \in links' PROVE l[2] \in targets' \/ l[1] \in unsaved'
  <2>1. CASE l \in links BY <2>1 DEF LinksHaveRows
  <2>2. CASE l \notin links BY <1>1, <2>2
  <2> QED BY <2>1, <2>2
<1> QED BY <1>1 DEF LinksHaveRows

\* What is left after the first of the values.
LEMMA RestPassed ==
  ASSUME NEW v \in Seq(Passed), v # <<>>
  PROVE  /\ Tail(v) \in Seq(Passed) /\ Tail(v) # v
         /\ Head(v) \in Passed
BY SMT

\* Every link Linked makes was there or is one of the new ones.
LEMMA LinkedFrom ==
  ASSUME NEW L, NEW s, NEW ks, NEW l \in Linked(L, s, ks), l \notin L
  PROVE  l[1] = s /\ l[2] \in ks
<1>1. l \in {s} \X ks BY DEF Linked
<1> QED BY <1>1

\* The place after a value is done.
LEMMA Continued ==
  ASSUME pc \in [Clients -> Places], NEW c \in Clients, NEW rest, Continue(c, rest)
  PROVE  /\ pc' \in [Clients -> Places]
         /\ pc'[c] \in {"save", "unlink", "idle"}
         /\ pc'[c] = "save" => rest # <<>>
         /\ \A d \in Clients \ {c} : pc'[d] = pc[d]
BY DEF Continue, Places

-----------------------------------------------------------------------------
\* The invariant holds at the start.
LEMMA AInit == Init => AInv
<1> SUFFICES ASSUME Init PROVE AInv OBVIOUS
<1>1. ValuesKnown BY DEF Init, ValuesKnown, Passed
<1>2. PlaceKnown BY DEF Init, PlaceKnown, Places
<1>3. LinksHaveRows
  <2>1. links \subseteq Sources \X Old BY OldAssumption DEF Init
  <2> QED BY <2>1 DEF Init, LinksHaveRows
<1> QED BY <1>1, <1>2, <1>3 DEF AInv

\* A call begins.
LEMMA ACall ==
  ASSUME AInv, NEW c \in Clients, NEW o \in {"append", "replace", "delete"},
         NEW vs \in Values, Call(c, o, vs)
  PROVE  AInv'
<1>1. vs \in Seq(Passed) BY ValuesAssumption DEF Passed
<1>2. ValuesKnown' BY <1>1 DEF AInv, ValuesKnown, Call, dbVars
<1>3. PlaceKnown'
  <2>1. pc' \in [Clients -> Places] BY DEF AInv, PlaceKnown, Call, Places
  <2>2. pc'[c] # "link" /\ (pc'[c] = "save" => vs # <<>>)
    BY DEF AInv, PlaceKnown, Call
  <2>3. \A d \in Clients \ {c} : pc'[d] = pc[d] /\ values'[d] = values[d]
    BY DEF AInv, PlaceKnown, ValuesKnown, Call
  <2>4. values'[c] = vs BY DEF AInv, ValuesKnown, Call
  <2> QED BY <2>1, <2>2, <2>3, <2>4 DEF AInv, PlaceKnown, Call, dbVars
<1>4. LinksHaveRows' BY DEF AInv, LinksHaveRows, Call, dbVars
<1> QED BY <1>2, <1>3, <1>4 DEF AInv

\* An invalid value is passed over.
LEMMA AInvalidValue ==
  ASSUME AInv, NEW c \in Clients, InvalidValue(c)
  PROVE  AInv'
<1>1. Tail(values[c]) \in Seq(Passed)
  BY RestPassed DEF AInv, PlaceKnown, ValuesKnown, InvalidValue
<1>2. ValuesKnown' BY <1>1 DEF AInv, ValuesKnown, InvalidValue, dbVars
<1>3. PlaceKnown'
  <2>1. values'[c] = Tail(values[c]) /\ \A d \in Clients \ {c} : values'[d] = values[d]
    BY DEF AInv, ValuesKnown, InvalidValue
  <2>2. Continue(c, Tail(values[c])) BY DEF InvalidValue
  <2>3. pc' \in [Clients -> Places] /\ pc'[c] \in {"save", "unlink", "idle"}
        /\ (pc'[c] = "save" => Tail(values[c]) # <<>>)
        /\ \A d \in Clients \ {c} : pc'[d] = pc[d]
    BY <2>2, Continued DEF AInv, PlaceKnown
  <2> QED BY <2>1, <2>3 DEF AInv, PlaceKnown, InvalidValue, dbVars
<1>4. LinksHaveRows' BY DEF AInv, LinksHaveRows, InvalidValue, dbVars
<1> QED BY <1>2, <1>3, <1>4 DEF AInv

\* A value of a many-to-many field has a row, old or new, before it is linked.
LEMMA ASaveValue ==
  ASSUME AInv, NEW c \in Clients, SaveValue(c)
  PROVE  AInv'
<1>1. Tail(values[c]) \in Seq(Passed) /\ Head(values[c]) \in Passed
  BY RestPassed DEF AInv, PlaceKnown, ValuesKnown, SaveValue
<1>2. targets \subseteq targets' BY DEF SaveValue
<1>3. ValuesKnown' BY <1>1, <1>2 DEF AInv, ValuesKnown, SaveValue
<1>4. PlaceKnown'
  <2>1. pc' = [pc EXCEPT ![c] = "link"] /\ kind' = kind /\ kind = "many_to_many"
        /\ source' = source /\ unsaved' = unsaved
    BY DEF SaveValue
  <2>2. DOMAIN link' = Clients /\ link'[c] \in targets'
        /\ \A d \in Clients \ {c} : link'[d] = link[d]
    <3>1. CASE Head(values[c]) = 0 BY <3>1 DEF AInv, PlaceKnown, SaveValue
    <3>2. CASE Head(values[c]) # 0
      <4>1. Head(values[c]) \in targets
        BY <1>1, <3>2 DEF AInv, ValuesKnown, Passed, SaveValue
      <4> QED BY <3>2, <4>1, <1>2 DEF AInv, PlaceKnown, SaveValue
    <3> QED BY <3>1, <3>2
  <2>3. \A d \in Clients \ {c} : values'[d] = values[d]
    BY DEF AInv, ValuesKnown, SaveValue
  <2>4. pc' \in [Clients -> Places] /\ pc'[c] = "link"
        /\ \A d \in Clients \ {c} : pc'[d] = pc[d]
    BY <2>1 DEF AInv, PlaceKnown, Places
  <2> QED BY <2>1, <2>2, <2>3, <2>4, <1>2 DEF AInv, PlaceKnown
<1>5. LinksHaveRows' BY <1>2, LinksStay DEF AInv, SaveValue
<1> QED BY <1>3, <1>4, <1>5 DEF AInv

\* A value that is not saved is linked all the same, and known as unsaved.
LEMMA ASaveValueFails ==
  ASSUME AInv, NEW c \in Clients, SaveValueFails(c)
  PROVE  AInv'
<1>1. Tail(values[c]) \in Seq(Passed)
  BY RestPassed DEF AInv, PlaceKnown, ValuesKnown, SaveValueFails
<1>2. ValuesKnown' BY <1>1 DEF AInv, ValuesKnown, SaveValueFails
<1>3. PlaceKnown'
  <2>1. pc' = [pc EXCEPT ![c] = "link"] /\ kind' = kind /\ kind = "many_to_many"
        /\ source' = source /\ unsaved' = unsaved \cup {source[c]} /\ targets' = targets
    BY DEF SaveValueFails
  <2>2. DOMAIN link' = Clients /\ \A d \in Clients \ {c} : link'[d] = link[d]
    BY DEF AInv, PlaceKnown, SaveValueFails
  <2>3. \A d \in Clients \ {c} : values'[d] = values[d]
    BY DEF AInv, ValuesKnown, SaveValueFails
  <2>4. pc' \in [Clients -> Places] /\ pc'[c] = "link"
        /\ \A d \in Clients \ {c} : pc'[d] = pc[d]
    BY <2>1 DEF AInv, PlaceKnown, Places
  <2> QED BY <2>1, <2>2, <2>3, <2>4 DEF AInv, PlaceKnown
<1>4. LinksHaveRows' BY LinksStay DEF AInv, SaveValueFails
<1> QED BY <1>2, <1>3, <1>4 DEF AInv

\* The link made is to a row, or its source is known to have an unsaved value.
LEMMA AAddLink ==
  ASSUME AInv, NEW c \in Clients, AddLink(c)
  PROVE  AInv'
<1>1. Continue(c, values[c]) /\ UNCHANGED <<kind, source, values, link, targets, unsaved>>
  BY DEF AddLink
<1>2. ValuesKnown' BY <1>1 DEF AInv, ValuesKnown
<1>3. PlaceKnown' BY <1>1, Continued DEF AInv, PlaceKnown
<1>4. LinksHaveRows'
  <2>1. kind = "many_to_many" /\ (link[c] \in targets \/ source[c] \in unsaved)
    BY DEF AInv, PlaceKnown, AddLink
  <2>2. \A l \in links' \ links : l[1] = source[c] /\ l[2] = link[c]
    BY LinkedFrom DEF AddLink
  <2> QED BY <1>1, <2>1, <2>2, LinksStay DEF AInv
<1> QED BY <1>2, <1>3, <1>4 DEF AInv

\* Nothing is linked.
LEMMA AAddLinkFails ==
  ASSUME AInv, NEW c \in Clients, AddLinkFails(c)
  PROVE  AInv'
<1>1. Continue(c, values[c])
      /\ UNCHANGED <<kind, source, values, link, links, targets, unsaved>>
  BY DEF AddLinkFails, dbVars
<1>2. ValuesKnown' BY <1>1 DEF AInv, ValuesKnown
<1>3. PlaceKnown' BY <1>1, Continued DEF AInv, PlaceKnown
<1>4. LinksHaveRows' BY <1>1 DEF AInv, LinksHaveRows
<1> QED BY <1>2, <1>3, <1>4 DEF AInv

\* Every struct of the field is saved with its source before it is linked.
LEMMA ASaveSource ==
  ASSUME AInv, NEW c \in Clients, SaveSource(c)
  PROVE  AInv'
<1>1. Tail(values[c]) \in Seq(Passed)
  BY RestPassed DEF AInv, PlaceKnown, ValuesKnown, SaveSource
<1>2. values' = [values EXCEPT ![c] = Tail(@)] /\ Continue(c, Tail(values[c]))
      /\ targets \subseteq targets' /\ UNCHANGED <<kind, source, link, unsaved>>
  BY DEF SaveSource
<1>3. ValuesKnown' BY <1>1, <1>2 DEF AInv, ValuesKnown
<1>4. PlaceKnown'
  <2>1. values'[c] = Tail(values[c]) /\ \A d \in Clients \ {c} : values'[d] = values[d]
    BY <1>2 DEF AInv, ValuesKnown
  <2>2. pc' \in [Clients -> Places] /\ pc'[c] \in {"save", "unlink", "idle"}
        /\ (pc'[c] = "save" => Tail(values[c]) # <<>>)
        /\ \A d \in Clients \ {c} : pc'[d] = pc[d]
    BY <1>2, Continued DEF AInv, PlaceKnown
  <2> QED BY <1>2, <2>1, <2>2 DEF AInv, PlaceKnown
<1>5. LinksHaveRows'
  <2>1. PICK ks : ks \subseteq targets' /\ links' = Linked(links, source[c], ks)
    BY DEF SaveSource
  <2>2. \A l \in links' \ links : l[2] \in targets' BY <2>1, LinkedFrom
  <2> QED BY <1>2, <2>2, LinksStay DEF AInv
<1> QED BY <1>3, <1>4, <1>5 DEF AInv

\* The transaction of Save was rolled back.
LEMMA ASaveSourceFails ==
  ASSUME AInv, NEW c \in Clients, SaveSourceFails(c)
  PROVE  AInv'
<1>1. Tail(values[c]) \in Seq(Passed)
  BY RestPassed DEF AInv, PlaceKnown, ValuesKnown, SaveSourceFails
<1>2. values' = [values EXCEPT ![c] = Tail(@)] /\ Continue(c, Tail(values[c]))
      /\ UNCHANGED <<kind, source, link, links, targets, unsaved>>
  BY DEF SaveSourceFails
<1>3. ValuesKnown' BY <1>1, <1>2 DEF AInv, ValuesKnown
<1>4. PlaceKnown'
  <2>1. values'[c] = Tail(values[c]) /\ \A d \in Clients \ {c} : values'[d] = values[d]
    BY <1>2 DEF AInv, ValuesKnown
  <2>2. pc' \in [Clients -> Places] /\ pc'[c] \in {"save", "unlink", "idle"}
        /\ (pc'[c] = "save" => Tail(values[c]) # <<>>)
        /\ \A d \in Clients \ {c} : pc'[d] = pc[d]
    BY <1>2, Continued DEF AInv, PlaceKnown
  <2> QED BY <1>2, <2>1, <2>2 DEF AInv, PlaceKnown
<1>5. LinksHaveRows' BY <1>2 DEF AInv, LinksHaveRows
<1> QED BY <1>3, <1>4, <1>5 DEF AInv

\* A call that is over, with no link that was not there.
LEMMA Ended ==
  ASSUME AInv, NEW c \in Clients, pc' = [pc EXCEPT ![c] = "idle"],
         links' \subseteq links, UNCHANGED <<kind, source, values, link, targets, unsaved>>
  PROVE  AInv'
<1>1. ValuesKnown' BY DEF AInv, ValuesKnown
<1>2. PlaceKnown' BY DEF AInv, PlaceKnown, Places
<1>3. LinksHaveRows' BY DEF AInv, LinksHaveRows
<1> QED BY <1>1, <1>2, <1>3 DEF AInv

\* Replace removes what is not in the field.
LEMMA AUnlink ==
  ASSUME AInv, NEW c \in Clients, Unlink(c) \/ UnlinkFails(c)
  PROVE  AInv'
<1>1. CASE Unlink(c)
  <2>1. links' \subseteq links BY <1>1 DEF Unlink, Unlinked
  <2> QED BY <1>1, <2>1, Ended DEF Unlink
<1>2. CASE UnlinkFails(c) BY <1>2, Ended DEF UnlinkFails, dbVars
<1> QED BY <1>1, <1>2

\* Delete removes, or fails, or panics after it removed.
LEMMA ADelete ==
  ASSUME AInv, NEW c \in Clients, Delete(c) \/ DeleteFails(c)
  PROVE  AInv'
<1>1. /\ links' \subseteq links /\ UNCHANGED <<kind, source, link, targets, unsaved>>
      /\ values' = [values EXCEPT ![c] = <<>>]
      /\ \E p \in {"idle", "panicked"} : pc' = [pc EXCEPT ![c] = p]
  BY DEF Delete, DeleteFails, Cut, dbVars
<1>2. ValuesKnown' BY <1>1 DEF AInv, ValuesKnown
<1>3. PlaceKnown'
  <2>1. \A d \in Clients \ {c} : values'[d] = values[d] BY <1>1 DEF AInv, ValuesKnown
  <2> QED BY <1>1, <2>1 DEF AInv, PlaceKnown, Places
<1>4. LinksHaveRows' BY <1>1 DEF AInv, LinksHaveRows
<1> QED BY <1>2, <1>3, <1>4 DEF AInv

\* Every step keeps the invariant.
LEMMA ANext == AInv /\ [Next]_vars => AInv'
<1> SUFFICES ASSUME AInv, [Next]_vars PROVE AInv' OBVIOUS
<1>1. CASE UNCHANGED vars
  BY <1>1 DEF vars, clientVars, dbVars, AInv, ValuesKnown, PlaceKnown, LinksHaveRows
<1>2. ASSUME NEW c \in Clients, NEW o \in {"append", "replace", "delete"},
             NEW vs \in Values, Call(c, o, vs)
      PROVE  AInv'
  BY <1>2, ACall
<1>3. ASSUME NEW c \in Clients, Step(c) PROVE AInv'
  BY <1>3, AInvalidValue, ASaveValue, ASaveValueFails, AAddLink, AAddLinkFails,
     ASaveSource, ASaveSourceFails, AUnlink, ADelete DEF Step
<1> QED BY <1>1, <1>2, <1>3 DEF Next

\* Whatever calls are made and whatever fails, a link in the database points to
\* a row, unless saveAssociations went on to link a value it could not save.
THEOREM LinkedRowsExist == Spec => []LinksHaveRows
<1>1. AInv => LinksHaveRows BY DEF AInv
<1> QED BY <1>1, AInit, ANext, PTL DEF Spec

-----------------------------------------------------------------------------
\* A client whose step removes a link is seen to make it.
LEMMA Moves ==
  ASSUME AInv, NEW c \in Clients, Step(c)
  PROVE  pc'[c] # pc[c] \/ values'[c] # values[c]
<1>1. CASE pc[c] = "save"
  <2>1. Tail(values[c]) # values[c] BY <1>1, RestPassed DEF AInv, PlaceKnown, ValuesKnown
  <2>2. values'[c] = Tail(values[c])
    BY <1>1 DEF AInv, ValuesKnown, Step, InvalidValue, SaveValue, SaveValueFails,
       AddLink, AddLinkFails, SaveSource, SaveSourceFails, Unlink, UnlinkFails,
       Delete, DeleteFails
  <2> QED BY <2>1, <2>2
<1>2. CASE pc[c] # "save"
  <2>1. CASE AddLink(c) \/ AddLinkFails(c)
    BY <2>1, Continued DEF AInv, PlaceKnown, AddLink, AddLinkFails
  <2>2. CASE Unlink(c) \/ UnlinkFails(c)
    BY <2>2 DEF AInv, PlaceKnown, Unlink, UnlinkFails
  <2>3. CASE Delete(c) \/ DeleteFails(c)
    BY <2>3 DEF AInv, PlaceKnown, Delete, DeleteFails
  <2> QED BY <1>2, <2>1, <2>2, <2>3 DEF Step, InvalidValue, SaveValue, SaveValueFails,
          SaveSource, SaveSourceFails
<1> QED BY <1>1, <1>2

\* What Linked takes away is the source's, or given to the source.
LEMMA LinkedTakes ==
  ASSUME NEW s, NEW ks, NEW l \in links, l \notin Linked(links, s, ks)
  PROVE  l[1] = s \/ <<s, l[2]>> \in Linked(links, s, ks)
BY DEF Linked

\* The link a step removes: its own source's, one given to it, or by Delete.
LEMMA Removes ==
  ASSUME NEW c \in Clients, Step(c), NEW l \in links \ links'
  PROVE  \/ l[1] = source[c]
         \/ <<source[c], l[2]>> \in links'
         \/ pc[c] = "delete" /\ (kind = "belongs_to" \/ (kind = "polymorphic" /\ l[1].id = source[c].id))
<1>1. CASE AddLink(c) BY <1>1, LinkedTakes DEF AddLink
<1>2. CASE SaveSource(c)
  <2>1. PICK ks : links' = Linked(links, source[c], ks) BY <1>2 DEF SaveSource
  <2> QED BY <2>1, LinkedTakes
<1>3. CASE Unlink(c) BY <1>3 DEF Unlink, Unlinked
<1>4. CASE Delete(c)
  <2>1. PICK ks : links' = links \ Cut(source[c], ks) BY <1>4 DEF Delete
  <2> QED BY <1>4, <2>1 DEF Cut, Delete
<1> QED BY <1>1, <1>2, <1>3, <1>4 DEF Step, InvalidValue, SaveValue, SaveValueFails,
        AddLinkFails, SaveSourceFails, UnlinkFails, DeleteFails, dbVars

\* Whatever is called with whatever values, on however many sources: Append and
\* Replace take a link of another source only by giving its target to their own,
\* and Delete only as belongs_to and polymorphic deletions do (association.go:191).
THEOREM OthersUntouched == Spec => OthersKeepLinks
<1> DEFINE Allowed(l, c) ==
      /\ pc'[c] # pc[c] \/ values'[c] # values[c]
      /\ \/ l[1] = source[c]
         \/ <<source[c], l[2]>> \in links'
         \/ pc[c] = "delete" /\ (kind = "belongs_to" \/ (kind = "polymorphic" /\ l[1].id = source[c].id))
    A == \A l \in links \ links' : \E c \in Clients : Allowed(l, c)
<1>1. ASSUME AInv, Next PROVE A
  <2>1. ASSUME NEW c \in Clients, NEW o \in {"append", "replace", "delete"},
               NEW vs \in Values, Call(c, o, vs)
        PROVE  A
    BY <2>1 DEF Call, dbVars
  <2>2. ASSUME NEW c \in Clients, Step(c) PROVE A
    BY <1>1, <2>2, Moves, Removes
  <2> QED BY <1>1, <2>1, <2>2 DEF Next
<1>2. AInv /\ [Next]_vars => [A]_vars BY <1>1
<1>3. [][A]_vars => OthersKeepLinks BY DEF OthersKeepLinks
<1> QED BY <1>2, <1>3, AInit, ANext, PTL DEF Spec
-----------------------------------------------------------------------------
(* What a call has done so far.                                            *)

Typed ==
  /\ field \in [Clients -> Seq(Nat)] /\ given \in [Clients -> Seq(Nat)]
  /\ link \in [Clients -> Nat] /\ nextKey \in Nat \ {0}
  /\ DOMAIN op = Clients /\ DOMAIN err = Clients /\ DOMAIN failed = Clients
  /\ DOMAIN before = Clients /\ DOMAIN sole = Clients

\* The call that a place belongs to.
Placed(c) ==
  /\ op[c] \in {"append", "replace", "delete"}
  /\ pc[c] = "delete" => op[c] = "delete"
  /\ pc[c] \in {"save", "link"} => op[c] \in {"append", "replace"}
  /\ pc[c] = "unlink" => op[c] = "replace"

\* The key about to be linked.
Pending(c) == IF pc[c] = "link" THEN {link[c]} ELSE {}

\* What the field holds of the values given since Replace blanked it.
Shown(g) == IF ~IsSingle(kind) THEN g ELSE IF g = <<>> THEN <<>> ELSE <<Last(g)>>

Appending(c) ==
  IF kind = "belongs_to" THEN given[c] # <<>> => Ours(c) = {Last(given[c])}
  ELSE /\ ~IsSingle(kind)
       /\ Were(c) \cup ToSet(given[c]) \subseteq Ours(c) \cup Pending(c)
       /\ Ours(c) \cup Pending(c) \subseteq Were(c) \cup Keys(field[c])

Replacing(c) ==
  /\ field[c] = Shown(given[c]) /\ 0 \notin ToSet(given[c])
  /\ Asked(c) \subseteq Ours(c) \cup Pending(c)
  /\ kind = "belongs_to" /\ given[c] # <<>> => Ours(c) = Asked(c)
  /\ pc[c] = "idle" => Ours(c) = Asked(c)

Deleting(c) == Ours(c) = IF pc[c] = "delete" THEN Were(c) ELSE Were(c) \ Named(given[c])

\* Of a call with no error so far, and no other client among its links.
Did(c) == ~err[c] /\ sole[c] /\ pc[c] # "panicked" =>
  /\ op[c] = "append" => Appending(c)
  /\ op[c] = "replace" => Replacing(c)
  /\ op[c] = "delete" => Deleting(c)

DInv == Typed /\ \A c \in Clients : Placed(c) /\ Did(c) /\ (failed[c] => err[c])

\* Sequences of keys.
LEMMA SameSeq ==
  ASSUME NEW S, NEW s \in Seq(S), NEW t \in Seq(S), Len(s) = Len(t),
         \A i \in 1 .. Len(s) : s[i] = t[i]
  PROVE  s = t
OBVIOUS

LEMMA OneMore ==
  ASSUME NEW S, NEW s \in Seq(S), NEW x \in S
  PROVE  /\ Append(s, x) \in Seq(S) /\ Append(s, x) # <<>>
         /\ Last(Append(s, x)) = x
         /\ ToSet(Append(s, x)) = ToSet(s) \cup {x}
<1>1. Append(s, x) \in Seq(S) /\ Len(Append(s, x)) = Len(s) + 1 /\ Len(s) \in Nat
  OBVIOUS
<1>2. Append(s, x)[Len(s) + 1] = x /\ \A i \in 1 .. Len(s) : Append(s, x)[i] = s[i]
  OBVIOUS
<1>3. Append(s, x) # <<>> /\ Last(Append(s, x)) = x
  BY <1>1, <1>2 DEF Last
<1>4. DOMAIN s = 1 .. Len(s) /\ DOMAIN Append(s, x) = 1 .. Len(s) + 1
  BY <1>1
<1>5. ToSet(Append(s, x)) = ToSet(s) \cup {x}
  BY <1>1, <1>2, <1>4 DEF ToSet
<1> QED BY <1>1, <1>3, <1>5

LEMMA OneOnly ==
  ASSUME NEW S, NEW x \in S
  PROVE  /\ <<x>> \in Seq(S) /\ <<x>> # <<>> /\ Last(<<x>>) = x /\ ToSet(<<x>>) = {x}
         /\ Len(<<x>>) = 1 /\ <<x>>[1] = x
BY DEF Last, ToSet

LEMMA NoneYet == ToSet(<<>>) = {}
BY DEF ToSet

\* The links of a source after each of the statements.
LEMMA LinkedLinks ==
  ASSUME NEW L, NEW s, NEW ks
  PROVE  /\ kind = "belongs_to" => LinksOf(Linked(L, s, ks), s) = ks
         /\ kind # "belongs_to" => LinksOf(Linked(L, s, ks), s) = LinksOf(L, s) \cup ks
<1>1. ASSUME NEW k \in ks PROVE k \in LinksOf(Linked(L, s, ks), s)
  <2>1. <<s, k>> \in Linked(L, s, ks) BY DEF Linked
  <2>2. <<s, k>>[1] = s /\ <<s, k>>[2] = k OBVIOUS
  <2> QED BY <2>1, <2>2 DEF LinksOf
<1>2. ASSUME NEW k \in LinksOf(Linked(L, s, ks), s)
      PROVE  k \in ks \/ (kind # "belongs_to" /\ k \in LinksOf(L, s))
  <2>1. PICK l \in Linked(L, s, ks) : l[1] = s /\ l[2] = k BY DEF LinksOf
  <2>2. CASE l \in L /\ kind # "belongs_to" BY <2>1, <2>2 DEF LinksOf
  <2>3. CASE l \in L /\ kind = "belongs_to" /\ l \notin {s} \X ks
    BY <2>1, <2>3 DEF Linked
  <2>4. CASE l \in {s} \X ks BY <2>1, <2>4
  <2> QED BY <2>1, <2>2, <2>3, <2>4 DEF Linked
<1>3. ASSUME kind # "belongs_to", NEW k \in LinksOf(L, s)
      PROVE  k \in LinksOf(Linked(L, s, ks), s)
  <2>1. PICK l \in L : l[1] = s /\ l[2] = k BY <1>3 DEF LinksOf
  <2>2. CASE k \in ks BY <2>2, <1>1
  <2>3. CASE k \notin ks
    <3>1. l \in Linked(L, s, ks) BY <1>3, <2>1, <2>3 DEF Linked
    <3> QED BY <2>1, <3>1 DEF LinksOf
  <2> QED BY <2>2, <2>3
<1> QED BY <1>1, <1>2, <1>3

LEMMA UnlinkedLinks ==
  ASSUME NEW L, NEW s, NEW ks
  PROVE  LinksOf(Unlinked(L, s, ks), s) = LinksOf(L, s) \cap ks
BY DEF LinksOf, Unlinked

LEMMA CutLinks ==
  ASSUME NEW s, NEW ks
  PROVE  LinksOf(links \ Cut(s, ks), s) = LinksOf(links, s) \ ks
BY DEF LinksOf, Cut

\* How many structs up to i have no key: counted, and one at least if i has none.
LEMMA Counted ==
  ASSUME NEW f \in Seq(Nat), NEW i \in 1 .. Len(f)
  PROVE  LET blank == {j \in 1 .. i : f[j] = 0} IN
         /\ Cardinality(blank) \in Nat /\ Cardinality(blank) <= i
         /\ f[i] = 0 => Cardinality(blank) >= 1
<1> DEFINE blank == {j \in 1 .. i : f[j] = 0}
<1>1. i \in Nat /\ Len(f) \in Nat OBVIOUS
<1>2. IsFiniteSet(1 .. i) /\ Cardinality(1 .. i) = i
  BY <1>1, FS_Interval
<1>3. blank \subseteq 1 .. i OBVIOUS
<1>4. IsFiniteSet(blank) /\ Cardinality(blank) <= i
  BY <1>2, <1>3, FS_Subset
<1>5. Cardinality(blank) \in Nat BY <1>4, FS_CardinalityType
<1>6. ASSUME f[i] = 0 PROVE Cardinality(blank) >= 1
  <2>1. i \in blank BY <1>1, <1>6
  <2>2. blank # {} BY <2>1
  <2>3. Cardinality(blank) # 0 BY <1>4, <2>2, FS_EmptySet
  <2> QED BY <1>5, <2>3
<1> QED BY <1>4, <1>5, <1>6

\* Keys go to structs that have none, from the generator.
LEMMA Keyed ==
  ASSUME NEW f \in Seq(Nat), NEW n, nextKey \in Nat \ {0}
  PROVE  /\ WithKeys(f, n) \in Seq(Nat) /\ Len(WithKeys(f, n)) = Len(f)
         /\ \A i \in 1 .. Len(f) : f[i] # 0 => WithKeys(f, n)[i] = f[i]
<1> DEFINE blank(i) == {j \in 1 .. i : f[j] = 0}
           new(i) == IF f[i] = 0 /\ Cardinality(blank(i)) <= n
                       THEN nextKey + Cardinality(blank(i)) - 1 ELSE f[i]
<1>1. DOMAIN f = 1 .. Len(f) /\ Len(f) \in Nat OBVIOUS
<1>2. ASSUME NEW i \in 1 .. Len(f) PROVE new(i) \in Nat
  <2>1. f[i] \in Nat OBVIOUS
  <2>2. CASE f[i] = 0
    <3>1. PICK k : k = Cardinality(blank(i)) OBVIOUS
    <3>2. k \in Nat /\ k >= 1 BY <2>2, <3>1, Counted
    <3>3. nextKey + k - 1 \in Nat BY <3>2
    <3> QED BY <2>1, <3>1, <3>3
  <2> QED BY <2>1, <2>2
<1>3. WithKeys(f, n) = [i \in 1 .. Len(f) |-> new(i)] BY <1>1 DEF WithKeys
<1>4. WithKeys(f, n) \in [1 .. Len(f) -> Nat] BY <1>2, <1>3
<1>5. WithKeys(f, n) \in Seq(Nat) /\ Len(WithKeys(f, n)) = Len(f) BY <1>1, <1>4
<1> QED BY <1>3, <1>5

\* All of them are reached when there are as many.
LEMMA AllKeyed ==
  ASSUME NEW f \in Seq(Nat), nextKey \in Nat \ {0}
  PROVE  /\ \A i \in 1 .. Len(f) : WithKeys(f, Len(f))[i] # 0
         /\ f # <<>> /\ f[Len(f)] = 0 =>
              WithKeys(f, Len(f))[Len(f)] = nextKey + Blanks(f) - 1
<1> DEFINE blank(i) == {j \in 1 .. i : f[j] = 0}
<1>1. DOMAIN f = 1 .. Len(f) /\ Len(f) \in Nat OBVIOUS
<1>2. ASSUME NEW i \in 1 .. Len(f), f[i] = 0
      PROVE  /\ WithKeys(f, Len(f))[i] = nextKey + Cardinality(blank(i)) - 1
             /\ WithKeys(f, Len(f))[i] # 0
  <2>1. PICK k : k = Cardinality(blank(i)) OBVIOUS
  <2>2. k \in Nat /\ k >= 1 /\ k <= i BY <1>2, <2>1, Counted
  <2>3. k <= Len(f) /\ nextKey + k - 1 # 0 BY <1>1, <2>2
  <2>4. WithKeys(f, Len(f))[i] = nextKey + k - 1 BY <1>1, <1>2, <2>1, <2>3 DEF WithKeys
  <2> QED BY <2>1, <2>3, <2>4
<1>3. ASSUME NEW i \in 1 .. Len(f) PROVE WithKeys(f, Len(f))[i] # 0
  BY <1>2, Keyed
<1>4. ASSUME f # <<>>, f[Len(f)] = 0
      PROVE  WithKeys(f, Len(f))[Len(f)] = nextKey + Blanks(f) - 1
  <2>1. Len(f) \in 1 .. Len(f) BY <1>4
  <2>2. blank(Len(f)) = {i \in DOMAIN f : f[i] = 0} BY <1>1
  <2> QED BY <1>2, <1>4, <2>1, <2>2 DEF Blanks
<1> QED BY <1>3, <1>4

LEMMA PassedAreKeys == ASSUME NEW v \in Passed PROVE v \in Nat
<1>1. PICK n \in Nat : Old = 1 .. n BY OldAssumption
<1>2. Old \subseteq Nat /\ Bad \in Nat BY <1>1 DEF Bad
<1> QED BY <1>2 DEF Passed

\* The source saved with the field g and a value more: all are keys, the value's last.
LEMMA Saved ==
  ASSUME NEW g \in Seq(Nat), NEW v \in Nat, nextKey \in Nat \ {0},
         NEW f, f = Added(g, v), NEW full, full = WithKeys(f, Len(f)),
         NEW k, k = IF v = 0 THEN nextKey + Blanks(f) - 1 ELSE v
  PROVE  /\ full \in Seq(Nat) /\ k \in Nat /\ k # 0
         /\ k \in ToSet(full) /\ 0 \notin ToSet(full)
         /\ IsSingle(kind) => full = <<k>>
         /\ ~IsSingle(kind) => Keys(g) \subseteq ToSet(full)
         /\ ~IsSingle(kind) /\ 0 \notin ToSet(g) => full = Append(g, k)
<1> DEFINE n == Len(f)
<1>1. f \in Seq(Nat) /\ f # <<>> /\ f[Len(f)] = v
  <2>1. CASE IsSingle(kind) BY <2>1, OneOnly DEF Added
  <2>2. CASE ~IsSingle(kind) BY <2>2 DEF Added
  <2> QED BY <2>1, <2>2
<1>2. n \in Nat /\ n \in 1 .. n BY <1>1
<1>3. full \in Seq(Nat) /\ Len(full) = n BY <1>1, Keyed
<1>4. \A i \in 1 .. n : full[i] # 0 /\ (f[i] # 0 => full[i] = f[i])
  BY <1>1, Keyed, AllKeyed
<1>5. full[n] = k
  <2>1. CASE v = 0 BY <1>1, <2>1, AllKeyed
  <2>2. CASE v # 0 BY <1>1, <1>2, <1>4, <2>2
  <2> QED BY <2>1, <2>2
<1>6. DOMAIN full = 1 .. n BY <1>3
<1>7. k \in Nat /\ k # 0 /\ k \in ToSet(full) /\ 0 \notin ToSet(full)
  <2>1. full[n] \in Nat /\ full[n] # 0 BY <1>2, <1>3, <1>4
  <2>2. k \in ToSet(full) BY <1>2, <1>5, <1>6 DEF ToSet
  <2>3. 0 \notin ToSet(full) BY <1>4, <1>6 DEF ToSet
  <2> QED BY <1>5, <2>1, <2>2, <2>3
<1>8. ASSUME IsSingle(kind) PROVE full = <<k>>
  <2>1. f = <<v>> /\ n = 1 BY <1>8, OneOnly DEF Added
  <2>2. full[1] = k /\ Len(full) = 1 BY <1>3, <1>5, <2>1
  <2> QED BY <1>3, <2>2
<1>9. ASSUME ~IsSingle(kind) PROVE Keys(g) \subseteq ToSet(full)
  <2>1. f = Append(g, v) BY <1>9 DEF Added
  <2>2. ASSUME NEW i \in DOMAIN g, g[i] # 0 PROVE g[i] \in ToSet(full)
    <3>1. i \in 1 .. n /\ f[i] = g[i] BY <2>1
    <3>2. full[i] = g[i] BY <1>4, <2>2, <3>1
    <3> QED BY <1>6, <3>1, <3>2 DEF ToSet
  <2> QED BY <2>2 DEF Keys, ToSet
<1>10. ASSUME ~IsSingle(kind), 0 \notin ToSet(g) PROVE full = Append(g, k)
  <2>1. f = Append(g, v) /\ n = Len(g) + 1 /\ Len(g) \in Nat BY <1>10 DEF Added
  <2>2. ASSUME NEW i \in 1 .. Len(g) PROVE full[i] = g[i]
    <3>1. i \in 1 .. n /\ f[i] = g[i] BY <2>1
    <3>2. g[i] # 0 BY <1>10 DEF ToSet
    <3> QED BY <1>4, <3>1, <3>2
  <2>3. Append(g, k) \in Seq(Nat) /\ Len(Append(g, k)) = n
        /\ Append(g, k)[n] = k /\ \A i \in 1 .. Len(g) : Append(g, k)[i] = g[i]
    BY <1>7, <2>1
  <2>4. ASSUME NEW i \in 1 .. n PROVE full[i] = Append(g, k)[i]
    <3>1. i \in 1 .. Len(g) \/ i = n BY <2>1
    <3> QED BY <1>5, <2>2, <2>3, <3>1
  <2>5. \A i \in 1 .. Len(full) : full[i] = Append(g, k)[i] BY <1>3, <2>4
  <2>6. Len(full) = Len(Append(g, k)) BY <1>3, <2>3
  <2> QED BY <1>3, <2>3, <2>5, <2>6, SameSeq
<1> QED BY <1>3, <1>7, <1>8, <1>9, <1>10

\* What a step of c leaves to the other clients.
Apart(c) ==
  /\ kind' = kind /\ source' = source
  /\ \A d \in Clients : d # c =>
       /\ field'[d] = field[d] /\ given'[d] = given[d] /\ link'[d] = link[d] /\ op'[d] = op[d]
       /\ err'[d] = err[d] /\ failed'[d] = failed[d] /\ before'[d] = before[d] /\ pc'[d] = pc[d]
       /\ sole'[d] => sole[d] /\ links' = links

Of(c) == Placed(c) /\ Did(c) /\ (failed[c] => err[c])

LEMMA OthersDid ==
  ASSUME NEW c, NEW d \in Clients, d # c, Of(d), Apart(c)
  PROVE  Of(d)'
<1> USE DEF Apart, Of
<1>1. Placed(d)' /\ (failed[d] => err[d])' BY DEF Placed
<1>2. Did(d)'
  <2>1. SUFFICES ASSUME sole'[d], Did(d) PROVE Did(d)'
    BY DEF Did
  <2>2. links' = links /\ sole[d] BY <2>1
  <2>3. Ours(d)' = Ours(d) /\ Were(d)' = Were(d) /\ Pending(d)' = Pending(d)
    BY <2>2 DEF Ours, Were, Pending
  <2>4. Asked(d)' = Asked(d) /\ Shown(given[d])' = Shown(given[d])
    BY DEF Asked, Shown, IsSingle
  <2>5. Appending(d)' <=> Appending(d) BY <2>3, <2>4 DEF Appending, IsSingle, Keys
  <2>6. Replacing(d)' <=> Replacing(d) BY <2>3, <2>4 DEF Replacing
  <2>7. Deleting(d)' <=> Deleting(d) BY <2>3 DEF Deleting, Named
  <2> QED BY <2>1, <2>2, <2>5, <2>6, <2>7 DEF Did
<1> QED BY <1>1, <1>2

LEMMA TogetherDid ==
  ASSUME DInv, NEW c \in Clients, Apart(c), Typed', Of(c)'
  PROVE  DInv'
<1>1. ASSUME NEW d \in Clients PROVE Of(d)'
  <2>1. CASE d = c BY <2>1
  <2>2. CASE d # c BY <2>2, OthersDid DEF DInv, Of
  <2> QED BY <2>1, <2>2
<1> QED BY <1>1 DEF DInv, Of

\* The error of a step is kept, and no step takes one away.
LEMMA Told ==
  ASSUME DOMAIN err = Clients, DOMAIN failed = Clients, NEW c \in Clients, NEW bad,
         Tells(c, bad), failed[c] => err[c]
  PROVE  /\ DOMAIN err' = Clients /\ DOMAIN failed' = Clients
         /\ failed'[c] => err'[c]
         /\ bad => err'[c]
         /\ ~err'[c] => ~err[c]
         /\ \A d \in Clients : d # c => err'[d] = err[d] /\ failed'[d] = failed[d]
BY DEF Tells

LEMMA ContinuedAs ==
  ASSUME pc \in [Clients -> Places], NEW c \in Clients, NEW rest, Continue(c, rest)
  PROVE  /\ pc'[c] = "unlink" => op[c] = "replace"
         /\ pc'[c] = "idle" => op[c] # "replace"
BY DEF Continue, Places

LEMMA Meddled ==
  ASSUME NEW c \in Clients, Meddles(c)
  PROVE  /\ DOMAIN sole' = Clients /\ (sole'[c] => sole[c])
         /\ \A d \in Clients : d # c => (sole'[d] => sole[d] /\ links' = links)
BY DEF Meddles

\* A step that fails promises nothing more.
LEMMA Failing ==
  ASSUME DInv, NEW c \in Clients, Tells(c, TRUE), Typed', Placed(c)',
         UNCHANGED <<kind, source, given, op, before, sole, links>>,
         \A d \in Clients : d # c =>
           field'[d] = field[d] /\ link'[d] = link[d] /\ pc'[d] = pc[d]
  PROVE  DInv'
<1>1. DOMAIN err = Clients /\ DOMAIN failed = Clients /\ (failed[c] => err[c])
  BY DEF DInv, Typed
<1>2. /\ (failed'[c] => err'[c]) /\ err'[c]
      /\ \A d \in Clients : d # c => err'[d] = err[d] /\ failed'[d] = failed[d]
  BY <1>1, Told
<1>3. Apart(c) BY <1>2 DEF Apart
<1>4. Of(c)' BY <1>2 DEF Of, Did
<1> QED BY <1>3, <1>4, TogetherDid

LEMMA DInvalidValue ==
  ASSUME AInv, DInv, NEW c \in Clients, InvalidValue(c)
  PROVE  DInv'
<1>1. /\ Tells(c, TRUE) /\ Continue(c, Tail(values[c])) /\ pc[c] = "save"
      /\ UNCHANGED <<kind, source, field, op, link, before, given, sole, links, nextKey>>
  BY DEF InvalidValue, dbVars
<1>2. /\ pc'[c] \in {"save", "unlink", "idle"} /\ (pc'[c] = "unlink" => op[c] = "replace")
      /\ \A d \in Clients \ {c} : pc'[d] = pc[d]
  BY <1>1, Continued, ContinuedAs DEF AInv, PlaceKnown
<1>3. Typed' BY <1>1, Told DEF DInv, Typed
<1>4. Placed(c)' BY <1>1, <1>2 DEF DInv, Placed
<1> QED BY <1>1, <1>2, <1>3, <1>4, Failing

LEMMA DAddLinkFails ==
  ASSUME AInv, DInv, NEW c \in Clients, AddLinkFails(c)
  PROVE  DInv'
<1>1. /\ Tells(c, TRUE) /\ Continue(c, values[c]) /\ pc[c] = "link"
      /\ UNCHANGED <<kind, source, field, op, link, before, given, sole, links, nextKey>>
  BY DEF AddLinkFails, dbVars
<1>2. /\ pc'[c] \in {"save", "unlink", "idle"} /\ (pc'[c] = "unlink" => op[c] = "replace")
      /\ \A d \in Clients \ {c} : pc'[d] = pc[d]
  BY <1>1, Continued, ContinuedAs DEF AInv, PlaceKnown
<1>3. Typed' BY <1>1, Told DEF DInv, Typed
<1>4. Placed(c)' BY <1>1, <1>2 DEF DInv, Placed
<1> QED BY <1>1, <1>2, <1>3, <1>4, Failing

LEMMA DEndFails ==
  ASSUME AInv, DInv, NEW c \in Clients, UnlinkFails(c) \/ DeleteFails(c)
  PROVE  DInv'
<1>1. /\ Tells(c, TRUE) /\ pc' = [pc EXCEPT ![c] = "idle"]
      /\ UNCHANGED <<kind, source, field, op, link, before, given, sole, links, nextKey>>
  BY DEF UnlinkFails, DeleteFails, dbVars
<1>2. pc'[c] = "idle" /\ \A d \in Clients \ {c} : pc'[d] = pc[d]
  BY <1>1 DEF AInv, PlaceKnown
<1>3. Typed' BY <1>1, Told DEF DInv, Typed
<1>4. Placed(c)' BY <1>1, <1>2 DEF DInv, Placed
<1> QED BY <1>1, <1>2, <1>3, <1>4, Failing

LEMMA AddedIsField ==
  ASSUME NEW g \in Seq(Nat), NEW k \in Nat
  PROVE  Added(g, k) \in Seq(Nat) /\ Added(g, k) # <<>>
BY OneMore, OneOnly DEF Added

\* A function of the clients after a client's value was changed.
LEMMA Put ==
  ASSUME NEW S, NEW f \in [Clients -> S], NEW c \in Clients, NEW x \in S
  PROVE  /\ [f EXCEPT ![c] = x] \in [Clients -> S] /\ [f EXCEPT ![c] = x][c] = x
         /\ \A d \in Clients : d # c => [f EXCEPT ![c] = x][d] = f[d]
OBVIOUS

LEMMA DSaveValueFails ==
  ASSUME AInv, DInv, NEW c \in Clients, SaveValueFails(c)
  PROVE  DInv'
<1>1. /\ Tells(c, TRUE) /\ pc' = [pc EXCEPT ![c] = "link"] /\ pc[c] = "save"
      /\ UNCHANGED <<kind, source, op, before, given, sole, links>>
  BY DEF SaveValueFails
<1>2. PICK k \in {0, nextKey} : /\ field' = [field EXCEPT ![c] = Added(@, k)]
                                /\ link' = [link EXCEPT ![c] = k]
                                /\ nextKey' = IF k = 0 THEN nextKey ELSE nextKey + 1
  BY DEF SaveValueFails
<1>3. k \in Nat /\ nextKey' \in Nat \ {0} BY <1>2 DEF DInv, Typed
<1>4. Added(field[c], k) \in Seq(Nat) BY <1>3, AddedIsField DEF DInv, Typed
<1>5. /\ field' \in [Clients -> Seq(Nat)] /\ link' \in [Clients -> Nat]
      /\ \A d \in Clients : d # c => field'[d] = field[d] /\ link'[d] = link[d]
  BY <1>2, <1>3, <1>4, Put DEF DInv, Typed
<1>6. pc'[c] = "link" /\ \A d \in Clients \ {c} : pc'[d] = pc[d]
  BY <1>1 DEF AInv, PlaceKnown
<1>7. Typed' BY <1>1, <1>3, <1>5, Told DEF DInv, Typed
<1>8. Placed(c)' BY <1>1, <1>6 DEF DInv, Placed
<1> QED BY <1>1, <1>5, <1>6, <1>7, <1>8, Failing

LEMMA DSaveSourceFails ==
  ASSUME AInv, DInv, NEW c \in Clients, SaveSourceFails(c)
  PROVE  DInv'
<1>1. /\ Tells(c, TRUE) /\ Continue(c, Tail(values[c])) /\ pc[c] = "save" /\ Head(values[c]) # Bad
      /\ UNCHANGED <<kind, source, op, link, before, given, sole, links>>
  BY DEF SaveSourceFails
<1>2. PICK f, n : /\ f = Added(field[c], Head(values[c])) /\ n \in 0 .. Blanks(f)
                  /\ field' = [field EXCEPT ![c] = WithKeys(f, n)]
                  /\ nextKey' = nextKey + n
  BY DEF SaveSourceFails
<1>3. Head(values[c]) \in Nat
  BY <1>1, RestPassed, PassedAreKeys DEF AInv, PlaceKnown, ValuesKnown
<1>4. f \in Seq(Nat) BY <1>2, <1>3, AddedIsField DEF DInv, Typed
<1>5. WithKeys(f, n) \in Seq(Nat) BY <1>4, Keyed DEF DInv, Typed
<1>6. nextKey' \in Nat \ {0}
  <2>1. n \in Nat BY <1>2
  <2> QED BY <1>2, <2>1 DEF DInv, Typed
<1>7. /\ field' \in [Clients -> Seq(Nat)]
      /\ \A d \in Clients : d # c => field'[d] = field[d]
  BY <1>2, <1>5, Put DEF DInv, Typed
<1>8. /\ pc'[c] \in {"save", "unlink", "idle"} /\ (pc'[c] = "unlink" => op[c] = "replace")
      /\ \A d \in Clients \ {c} : pc'[d] = pc[d]
  BY <1>1, Continued, ContinuedAs DEF AInv, PlaceKnown
<1>9. Typed' BY <1>1, <1>6, <1>7, Told DEF DInv, Typed
<1>10. Placed(c)' BY <1>1, <1>8 DEF DInv, Placed
<1> QED BY <1>1, <1>7, <1>8, <1>9, <1>10, Failing

\* A many-to-many value is in the field and given, and its link is next.
LEMMA DSaveValue ==
  ASSUME AInv, DInv, NEW c \in Clients, SaveValue(c)
  PROVE  DInv'
<1>1. /\ pc' = [pc EXCEPT ![c] = "link"] /\ pc[c] = "save" /\ kind = "many_to_many"
      /\ Head(values[c]) # Bad
      /\ UNCHANGED <<kind, source, op, err, before, sole, failed, links>>
  BY DEF SaveValue
<1>2. PICK k : /\ k = IF Head(values[c]) = 0 THEN nextKey ELSE Head(values[c])
               /\ field' = [field EXCEPT ![c] = Added(@, k)]
               /\ given' = [given EXCEPT ![c] = Append(@, k)]
               /\ link' = [link EXCEPT ![c] = k]
  BY DEF SaveValue
<1>3. k \in Nat /\ k # 0 /\ nextKey' \in Nat \ {0}
  <2>1. Head(values[c]) \in Nat
    BY <1>1, RestPassed, PassedAreKeys DEF AInv, PlaceKnown, ValuesKnown
  <2>2. nextKey' = nextKey \/ nextKey' = nextKey + 1 BY DEF SaveValue
  <2> QED BY <1>2, <2>1, <2>2 DEF DInv, Typed
<1>4. ~IsSingle(kind) BY <1>1 DEF IsSingle
<1>5. field[c] \in Seq(Nat) /\ given[c] \in Seq(Nat) BY DEF DInv, Typed
<1>6. /\ field'[c] = Append(field[c], k) /\ given'[c] = Append(given[c], k) /\ link'[c] = k
      /\ field' \in [Clients -> Seq(Nat)] /\ given' \in [Clients -> Seq(Nat)]
      /\ link' \in [Clients -> Nat]
      /\ \A d \in Clients : d # c =>
           field'[d] = field[d] /\ given'[d] = given[d] /\ link'[d] = link[d]
  <2>1. Append(field[c], k) \in Seq(Nat) /\ Append(given[c], k) \in Seq(Nat)
    BY <1>3, <1>5, OneMore
  <2>2. field' = [field EXCEPT ![c] = Append(field[c], k)] BY <1>2, <1>4 DEF Added
  <2>3. given' = [given EXCEPT ![c] = Append(given[c], k)] BY <1>2
  <2>4. /\ field \in [Clients -> Seq(Nat)] /\ given \in [Clients -> Seq(Nat)]
        /\ link \in [Clients -> Nat]
    BY DEF DInv, Typed
  <2>5. /\ field' \in [Clients -> Seq(Nat)] /\ field'[c] = Append(field[c], k)
        /\ \A d \in Clients : d # c => field'[d] = field[d]
    BY <2>1, <2>2, <2>4, Put
  <2>6. /\ given' \in [Clients -> Seq(Nat)] /\ given'[c] = Append(given[c], k)
        /\ \A d \in Clients : d # c => given'[d] = given[d]
    BY <2>1, <2>3, <2>4, Put
  <2>7. /\ link' \in [Clients -> Nat] /\ link'[c] = k
        /\ \A d \in Clients : d # c => link'[d] = link[d]
    BY <1>2, <1>3, <2>4, Put
  <2> QED BY <2>5, <2>6, <2>7
<1>7. pc'[c] = "link" /\ \A d \in Clients : d # c => pc'[d] = pc[d]
  BY <1>1 DEF AInv, PlaceKnown
<1>8. Typed' BY <1>1, <1>3, <1>6 DEF DInv, Typed
<1>9. Apart(c) BY <1>1, <1>6, <1>7 DEF Apart
<1>10. ToSet(given'[c]) = ToSet(given[c]) \cup {k} /\ ToSet(field'[c]) = ToSet(field[c]) \cup {k}
  BY <1>3, <1>5, <1>6, OneMore
<1>11. Placed(c)' BY <1>1, <1>7 DEF DInv, Placed
<1>12. Ours(c)' = Ours(c) /\ Were(c)' = Were(c) /\ Pending(c) = {} /\ Pending(c)' = {k}
  BY <1>1, <1>6, <1>7 DEF Ours, Were, Pending
<1>13. ASSUME Appending(c) PROVE Appending(c)'
  BY <1>1, <1>3, <1>10, <1>12, <1>13 DEF Appending, IsSingle, Keys
<1>14. ASSUME Replacing(c) PROVE Replacing(c)'
  <2>1. field[c] = given[c] BY <1>4, <1>14 DEF Replacing, Shown
  <2>2. field'[c] = Shown(given[c])' BY <1>1, <1>4, <1>6, <2>1 DEF Shown, IsSingle
  <2>3. Asked(c) = ToSet(given[c]) /\ Asked(c)' = ToSet(given'[c])
    BY <1>1, <1>4 DEF Asked, IsSingle
  <2>4. 0 \notin ToSet(given'[c]) BY <1>3, <1>10, <1>14 DEF Replacing
  <2>5. Asked(c)' \subseteq Ours(c)' \cup Pending(c)'
    BY <1>10, <1>12, <1>14, <2>3 DEF Replacing
  <2>6. kind' # "belongs_to" /\ pc'[c] # "idle" BY <1>1, <1>7
  <2> QED BY <2>2, <2>4, <2>5, <2>6 DEF Replacing
<1>15. Of(c)'
  BY <1>1, <1>7, <1>11, <1>13, <1>14 DEF DInv, Of, Did, Placed
<1> QED BY <1>8, <1>9, <1>15, TogetherDid

\* The link is made.
LEMMA DAddLink ==
  ASSUME AInv, DInv, NEW c \in Clients, AddLink(c)
  PROVE  DInv'
<1>1. /\ Continue(c, values[c]) /\ pc[c] = "link" /\ Meddles(c)
      /\ links' = Linked(links, source[c], {link[c]})
      /\ UNCHANGED <<kind, source, field, op, link, err, before, given, failed, nextKey>>
  BY DEF AddLink
<1>2. kind = "many_to_many" BY <1>1 DEF AInv, PlaceKnown
<1>3. /\ pc'[c] \in {"save", "unlink", "idle"} /\ (pc'[c] = "unlink" => op[c] = "replace")
      /\ pc'[c] = "idle" => op[c] # "replace"
      /\ \A d \in Clients : d # c => pc'[d] = pc[d]
  BY <1>1, Continued, ContinuedAs DEF AInv, PlaceKnown
<1>4. /\ DOMAIN sole' = Clients /\ (sole'[c] => sole[c])
      /\ \A d \in Clients : d # c => (sole'[d] => sole[d] /\ links' = links)
  BY <1>1, Meddled
<1>5. Typed' BY <1>1, <1>4 DEF DInv, Typed
<1>6. Apart(c) BY <1>1, <1>3, <1>4 DEF Apart
<1>7. Placed(c)' BY <1>1, <1>3 DEF DInv, Placed
<1>8. Ours(c)' = Ours(c) \cup {link[c]}
  <2>1. Ours(c)' = LinksOf(Linked(links, source[c], {link[c]}), source[c])
    BY <1>1 DEF Ours
  <2> QED BY <1>2, <2>1, LinkedLinks DEF Ours
<1>9. Were(c)' = Were(c) /\ Pending(c) = {link[c]} /\ Pending(c)' = {}
  BY <1>1, <1>3 DEF Were, Pending
<1>10. ASSUME Appending(c) PROVE Appending(c)'
  BY <1>1, <1>2, <1>8, <1>9, <1>10 DEF Appending, IsSingle, Keys
<1>11. ASSUME Replacing(c), op[c] = "replace" PROVE Replacing(c)'
  <2>1. Asked(c)' = Asked(c) /\ Shown(given[c])' = Shown(given[c])
    BY <1>1 DEF Asked, Shown, IsSingle
  <2> QED BY <1>1, <1>2, <1>3, <1>8, <1>9, <1>11, <2>1 DEF Replacing
<1>12. Of(c)'
  BY <1>1, <1>3, <1>4, <1>7, <1>10, <1>11 DEF DInv, Of, Did, Placed
<1> QED BY <1>5, <1>6, <1>12, TogetherDid

\* The source is saved with the field, whose structs are all linked.
LEMMA DSaveSource ==
  ASSUME AInv, DInv, NEW c \in Clients, SaveSource(c)
  PROVE  DInv'
<1>1. /\ Continue(c, Tail(values[c])) /\ pc[c] = "save" /\ kind # "many_to_many"
      /\ Head(values[c]) # Bad /\ Meddles(c)
      /\ UNCHANGED <<kind, source, op, link, before>>
  BY DEF SaveSource
<1>2. PICK v, f, full, k, late :
        /\ v = Head(values[c]) /\ f = Added(field[c], v) /\ full = WithKeys(f, Len(f))
        /\ k = (IF v = 0 THEN nextKey + Blanks(f) - 1 ELSE v)
        /\ field' = [field EXCEPT ![c] = full]
        /\ given' = [given EXCEPT ![c] = Append(@, k)]
        /\ links' = Linked(links, source[c], ToSet(full))
        /\ Tells(c, late) /\ nextKey' = nextKey + Blanks(f)
  <2>1. PICK late \in BOOLEAN : Tells(c, late) BY DEF SaveSource
  <2>2. PICK v, f : v = Head(values[c]) /\ f = Added(field[c], v) OBVIOUS
  <2>3. PICK full, k : /\ full = WithKeys(f, Len(f))
                       /\ k = (IF v = 0 THEN nextKey + Blanks(f) - 1 ELSE v)
    OBVIOUS
  <2>4. /\ field' = [field EXCEPT ![c] = full]
        /\ given' = [given EXCEPT ![c] = Append(@, k)]
        /\ links' = Linked(links, source[c], ToSet(full))
        /\ nextKey' = nextKey + Blanks(f)
    BY <2>2, <2>3 DEF SaveSource
  <2> QED BY <2>1, <2>2, <2>3, <2>4
<1>3. v \in Nat
  BY <1>1, <1>2, RestPassed, PassedAreKeys DEF AInv, PlaceKnown, ValuesKnown
<1>4. /\ field \in [Clients -> Seq(Nat)] /\ given \in [Clients -> Seq(Nat)]
      /\ field[c] \in Seq(Nat) /\ given[c] \in Seq(Nat) /\ nextKey \in Nat \ {0}
  BY DEF DInv, Typed
<1>5. /\ full \in Seq(Nat) /\ k \in Nat /\ k # 0 /\ k \in ToSet(full) /\ 0 \notin ToSet(full)
      /\ IsSingle(kind) => full = <<k>>
      /\ ~IsSingle(kind) => Keys(field[c]) \subseteq ToSet(full)
      /\ ~IsSingle(kind) /\ 0 \notin ToSet(field[c]) => full = Append(field[c], k)
  <2>1. PICK g \in Seq(Nat) : g = field[c] BY <1>4
  <2>2. f = Added(g, v) BY <1>2, <2>1
  <2>3. full = WithKeys(f, Len(f)) /\ k = IF v = 0 THEN nextKey + Blanks(f) - 1 ELSE v
    BY <1>2
  <2>4. full \in Seq(Nat) /\ k \in Nat /\ k # 0 /\ k \in ToSet(full) /\ 0 \notin ToSet(full)
    BY <1>3, <1>4, <2>2, <2>3, Saved
  <2>5. IsSingle(kind) => full = <<k>>
    BY <1>3, <1>4, <2>2, <2>3, Saved
  <2>6. ~IsSingle(kind) => Keys(g) \subseteq ToSet(full)
    BY <1>3, <1>4, <2>2, <2>3, Saved
  <2>7. ~IsSingle(kind) /\ 0 \notin ToSet(g) => full = Append(g, k)
    BY <1>3, <1>4, <2>2, <2>3, Saved
  <2> QED BY <2>1, <2>4, <2>5, <2>6, <2>7
<1>6. nextKey' \in Nat \ {0}
  <2>1. f \in Seq(Nat) BY <1>2, <1>3, <1>4, AddedIsField
  <2>2. Blanks(f) \in Nat
    <3>1. DOMAIN f = 1 .. Len(f) /\ Len(f) \in Nat BY <2>1
    <3>2. IsFiniteSet(1 .. Len(f)) BY <3>1, FS_Interval
    <3>3. IsFiniteSet({i \in DOMAIN f : f[i] = 0}) BY <3>1, <3>2, FS_Subset
    <3> QED BY <3>3, FS_CardinalityType DEF Blanks
  <2> QED BY <1>2, <1>4, <2>2
<1>7. /\ field'[c] = full /\ field' \in [Clients -> Seq(Nat)]
      /\ \A d \in Clients : d # c => field'[d] = field[d]
  BY <1>2, <1>4, <1>5, Put
<1>8. /\ given'[c] = Append(given[c], k) /\ given' \in [Clients -> Seq(Nat)]
      /\ \A d \in Clients : d # c => given'[d] = given[d]
      /\ given'[c] # <<>> /\ Last(given'[c]) = k /\ ToSet(given'[c]) = ToSet(given[c]) \cup {k}
  <2>1. Append(given[c], k) \in Seq(Nat) BY <1>4, <1>5, OneMore
  <2>2. given' = [given EXCEPT ![c] = Append(given[c], k)] BY <1>2
  <2>3. given'[c] = Append(given[c], k) /\ given' \in [Clients -> Seq(Nat)]
        /\ \A d \in Clients : d # c => given'[d] = given[d]
    BY <1>4, <2>1, <2>2, Put
  <2>4. PICK g \in Seq(Nat) : g = given[c] BY <1>4
  <2>5. Append(g, k) # <<>> /\ Last(Append(g, k)) = k /\ ToSet(Append(g, k)) = ToSet(g) \cup {k}
    BY <1>5, OneMore
  <2> QED BY <2>3, <2>4, <2>5
<1>9. /\ pc'[c] \in {"save", "unlink", "idle"} /\ (pc'[c] = "unlink" => op[c] = "replace")
      /\ pc'[c] = "idle" => op[c] # "replace"
      /\ \A d \in Clients : d # c => pc'[d] = pc[d]
  BY <1>1, Continued, ContinuedAs DEF AInv, PlaceKnown
<1>10. /\ DOMAIN sole' = Clients /\ (sole'[c] => sole[c])
       /\ \A d \in Clients : d # c => (sole'[d] => sole[d] /\ links' = links)
  BY <1>1, Meddled
<1>11. /\ DOMAIN err' = Clients /\ DOMAIN failed' = Clients /\ (failed'[c] => err'[c])
       /\ ~err'[c] => ~err[c]
       /\ \A d \in Clients : d # c => err'[d] = err[d] /\ failed'[d] = failed[d]
  BY <1>2, Told DEF DInv, Typed
<1>12. Typed' BY <1>1, <1>6, <1>7, <1>8, <1>10, <1>11 DEF DInv, Typed
<1>13. Apart(c) BY <1>1, <1>7, <1>8, <1>9, <1>10, <1>11 DEF Apart
<1>14. Placed(c)' BY <1>1, <1>9 DEF DInv, Placed
<1>15. /\ kind = "belongs_to" => Ours(c)' = ToSet(full)
       /\ kind # "belongs_to" => Ours(c)' = Ours(c) \cup ToSet(full)
  <2>1. Ours(c)' = LinksOf(Linked(links, source[c], ToSet(full)), source[c])
    BY <1>1, <1>2 DEF Ours
  <2> QED BY <2>1, LinkedLinks DEF Ours
<1>16. Were(c)' = Were(c) /\ Pending(c) = {} /\ Pending(c)' = {}
  BY <1>1, <1>9 DEF Were, Pending
<1>17. IsSingle(kind) => ToSet(full) = {k} BY <1>5, OneOnly
<1>18. ASSUME Appending(c) PROVE Appending(c)'
  <2>1. CASE kind = "belongs_to"
    BY <1>1, <1>8, <1>15, <1>17, <2>1 DEF Appending, IsSingle
  <2>2. CASE kind # "belongs_to"
    <3>1. ~IsSingle(kind) /\ Keys(field'[c]) = ToSet(full)
      BY <1>5, <1>7, <1>18, <2>2 DEF Appending, Keys
    <3> QED BY <1>1, <1>5, <1>8, <1>15, <1>16, <1>18, <2>2, <3>1 DEF Appending, IsSingle
  <2> QED BY <2>1, <2>2
<1>19. ASSUME Replacing(c), op[c] = "replace" PROVE Replacing(c)'
  <2>1. field'[c] = Shown(given[c])'
    <3>1. CASE IsSingle(kind)
      BY <1>1, <1>5, <1>7, <1>8, <3>1 DEF Shown, IsSingle
    <3>2. CASE ~IsSingle(kind)
      <4>1. field[c] = given[c] /\ 0 \notin ToSet(given[c])
        BY <1>19, <3>2 DEF Replacing, Shown
      <4> QED BY <1>1, <1>5, <1>7, <1>8, <3>2, <4>1 DEF Shown, IsSingle
    <3> QED BY <3>1, <3>2
  <2>2. 0 \notin ToSet(given'[c]) BY <1>5, <1>8, <1>19 DEF Replacing
  <2>3. Asked(c)' \subseteq ToSet(full)
    <3>1. CASE IsSingle(kind)
      BY <1>1, <1>5, <1>8, <3>1 DEF Asked, IsSingle
    <3>2. CASE ~IsSingle(kind)
      <4>1. full = given'[c]
        BY <1>5, <1>8, <1>19, <3>2 DEF Replacing, Shown
      <4> QED BY <1>1, <3>2, <4>1 DEF Asked, IsSingle
    <3> QED BY <3>1, <3>2
  <2>4. kind = "belongs_to" => Asked(c)' = ToSet(full)
    BY <1>1, <1>8, <1>17 DEF Asked, IsSingle
  <2> QED BY <1>1, <1>9, <1>15, <1>16, <1>19, <2>1, <2>2, <2>3, <2>4 DEF Replacing
<1>20. Of(c)'
  BY <1>1, <1>9, <1>10, <1>11, <1>14, <1>18, <1>19 DEF DInv, Of, Did, Placed
<1> QED BY <1>12, <1>13, <1>20, TogetherDid

\* The field of a Replace holds what was asked for.
LEMMA FieldIsAsked ==
  ASSUME NEW c, given[c] \in Seq(Nat), Replacing(c)
  PROVE  Keys(field[c]) = Asked(c)
<1>1. given[c] # <<>> =>
        Last(given[c]) \in ToSet(given[c]) /\ ToSet(<<Last(given[c])>>) = {Last(given[c])}
  <2>1. SUFFICES ASSUME given[c] # <<>> PROVE
          Last(given[c]) \in ToSet(given[c]) /\ ToSet(<<Last(given[c])>>) = {Last(given[c])}
    OBVIOUS
  <2>2. PICK n : n = Len(given[c]) OBVIOUS
  <2>3. n \in DOMAIN given[c] BY <2>1, <2>2
  <2>4. Last(given[c]) = given[c][n] BY <2>2 DEF Last
  <2>5. Last(given[c]) \in ToSet(given[c]) BY <2>3, <2>4 DEF ToSet
  <2> QED BY <2>5, OneOnly
<1>2. 0 \notin ToSet(given[c]) /\ field[c] = Shown(given[c]) BY DEF Replacing
<1>3. CASE IsSingle(kind) /\ given[c] # <<>>
  <2>1. field[c] = <<Last(given[c])>> BY <1>2, <1>3 DEF Shown
  <2> QED BY <1>1, <1>2, <1>3, <2>1 DEF Asked, Keys
<1>4. CASE ~(IsSingle(kind) /\ given[c] # <<>>)
  <2>1. field[c] = given[c] BY <1>2, <1>4 DEF Shown
  <2> QED BY <1>2, <1>4, <2>1 DEF Asked, Keys
<1> QED BY <1>3, <1>4

\* The rest of Replace leaves the links whose keys are in the field.
LEMMA DUnlink ==
  ASSUME AInv, DInv, NEW c \in Clients, Unlink(c)
  PROVE  DInv'
<1>1. /\ pc[c] = "unlink" /\ pc' = [pc EXCEPT ![c] = "idle"] /\ Meddles(c)
      /\ links' = IF kind = "belongs_to" /\ ~NoneGiven(c) THEN links
                  ELSE Unlinked(links, source[c], Keys(field[c]))
      /\ UNCHANGED <<kind, source, field, op, link, err, before, given, failed, nextKey>>
  BY DEF Unlink
<1>2. pc'[c] = "idle" /\ \A d \in Clients : d # c => pc'[d] = pc[d]
  BY <1>1 DEF AInv, PlaceKnown
<1>3. /\ DOMAIN sole' = Clients /\ (sole'[c] => sole[c])
      /\ \A d \in Clients : d # c => (sole'[d] => sole[d] /\ links' = links)
  BY <1>1, Meddled
<1>4. Typed' BY <1>1, <1>3 DEF DInv, Typed
<1>5. Apart(c) BY <1>1, <1>2, <1>3 DEF Apart
<1>6. op[c] = "replace" /\ Placed(c)' BY <1>1, <1>2 DEF DInv, Placed
<1>7. /\ kind = "belongs_to" /\ ~NoneGiven(c) => Ours(c)' = Ours(c)
      /\ ~(kind = "belongs_to" /\ ~NoneGiven(c)) => Ours(c)' = Ours(c) \cap Keys(field[c])
  BY <1>1, UnlinkedLinks DEF Ours
<1>8. Pending(c) = {} /\ Pending(c)' = {} BY <1>1, <1>2 DEF Pending
<1>9. Asked(c)' = Asked(c) /\ Shown(given[c])' = Shown(given[c])
  BY <1>1 DEF Asked, Shown, IsSingle
<1>10. ASSUME ~err[c], Replacing(c) PROVE Replacing(c)'
  <2>3. Keys(field[c]) = Asked(c) BY <1>10, FieldIsAsked DEF DInv, Typed
  <2>4. Asked(c) \subseteq Ours(c) BY <1>8, <1>10 DEF Replacing
  <2>5. Ours(c)' = Asked(c)
    <3>1. CASE kind = "belongs_to" /\ ~NoneGiven(c)
      <4>1. field[c] # <<>> BY <1>10, <3>1 DEF NoneGiven
      <4>2. given[c] # <<>> BY <1>10, <4>1 DEF Replacing, Shown
      <4> QED BY <1>7, <1>10, <3>1, <4>2 DEF Replacing
    <3>2. CASE ~(kind = "belongs_to" /\ ~NoneGiven(c))
      BY <1>7, <2>3, <2>4, <3>2
    <3> QED BY <3>1, <3>2
  <2> QED BY <1>1, <1>9, <1>10, <2>5 DEF Replacing
<1>11. Of(c)'
  BY <1>1, <1>2, <1>3, <1>6, <1>10 DEF DInv, Of, Did, Placed
<1> QED BY <1>4, <1>5, <1>11, TogetherDid

\* What is left of a field after a Delete.
LEMMA WithoutTyped ==
  ASSUME NEW f \in Seq(Nat), NEW ks, NEW g \in Without(f, ks)
  PROVE  g \in Seq(Nat)
<1> DEFINE left == {i \in DOMAIN f : f[i] \notin ks}
<1>1. PICK o \in SetToSeqs(left) : g = [j \in DOMAIN o |-> f[o[j]]] BY DEF Without
<1>2. o \in [1 .. Cardinality(left) -> left] BY <1>1 DEF SetToSeqs
<1>3. Cardinality(left) \in Nat
  <2>1. DOMAIN f = 1 .. Len(f) /\ Len(f) \in Nat OBVIOUS
  <2>2. IsFiniteSet(1 .. Len(f)) BY <2>1, FS_Interval
  <2>3. IsFiniteSet(left) BY <2>1, <2>2, FS_Subset
  <2> QED BY <2>3, FS_CardinalityType
<1>4. PICK n \in Nat : n = Cardinality(left) BY <1>3
<1>5. DOMAIN o = 1 .. n /\ \A j \in 1 .. n : f[o[j]] \in Nat BY <1>2, <1>4
<1>6. g \in [1 .. n -> Nat] BY <1>1, <1>5
<1> QED BY <1>6

LEMMA SeqsGrow ==
  ASSUME NEW S, NEW T, S \subseteq T, NEW s \in Seq(S)
  PROVE  s \in Seq(T)
<1>1. PICK n \in Nat : n = Len(s) OBVIOUS
<1>2. s \in [1 .. n -> S] BY <1>1
<1>3. s \in [1 .. n -> T] BY <1>2
<1> QED BY <1>3

\* The links of the source with the keys named go.
LEMMA DDelete ==
  ASSUME AInv, DInv, NEW c \in Clients, Delete(c)
  PROVE  DInv'
<1>1. /\ pc[c] = "delete" /\ Meddles(c)
      /\ links' = links \ Cut(source[c], Named(values[c]))
      /\ given' = [given EXCEPT ![c] = values[c]]
      /\ UNCHANGED <<kind, source, op, link, err, before, failed, nextKey>>
  BY DEF Delete
<1>2. pc'[c] \in {"idle", "panicked"} /\ \A d \in Clients : d # c => pc'[d] = pc[d]
  BY DEF Delete, AInv, PlaceKnown
<1>3. /\ field' \in [Clients -> Seq(Nat)]
      /\ \A d \in Clients : d # c => field'[d] = field[d]
  <2>1. field \in [Clients -> Seq(Nat)] BY DEF DInv, Typed
  <2>2. CASE field' = field BY <2>1, <2>2
  <2>3. ASSUME NEW f \in Without(field[c], Named(values[c])), field' = [field EXCEPT ![c] = f]
        PROVE  /\ field' \in [Clients -> Seq(Nat)]
               /\ \A d \in Clients : d # c => field'[d] = field[d]
    <3>1. f \in Seq(Nat) BY <2>1, WithoutTyped
    <3> QED BY <2>1, <2>3, <3>1, Put
  <2> QED BY <2>2, <2>3 DEF Delete
<1>4. /\ given' \in [Clients -> Seq(Nat)] /\ given'[c] = values[c]
      /\ \A d \in Clients : d # c => given'[d] = given[d]
  <2>1. values[c] \in Seq(Passed) BY DEF AInv, ValuesKnown
  <2>2. Passed \subseteq Nat BY PassedAreKeys
  <2>3. values[c] \in Seq(Nat) BY <2>1, <2>2, SeqsGrow
  <2> QED BY <1>1, <2>3, Put DEF DInv, Typed
<1>5. /\ DOMAIN sole' = Clients /\ (sole'[c] => sole[c])
      /\ \A d \in Clients : d # c => (sole'[d] => sole[d] /\ links' = links)
  BY <1>1, Meddled
<1>6. Typed' BY <1>1, <1>3, <1>4, <1>5 DEF DInv, Typed
<1>7. Apart(c) BY <1>1, <1>2, <1>3, <1>4, <1>5 DEF Apart
<1>8. op[c] = "delete" /\ Placed(c)' BY <1>1, <1>2 DEF DInv, Placed
<1>9. Ours(c)' = Ours(c) \ Named(values[c]) BY <1>1, CutLinks DEF Ours
<1>10. ASSUME Deleting(c), pc'[c] # "panicked" PROVE Deleting(c)'
  <2>1. Were(c)' = Were(c) /\ Ours(c) = Were(c) BY <1>1, <1>10 DEF Deleting, Were
  <2>2. pc'[c] = "idle" BY <1>2, <1>10
  <2> QED BY <1>4, <1>9, <2>1, <2>2 DEF Deleting
<1>11. Of(c)'
  BY <1>1, <1>2, <1>5, <1>8, <1>10 DEF DInv, Of, Did, Placed
<1> QED BY <1>6, <1>7, <1>11, TogetherDid

\* A call begins with nothing done.
LEMMA DCall ==
  ASSUME AInv, DInv, NEW c \in Clients, NEW o \in {"append", "replace", "delete"},
         NEW vs \in Values, Call(c, o, vs)
  PROVE  DInv'
<1>1. PICK replaces : replaces = (o = "replace" \/ (o = "append" /\ kind = "has_one"))
  OBVIOUS
<1>2. /\ op' = [op EXCEPT ![c] = IF replaces THEN "replace" ELSE o]
      /\ field' = [field EXCEPT ![c] = IF replaces THEN <<>> ELSE @]
      /\ pc' = [pc EXCEPT ![c] =
           CASE o = "delete" -> IF vs = <<>> THEN "idle" ELSE "delete"
             [] o # "delete" /\ vs # <<>> -> "save"
             [] OTHER -> IF replaces THEN "unlink" ELSE "idle"]
  BY <1>1 DEF Call
<1>3. /\ given' = [given EXCEPT ![c] = <<>>] /\ before' = [before EXCEPT ![c] = links]
      /\ err' = [err EXCEPT ![c] = FALSE] /\ failed' = [failed EXCEPT ![c] = FALSE]
      /\ sole' = [sole EXCEPT ![c] = TRUE]
      /\ UNCHANGED <<kind, source, link, links, nextKey>>
  BY DEF Call, dbVars
<1>4. <<>> \in Seq(Nat) OBVIOUS
<1>5. /\ field' \in [Clients -> Seq(Nat)] /\ (replaces => field'[c] = <<>>)
      /\ \A d \in Clients : d # c => field'[d] = field[d]
  <2>1. field \in [Clients -> Seq(Nat)] BY DEF DInv, Typed
  <2>2. CASE replaces
    <3>1. field' = [field EXCEPT ![c] = <<>>] BY <1>2, <2>2
    <3> QED BY <1>4, <2>1, <3>1, Put
  <2>3. CASE ~replaces
    <3>1. field' = [field EXCEPT ![c] = field[c]] BY <1>2, <2>3
    <3> QED BY <2>1, <2>3, <3>1
  <2> QED BY <2>2, <2>3
<1>6. /\ given' \in [Clients -> Seq(Nat)] /\ given'[c] = <<>>
      /\ \A d \in Clients : d # c => given'[d] = given[d]
  BY <1>3, <1>4, Put DEF DInv, Typed
<1>7. /\ DOMAIN err' = Clients /\ DOMAIN failed' = Clients /\ DOMAIN sole' = Clients
      /\ DOMAIN before' = Clients /\ DOMAIN op' = Clients
      /\ ~err'[c] /\ ~failed'[c] /\ before'[c] = links
      /\ \A d \in Clients : d # c =>
           /\ err'[d] = err[d] /\ failed'[d] = failed[d] /\ sole'[d] = sole[d]
           /\ before'[d] = before[d] /\ op'[d] = op[d]
  BY <1>2, <1>3 DEF DInv, Typed
<1>8. Typed' BY <1>3, <1>5, <1>6, <1>7 DEF DInv, Typed
<1>9. \A d \in Clients : d # c => pc'[d] = pc[d] BY <1>2 DEF AInv, PlaceKnown
<1>10. Apart(c) BY <1>3, <1>5, <1>6, <1>7, <1>9 DEF Apart
<1>11. op'[c] = (IF replaces THEN "replace" ELSE o) BY <1>2 DEF DInv, Typed
<1>12. /\ o = "delete" => pc'[c] = IF vs = <<>> THEN "idle" ELSE "delete"
       /\ o # "delete" /\ vs # <<>> => pc'[c] = "save"
       /\ o # "delete" /\ vs = <<>> => pc'[c] = IF replaces THEN "unlink" ELSE "idle"
  BY <1>2 DEF AInv, PlaceKnown
<1>13. Placed(c)'
  <2>1. CASE o = "delete" BY <1>1, <1>11, <1>12, <2>1 DEF Placed
  <2>2. CASE o # "delete" /\ replaces BY <1>11, <1>12, <2>2 DEF Placed
  <2>3. CASE o = "append" /\ ~replaces BY <1>11, <1>12, <2>3 DEF Placed
  <2> QED BY <1>1, <2>1, <2>2, <2>3
<1>14. pc'[c] # "link" /\ (replaces => pc'[c] # "idle")
  BY <1>1, <1>12
<1>15. Ours(c)' = Were(c)' BY <1>3, <1>7 DEF Ours, Were
<1>16. Pending(c)' = {} BY <1>14 DEF Pending
<1>17. op'[c] = "append" => Appending(c)'
  <2>1. SUFFICES ASSUME op'[c] = "append" PROVE Appending(c)' OBVIOUS
  <2>2. kind # "has_one" BY <1>1, <1>11, <2>1
  <2>3. kind = "belongs_to" \/ ~IsSingle(kind) BY <2>2 DEF IsSingle
  <2> QED BY <1>3, <1>6, <1>15, <1>16, <2>3, NoneYet DEF Appending, IsSingle
<1>18. op'[c] = "replace" => Replacing(c)'
  <2>1. SUFFICES ASSUME op'[c] = "replace" PROVE Replacing(c)' OBVIOUS
  <2>2. field'[c] = <<>> /\ pc'[c] # "idle" BY <1>1, <1>5, <1>11, <1>14, <2>1
  <2>3. Shown(given[c])' = <<>> BY <1>6 DEF Shown
  <2>4. Asked(c)' = {} BY <1>6, NoneYet DEF Asked
  <2> QED BY <1>6, <2>2, <2>3, <2>4, NoneYet DEF Replacing
<1>19. op'[c] = "delete" => Deleting(c)'
  <2>1. Named(<<>>) = {} BY NoneYet DEF Named
  <2> QED BY <1>6, <1>15, <2>1 DEF Deleting
<1>20. Of(c)'
  BY <1>7, <1>13, <1>17, <1>18, <1>19 DEF Of, Did
<1> QED BY <1>8, <1>10, <1>20, TogetherDid

LEMMA DInit ==
  ASSUME Init
  PROVE  DInv
<1>1. PICK n \in Nat : n = Cardinality(Old) /\ Old = 1 .. n BY OldAssumption
<1>2. nextKey = n + 1 /\ nextKey \in Nat \ {0} BY <1>1 DEF Init
<1>3. ASSUME NEW s \in Sources PROVE Loaded(s) \subseteq Seq(Nat)
  <2>1. PICK ks : ks = LinksOf(OldLinks[kind], s) OBVIOUS
  <2>2. ks \subseteq Old
    <3>1. OldLinks[kind] \subseteq Sources \X Old BY OldAssumption DEF Init
    <3> QED BY <2>1, <3>1 DEF LinksOf
  <2>3. IsFiniteSet(1 .. n) BY <1>1, FS_Interval
  <2>4. IsFiniteSet(ks) BY <1>1, <2>2, <2>3, FS_Subset
  <2>5. PICK m \in Nat : m = Cardinality(ks) BY <2>4, FS_CardinalityType
  <2>6. ASSUME NEW f \in SetToSeqs(ks) PROVE f \in Seq(Nat)
    <3>1. f \in [1 .. m -> ks] BY <2>5, <2>6 DEF SetToSeqs
    <3>2. ks \subseteq Nat BY <1>1, <2>2
    <3>3. f \in [1 .. m -> Nat] BY <3>1, <3>2
    <3> QED BY <3>3
  <2> QED BY <2>1, <2>6 DEF Loaded
<1>4. field \in [Clients -> Seq(Nat)]
  <2>1. field \in [Clients -> {<<>>} \cup UNION {Loaded(s) : s \in Sources}] BY DEF Init
  <2>2. {<<>>} \cup UNION {Loaded(s) : s \in Sources} \subseteq Seq(Nat)
    <3>1. <<>> \in Seq(Nat) OBVIOUS
    <3>2. ASSUME NEW f \in UNION {Loaded(s) : s \in Sources} PROVE f \in Seq(Nat)
      BY <1>3, <3>2
    <3> QED BY <3>1, <3>2
  <2> QED BY <2>1, <2>2
<1>5. given \in [Clients -> Seq(Nat)]
  <2>1. <<>> \in Seq(Nat) OBVIOUS
  <2> QED BY <2>1 DEF Init
<1>6. Typed BY <1>2, <1>4, <1>5 DEF Init, Typed
<1>7. ASSUME NEW c \in Clients PROVE Of(c)
  BY DEF Init, Of, Placed, Did
<1> QED BY <1>6, <1>7 DEF DInv, Of

LEMMA DIdle ==
  ASSUME DInv, UNCHANGED vars
  PROVE  DInv'
<1> USE DEF vars, clientVars, dbVars
<1>1. Typed' BY DEF DInv, Typed
<1>2. ASSUME NEW c \in Clients PROVE Of(c)'
  <2>1. Placed(c)' /\ (failed[c] => err[c])' BY DEF DInv, Placed
  <2>2. Did(c) BY DEF DInv
  <2>3. Ours(c)' = Ours(c) /\ Were(c)' = Were(c) /\ Pending(c)' = Pending(c)
    BY DEF Ours, Were, Pending
  <2>4. Asked(c)' = Asked(c) /\ Shown(given[c])' = Shown(given[c])
    BY DEF Asked, Shown, IsSingle
  <2>5. Appending(c)' <=> Appending(c) BY <2>3, <2>4 DEF Appending, IsSingle, Keys
  <2>6. Replacing(c)' <=> Replacing(c) BY <2>3, <2>4 DEF Replacing
  <2>7. Deleting(c)' <=> Deleting(c) BY <2>3 DEF Deleting, Named
  <2>8. Did(c)' BY <2>2, <2>5, <2>6, <2>7 DEF Did
  <2> QED BY <2>1, <2>8 DEF Of
<1> QED BY <1>1, <1>2 DEF DInv, Of

LEMMA DNext == AInv /\ DInv /\ [Next]_vars => DInv'
<1> SUFFICES ASSUME AInv, DInv, [Next]_vars PROVE DInv' OBVIOUS
<1>1. CASE UNCHANGED vars BY <1>1, DIdle
<1>2. ASSUME NEW c \in Clients, NEW o \in {"append", "replace", "delete"},
             NEW vs \in Values, Call(c, o, vs)
      PROVE  DInv'
  BY <1>2, DCall
<1>3. ASSUME NEW c \in Clients, Step(c) PROVE DInv'
  BY <1>3, DInvalidValue, DSaveValue, DSaveValueFails, DAddLink, DAddLinkFails,
     DSaveSource, DSaveSourceFails, DUnlink, DEndFails, DDelete DEF Step
<1> QED BY <1>1, <1>2, <1>3 DEF Next

\* DInv holds of every run: until an error or another client's links come in between,
\* the links of the source and its field are those that the values handled so far make
\* of the ones before (association.go Append, Replace, Delete, saveAssociations).
THEOREM CallsInvariance == Spec => [](AInv /\ DInv)
<1>1. Init => AInv /\ DInv BY AInit, DInit
<1>2. AInv /\ DInv /\ [Next]_vars => (AInv /\ DInv)' BY ANext, DNext
<1> QED BY <1>1, <1>2, PTL DEF Spec

LEMMA EndIsDone ==
  ASSUME AInv, DInv, NEW c \in Clients, Fine(c), sole[c]
  PROVE  CASE op[c] = "append" ->
                IF kind = "belongs_to" THEN given[c] # <<>> => Ours(c) = Asked(c)
                ELSE /\ (Were(c) \cup Asked(c)) \subseteq Ours(c)
                     /\ Ours(c) \subseteq Were(c) \cup Keys(field[c])
           [] op[c] = "replace" -> Ours(c) = Asked(c) /\ Keys(field[c]) = Asked(c)
           [] op[c] = "delete" -> Ours(c) = Were(c) \ Named(given[c])
<1>1. /\ pc[c] = "idle" /\ Placed(c) /\ Did(c) /\ Pending(c) = {}
  BY DEF Fine, DInv, Pending
<1>2. CASE op[c] = "append"
  <2>1. Appending(c) BY <1>1, <1>2 DEF Did, Fine
  <2>2. CASE kind = "belongs_to"
    BY <1>2, <2>1, <2>2 DEF Appending, Asked, IsSingle
  <2>3. CASE kind # "belongs_to"
    <3>1. Asked(c) = ToSet(given[c]) BY <2>1, <2>3 DEF Appending, Asked
    <3> QED BY <1>1, <1>2, <2>1, <2>3, <3>1 DEF Appending
  <2> QED BY <2>2, <2>3
<1>3. CASE op[c] = "replace"
  <2>1. Replacing(c) BY <1>1, <1>3 DEF Did, Fine
  <2>2. Ours(c) = Asked(c) BY <1>1, <2>1 DEF Replacing
  <2>3. Keys(field[c]) = Asked(c) BY <2>1, FieldIsAsked DEF DInv, Typed
  <2> QED BY <1>3, <2>2, <2>3
<1>4. CASE op[c] = "delete"
  BY <1>1, <1>4 DEF Did, Fine, Deleting
<1> QED BY <1>1, <1>2, <1>3, <1>4 DEF Placed

\* A call that reports no error has done what it was asked for, for any clients and
\* values and all kinds of relationships, if nobody else changed links meanwhile
\* (association.go Append, Replace, Clear, Delete).
THEOREM CallsAreDone == Spec => []AskedIsDone
<1>1. AInv /\ DInv => AskedIsDone BY EndIsDone DEF AskedIsDone
<1> QED BY <1>1, CallsInvariance, PTL

\* An error of any step is there when the call is over: setErr never loses one and no
\* later step begins afresh (association.go setErr, saveAssociations).
THEOREM ErrorsAreTold == Spec => []ErrorTold
<1>1. DInv => ErrorTold BY DEF DInv, ErrorTold
<1> QED BY <1>1, CallsInvariance, PTL
=============================================================================
