-------------------------- MODULE CallbackRegistry --------------------------
(***************************************************************************)
(* The registry of callbacks (callback.go; DB.Callback and Open of         *)
(* main.go): who registers what, in which order the chain of a handle runs *)
(* it, and what containers share.                                          *)
(*                                                                         *)
(* Processors are heap objects, known by their number.  A container has a  *)
(* slice of them: an array, which clones of the container share, and a     *)
(* length.  User 0 is the exported DefaultCallback, the others are handles *)
(* made by Open.  The five kinds of callbacks are alike; one is modelled.  *)
(* Callbacks are ordered by name: a callback is never asked to run before  *)
(* one with a smaller name, so no two wishes contradict each other.        *)
(***************************************************************************)
EXTENDS SequencesExt, Positions

CONSTANTS
  Base,      \* names the package's init functions register, in their order
  Spare,     \* free slots of the array after that (27 processors in 32 slots)
  Handles,   \* number of handles opened
  Writers,   \* users that register callbacks
  Requests,  \* what users ask for
  MaxAsked,  \* bound: requests made
  MaxClones  \* bound: calls of DB.Callback

NoName == 0  \* no name, no processor
Owners == 0 .. Handles

ASSUME RegistryAssumption ==
  /\ Base \in Seq(Nat \ {NoName}) /\ IsInjective(Base)
  /\ Spare \in Nat /\ Handles \in Nat /\ Writers \subseteq Owners
  /\ MaxAsked \in Nat /\ MaxClones \in Nat
  /\ Requests \subseteq [op : {"register", "replace", "remove"},
                         name : Nat \ {NoName}, before : Nat, after : Nat]
  /\ \A r \in Requests : /\ r.before = NoName \/ r.before > r.name
                         /\ r.after = NoName \/ r.after < r.name

VARIABLES
  procs,   \* CallbackProcessor objects, as they were asked for
  before,  \* their before field, which sorting may set
  arrays,  \* backing arrays of processors slices; NoName in a free slot
  conts,   \* containers: array, len, chain (names in order)
  current  \* parent.callbacks of each handle, DefaultCallback for user 0

registryVars == <<procs, before, arrays, conts, current>>

-----------------------------------------------------------------------------
(* sortProcessors, on a sequence of records with name, before and after.   *)

\* getRIndex; 0 stands for -1.
LastIndex(names, n) == SelectLastInSeq(names, LAMBDA m : m = n)
NamesOf(ps) == [i \in DOMAIN ps |-> ps[i].name]

\* sortCallbackProcessor on the i-th processor, and its parts; st has the names
\* sorted so far and the before fields, and nested sorts the callback named in a
\* wish that is not sorted yet.
PlaceBefore(nested, st, ps, i) ==
  LET b    == st.before[i]
      here == LastIndex(st.out, b)
      next == LastIndex(NamesOf(ps), b)
  IN CASE b = NoName                         -> st
       [] b # NoName /\ here # 0             -> [st EXCEPT !.out = InsertAt(@, here, ps[i].name)]
       [] b # NoName /\ here = 0 /\ next # 0 ->
            nested[next][[st EXCEPT !.out = Append(@, ps[i].name)]]
       [] OTHER                              -> st

\* Faulty: takes the place of the callback, not the one after it.
PlaceAfter_OffByOne(nested, st, ps, i) ==
  LET a    == ps[i].after
      here == LastIndex(st.out, a)
      next == LastIndex(NamesOf(ps), a)
  IN CASE a = NoName                         -> st
       [] a # NoName /\ here # 0             -> [st EXCEPT !.out = InsertAt(@, here, ps[i].name)]
       [] a # NoName /\ here = 0 /\ next # 0 ->
            nested[next][[st EXCEPT !.before[next] = IF @ = NoName THEN ps[i].name ELSE @]]
       [] OTHER                              -> st

PlaceAfter(nested, st, ps, i) ==
  LET a    == ps[i].after
      here == LastIndex(st.out, a)
      next == LastIndex(NamesOf(ps), a)
  IN CASE a = NoName                         -> st
       [] a # NoName /\ here # 0             -> [st EXCEPT !.out = InsertAt(@, here + 1, ps[i].name)]
       [] a # NoName /\ here = 0 /\ next # 0 ->
            nested[next][[st EXCEPT !.before[next] = IF @ = NoName THEN ps[i].name ELSE @]]
       [] OTHER                              -> st

PlaceLast(st, ps, i) ==
  IF LastIndex(st.out, ps[i].name) # 0 THEN st
  ELSE [st EXCEPT !.out = Append(@, ps[i].name)]

PlaceOne(nested, st, ps, i) ==
  IF LastIndex(st.out, ps[i].name) # 0 THEN st
  ELSE PlaceLast(PlaceAfter(nested, PlaceBefore(nested, st, ps, i), ps, i), ps, i)

SortStates(ps) == [out : Seq(Nat), before : [DOMAIN ps -> Nat]]

\* sortCallbackProcessor calls itself for a callback named in a wish; nested is the
\* function of its state that such a call computes, for each processor.
Sorter(nested, ps) ==
  [i \in DOMAIN ps |-> [st \in SortStates(ps) |-> PlaceOne(nested, st, ps, i)]]
NoSorter(ps) == [i \in DOMAIN ps |-> [st \in SortStates(ps) |-> st]]

\* How deep it can be inside itself: a call for a wish for a place before appends a
\* name first, and one for a place after is for a smaller name.
Depth(ps) == (Len(ps) + 1) * (Len(ps) + 1)

Place(ps) ==
  LET at[d \in 0 .. Depth(ps)] == IF d = 0 THEN NoSorter(ps) ELSE Sorter(at[d - 1], ps)
  IN at[Depth(ps)]

Unsorted(ps) == [out |-> <<>>, before |-> [i \in DOMAIN ps |-> ps[i].before]]

\* Faulty: goes from the last to the first.
Sorted_Backwards(ps) ==
  LET n == Len(ps)
      after[k \in 0 .. n] ==
        IF k = 0 THEN Unsorted(ps) ELSE Place(ps)[n + 1 - k][after[k - 1]]
  IN after[n]

Sorted(ps) ==
  LET after[k \in 0 .. Len(ps)] ==
        IF k = 0 THEN Unsorted(ps) ELSE Place(ps)[k][after[k - 1]]
  IN after[Len(ps)]

\* The last processor of a name counts, a removal included.
Chain(ps) ==
  LET out  == Sorted(ps).out
      kept == InOrder({j \in DOMAIN out : ps[LastIndex(NamesOf(ps), out[j])].op # "remove"})
  IN [n \in DOMAIN kept |-> out[kept[n]]]

-----------------------------------------------------------------------------
(* Containers.                                                             *)

Slice(k) == SubSeq(arrays[conts[k].array], 1, conts[k].len)
Objects(ids) == [i \in DOMAIN ids |-> [procs[ids[i]] EXCEPT !.before = before[ids[i]]]]

\* DB.Callback: the handle's container is replaced by a clone, which the
\* caller gets.
Callback(u) ==
  /\ u > 0
  /\ Len(conts) < Handles + 1 + MaxClones
  /\ conts' = Append(conts, conts[current[u]])
  /\ current' = [current EXCEPT ![u] = Len(conts) + 1]
  /\ UNCHANGED <<procs, before, arrays>>

\* append(processors, cp): in place while there is a free slot, whoever else
\* has the array.
Appended(k, p) ==
  LET a == conts[k].array
      n == conts[k].len
  IN IF n < Len(arrays[a])
     THEN [array |-> a, arrays |-> [arrays EXCEPT ![a][n + 1] = p]]
     ELSE [array |-> Len(arrays) + 1,
           arrays |-> Append(arrays, Slice(k) \o <<p>> \o [i \in 1 .. n - 1 |-> NoName])]

\* The before fields of the objects 1 .. p, after sorting has left bf in those of ids.
Fields(ids, bf, p) ==
  [q \in 1 .. p |->
     LET at == {i \in DOMAIN ids : ids[i] = q}
     IN IF at = {} THEN before[q] ELSE bf[CHOOSE i \in at : TRUE]]

\* Register, Replace and Remove: append the processor and reorder.
Ask(u, r) ==
  LET k   == current[u]
      p   == Len(procs) + 1
      ids == Append(Slice(k), p)
      ps  == Append(Objects(Slice(k)), r)
      app == Appended(k, p)
  IN /\ p <= Len(Base) + MaxAsked
     /\ procs' = Append(procs, r)
     /\ before' = Fields(ids, Sorted(ps).before, p)
     /\ arrays' = app.arrays
     /\ conts' = [conts EXCEPT ![k] =
          [array |-> app.array, len |-> Len(ids), chain |-> Chain(ps)]]
     /\ UNCHANGED current

-----------------------------------------------------------------------------
Default(n) == [op |-> "register", name |-> Base[n], before |-> NoName, after |-> NoName]
Ids == [n \in DOMAIN Base |-> n]

\* The init functions have run, and Open has cloned DefaultCallback.
RegistryInit ==
  /\ procs = [n \in DOMAIN Base |-> Default(n)]
  /\ before = [n \in DOMAIN Base |-> NoName]
  /\ arrays = <<Ids \o [i \in 1 .. Spare |-> NoName]>>
  /\ conts = [k \in 1 .. Handles + 1 |->
       [array |-> 1, len |-> Len(Base), chain |-> Base]]
  /\ current = [u \in Owners |-> u + 1]

RegistryNext ==
  \/ \E u \in Owners : Callback(u)
  \/ \E u \in Writers, r \in Requests : Ask(u, r)

RegistrySpec == RegistryInit /\ [][RegistryNext]_registryVars

-----------------------------------------------------------------------------
(* Properties.                                                             *)

Position(k, n) == LastIndex(conts[k].chain, n)
Runs(k, n) == Position(k, n) # 0

First(k, i) == \A j \in 1 .. i - 1 : procs[Slice(k)[j]].name # procs[Slice(k)[i]].name

\* The requests of a container that sorting can serve: nobody asks for two
\* places, a name is registered once (twice logs a warning) and has one wish, that
\* of the first request for it, and whoever is named before being registered has
\* no wish of its own.
Placeable(k, i, n) ==
  \/ n = NoName
  \/ \E j \in 1 .. i - 1 : procs[Slice(k)[j]].name = n
  \/ \A j \in 1 .. conts[k].len : LET r == procs[Slice(k)[j]] IN
       r.name = n => r.before = NoName /\ r.after = NoName

Simple(k) ==
  \A i \in 1 .. conts[k].len :
    LET r == procs[Slice(k)[i]] IN
    /\ r.before = NoName \/ r.after = NoName
    /\ ~First(k, i) => r.op # "register" /\ r.before = NoName /\ r.after = NoName
    /\ Placeable(k, i, r.before) /\ Placeable(k, i, r.after)

\* The i-th processor of a container gets what it asked for, if it is the
\* first of its name (the first gives the place) and both callbacks run.
Gets(k, i) ==
  LET r == procs[Slice(k)[i]] IN
  /\ r.before # NoName /\ Runs(k, r.name) /\ Runs(k, r.before) =>
       Position(k, r.name) < Position(k, r.before)
  /\ r.after # NoName /\ Runs(k, r.name) /\ Runs(k, r.after) =>
       Position(k, r.after) < Position(k, r.name)

\* The i-th processor's callback runs unless the last request for it is a removal.
Stays(k, i) ==
  LET n == procs[Slice(k)[i]].name
  IN Runs(k, n) <=> procs[Slice(k)[LastIndex(NamesOf(Objects(Slice(k))), n)]].op # "remove"

\* In a simple container every callback that is not removed runs, once and where
\* it asked to, after any number of replacements, removals and later registrations
\* as well, though each sorts from scratch with before fields that earlier sorts
\* have set.
SimplePlaced ==
  \A k \in DOMAIN conts : Simple(k) =>
    /\ IsInjective(conts[k].chain)
    /\ \A i \in 1 .. conts[k].len : Stays(k, i) /\ (First(k, i) => Gets(k, i))

\* Whatever users ask for, simple or not, the package's callbacks (begin,
\* statement, commit) run in the order of the init functions.
PackageOrder ==
  \A k \in DOMAIN conts : \A m, n \in DOMAIN Base :
    m < n /\ Runs(k, Base[m]) /\ Runs(k, Base[n]) => Position(k, Base[m]) < Position(k, Base[n])
=============================================================================
