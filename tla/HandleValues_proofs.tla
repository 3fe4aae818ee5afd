-------------------------- MODULE HandleValues_proofs --------------------------
(***************************************************************************)
(* Proofs about HandleValues: handles are values, whatever slices and maps  *)
(* they share, and a statement ends only the transaction it began.          *)
(***************************************************************************)
EXTENDS HandleValues, SequenceTheorems, TLAPS

-----------------------------------------------------------------------------
(* Sequences.                                                              *)

\* A slice's elements are the first ones of its array.
LEMMA Prefix ==
  ASSUME NEW S, NEW s \in Seq(S), NEW n \in Nat, n <= Len(s)
  PROVE  /\ SubSeq(s, 1, n) \in Seq(S) /\ Len(SubSeq(s, 1, n)) = n
         /\ \A i \in 1 .. n : SubSeq(s, 1, n)[i] = s[i]
<1>1. \A i \in 1 .. n : s[i] \in S BY ElementOfSeq, LenProperties
<1> QED BY <1>1, SubSeqProperties

\* append to a slice without room: the new array has room for one more.
LEMMA Room ==
  ASSUME NEW S, NEW s \in Seq(S), NEW c \in S, NEW d \in S
  PROVE  /\ s \o <<c, d>> \in Seq(S) /\ Len(s \o <<c, d>>) = Len(s) + 2
         /\ SubSeq(s \o <<c, d>>, 1, Len(s) + 1) = Append(s, c)
<1>0. Len(s) \in Nat BY LenProperties
<1>1. <<c, d>> \in Seq(S) /\ Len(<<c, d>>) = 2 /\ <<c, d>>[1] = c OBVIOUS
<1>2. /\ s \o <<c, d>> \in Seq(S) /\ Len(s \o <<c, d>>) = Len(s) + 2
      /\ \A i \in 1 .. Len(s) + 1 : (s \o <<c, d>>)[i] = IF i <= Len(s) THEN s[i] ELSE c
  BY <1>0, <1>1, ConcatProperties
<1>3. /\ SubSeq(s \o <<c, d>>, 1, Len(s) + 1) \in Seq(S)
      /\ Len(SubSeq(s \o <<c, d>>, 1, Len(s) + 1)) = Len(s) + 1
      /\ \A i \in 1 .. Len(s) + 1 :
           SubSeq(s \o <<c, d>>, 1, Len(s) + 1)[i] = IF i <= Len(s) THEN s[i] ELSE c
  BY <1>0, <1>2, Prefix
<1>4. /\ Append(s, c) \in Seq(S) /\ Len(Append(s, c)) = Len(s) + 1
      /\ \A i \in 1 .. Len(s) + 1 : Append(s, c)[i] = IF i <= Len(s) THEN s[i] ELSE c
  BY <1>0, AppendProperties
<1> QED BY <1>2, <1>3, <1>4, SeqEqual

\* A function on 1 .. n + 1 that goes on as s did is s with one element more.
LEMMA AppendsOne ==
  ASSUME NEW S, NEW n \in Nat, NEW s \in [1 .. n -> S], NEW t \in [1 .. n + 1 -> S],
         \A i \in 1 .. n : t[i] = s[i]
  PROVE  t = Append(s, t[n + 1])
<1>1. s \in Seq(S) /\ Len(s) = n /\ t \in Seq(S) /\ Len(t) = n + 1 OBVIOUS
<1>2. t[n + 1] \in S OBVIOUS
<1>3. /\ Append(s, t[n + 1]) \in Seq(S) /\ Len(Append(s, t[n + 1])) = n + 1
      /\ \A i \in 1 .. n : Append(s, t[n + 1])[i] = s[i]
      /\ Append(s, t[n + 1])[n + 1] = t[n + 1]
  BY <1>1, <1>2, AppendProperties
<1>4. \A i \in 1 .. n + 1 : Append(s, t[n + 1])[i] = t[i]
  <2> SUFFICES ASSUME NEW i \in 1 .. n + 1 PROVE Append(s, t[n + 1])[i] = t[i]
      OBVIOUS
  <2>1. i \in 1 .. n \/ i = n + 1 OBVIOUS
  <2> QED BY <1>3, <2>1
<1> QED BY <1>1, <1>3, <1>4, SeqEqual

\* Arithmetic, where the numbers are lengths.
LEMMA UpTo == \A m, n \in Nat : m <= n => \A i \in 1 .. m : i \in 1 .. n
OBVIOUS

LEMMA Transitive == \A k, m, n \in Nat : k <= m /\ m <= n => k <= n
OBVIOUS

LEMMA OneMore ==
  \A n \in Nat : /\ n + 1 \in Nat /\ n <= n + 1 /\ n + 1 \in 1 .. n + 1
                /\ n + 1 <= n + 2 /\ 0 <= n
OBVIOUS

LEMMA LastOrBefore == \A n \in Nat : \A i \in 1 .. n + 1 : i \in 1 .. n \/ i = n + 1
OBVIOUS

LEMMA NotLast == \A n \in Nat : \A i \in 1 .. n : i # n + 1
OBVIOUS

LEMMA Itself == \A n \in Nat : n <= n /\ ~(n < n)
OBVIOUS

-----------------------------------------------------------------------------
(* What lies in memory.                                                    *)

Words     == Conds \cup {None}
Slice     == [array : Nat, len : Nat]
Setting   == [clause : Clauses \cup {None}, started : SUBSET Addrs]
Handle    == [where : Slice, limit : {1, None}, values : Nat, tx : BOOLEAN]
Statement == [db : Nat, where : Slice, limit : {1, None}, addr : Addrs, within : Nat,
              at : {"new", "begun", "done"}, began : BOOLEAN, ended : BOOLEAN,
              reused : BOOLEAN]

Holds(as, slice) == slice.array \in 1 .. Len(as) /\ slice.len <= Len(as[slice.array])
Read(as, slice)  == SubSeq(as[slice.array], 1, slice.len)

\* Arrays are only ever added: nobody's append finds room in an array of another.
Grows(as, bs) ==
  /\ bs \in Seq(Seq(Words))
  /\ Len(as) <= Len(bs)
  /\ \A a \in 1 .. Len(as) : bs[a] = as[a]

LEMMA ReadKept ==
  ASSUME NEW as \in Seq(Seq(Words)), NEW bs, Grows(as, bs), NEW slice, Holds(as, slice)
  PROVE  Holds(bs, slice) /\ Read(bs, slice) = Read(as, slice)
<1>1. bs \in Seq(Seq(Words)) /\ Len(as) <= Len(bs) /\ slice.array \in 1 .. Len(as)
  BY DEF Grows, Holds
<1>2. Len(as) \in Nat /\ Len(bs) \in Nat BY <1>1, LenProperties
<1>3. slice.array \in 1 .. Len(bs) BY <1>1, <1>2, UpTo
<1>4. bs[slice.array] = as[slice.array] BY <1>1 DEF Grows
<1> QED BY <1>3, <1>4 DEF Holds, Read

LEMMA GrowsOn ==
  ASSUME NEW as \in Seq(Seq(Words)), NEW bs, NEW ds, Grows(as, bs), Grows(bs, ds)
  PROVE  Grows(as, ds)
<1>1. bs \in Seq(Seq(Words)) /\ ds \in Seq(Seq(Words)) BY DEF Grows
<1>2. Len(as) \in Nat /\ Len(bs) \in Nat /\ Len(ds) \in Nat BY <1>1, LenProperties
<1>3. Len(as) <= Len(bs) /\ Len(bs) <= Len(ds) BY DEF Grows
<1>4. ASSUME NEW a \in 1 .. Len(as) PROVE ds[a] = as[a]
  <2>1. a \in 1 .. Len(bs) BY <1>2, <1>3, UpTo
  <2> QED BY <2>1 DEF Grows
<1>5. Len(as) <= Len(ds) BY <1>2, <1>3, Transitive
<1> QED BY <1>1, <1>4, <1>5 DEF Grows

LEMMA AddsArray ==
  ASSUME NEW as \in Seq(Seq(Words)), NEW s \in Seq(Words)
  PROVE  /\ Grows(as, Append(as, s))
         /\ Len(Append(as, s)) = Len(as) + 1
         /\ Append(as, s)[Len(as) + 1] = s
<1>1. Append(as, s) \in Seq(Seq(Words)) BY AppendProperties
<1>2. Len(Append(as, s)) = Len(as) + 1 BY AppendProperties
<1>3. Append(as, s)[Len(as) + 1] = s BY AppendProperties
<1>4. ASSUME NEW i \in 1 .. Len(as) PROVE Append(as, s)[i] = as[i]
  BY AppendProperties
<1>5. Len(as) \in Nat BY LenProperties
<1>6. Len(as) <= Len(Append(as, s)) BY <1>2, <1>5, OneMore
<1> QED BY <1>1, <1>2, <1>3, <1>4, <1>6 DEF Grows

\* A search's conditions fill their array, as they do after a clone.
Full(as, slice) == slice.array \in 1 .. Len(as) /\ slice.len = Len(as[slice.array])

LEMMA FullHolds ==
  ASSUME NEW as \in Seq(Seq(Words)), NEW slice, Full(as, slice)
  PROVE  Holds(as, slice) /\ Read(as, slice) = as[slice.array]
<1>1. as[slice.array] \in Seq(Words) BY ElementOfSeq DEF Full
<1>2. Len(as[slice.array]) \in Nat BY <1>1, LenProperties
<1>3. SubSeq(as[slice.array], 1, Len(as[slice.array])) = as[slice.array]
  BY <1>1, SubSeqFull
<1> QED BY <1>2, <1>3, Itself DEF Holds, Read, Full

\* The clone of a search reads as the search does.
LEMMA SearchCloneIs ==
  ASSUME NEW as \in Seq(Seq(Words)), NEW slice \in Slice, Holds(as, slice)
  PROVE  /\ Grows(as, SearchClone(as, slice).arrays)
         /\ SearchClone(as, slice).slice \in Slice
         /\ Full(SearchClone(as, slice).arrays, SearchClone(as, slice).slice)
         /\ Read(SearchClone(as, slice).arrays, SearchClone(as, slice).slice) = Read(as, slice)
<1> DEFINE s  == SubSeq(as[slice.array], 1, slice.len)
           bs == Append(as, s)
           to == [array |-> Len(as) + 1, len |-> slice.len]
<1>1. as[slice.array] \in Seq(Words) BY ElementOfSeq DEF Holds
<1>2. slice.len \in Nat /\ Len(as) \in Nat BY LenProperties DEF Slice
<1>3. slice.len <= Len(as[slice.array]) BY DEF Holds
<1>4. s \in Seq(Words) /\ Len(s) = slice.len BY <1>1, <1>2, <1>3, Prefix
<1>5. s = Read(as, slice) BY DEF Read
<1> HIDE DEF s
<1>6. Grows(as, bs) /\ Len(bs) = Len(as) + 1 /\ bs[Len(as) + 1] = s
  BY <1>4, AddsArray
<1>7. bs \in Seq(Seq(Words)) BY <1>6 DEF Grows
<1>8. SearchClone(as, slice).arrays = bs /\ SearchClone(as, slice).slice = to
  BY DEF SearchClone, s
<1> HIDE DEF bs
<1>9. to \in Slice BY <1>2, OneMore DEF Slice
<1>10. Full(bs, to) BY <1>2, <1>4, <1>6, OneMore DEF Full
<1>11. Read(bs, to) = s
  <2>1. Read(bs, to) = bs[to.array] BY <1>7, <1>10, FullHolds
  <2> QED BY <2>1, <1>6
<1> QED BY <1>5, <1>6, <1>8, <1>9, <1>10, <1>11

\* append to conditions that fill their array makes an array of its own.
LEMMA AppendedIs ==
  ASSUME NEW as \in Seq(Seq(Words)), NEW slice \in Slice, Full(as, slice), NEW c \in Conds
  PROVE  /\ Grows(as, Appended(as, slice, c).arrays)
         /\ Appended(as, slice, c).slice \in Slice
         /\ Holds(Appended(as, slice, c).arrays, Appended(as, slice, c).slice)
         /\ Read(Appended(as, slice, c).arrays, Appended(as, slice, c).slice)
              = Append(Read(as, slice), c)
<1> DEFINE old == as[slice.array]
           s   == old \o <<c, None>>
           bs  == Append(as, s)
           to  == [array |-> Len(as) + 1, len |-> slice.len + 1]
<1>1. old \in Seq(Words) BY ElementOfSeq DEF Full
<1>2. slice.len \in Nat /\ Len(as) \in Nat BY LenProperties DEF Slice
<1>3. slice.len = Len(old) BY DEF Full
<1>4. SubSeq(old, 1, slice.len) = old BY <1>1, <1>3, SubSeqFull
<1>5. Appended(as, slice, c).arrays = bs /\ Appended(as, slice, c).slice = to
  <2>1. ~(slice.len < Len(as[slice.array])) BY <1>2, <1>3, Itself
  <2> QED BY <1>4, <2>1 DEF Appended
<1>6. Read(as, slice) = old BY FullHolds
<1>7. c \in Words /\ None \in Words BY DEF Words
<1> HIDE DEF old
<1>8. /\ s \in Seq(Words)
      /\ Len(s) = Len(old) + 2
      /\ SubSeq(s, 1, Len(old) + 1) = Append(old, c)
  BY <1>1, <1>7, Room
<1> HIDE DEF s
<1>9. Grows(as, bs) /\ Len(bs) = Len(as) + 1 /\ bs[Len(as) + 1] = s
  BY <1>8, AddsArray
<1> HIDE DEF bs
<1>10. to \in Slice BY <1>2, OneMore DEF Slice
<1>11. Holds(bs, to)
  <2>1. to.array \in 1 .. Len(bs) BY <1>2, <1>9, OneMore
  <2>2. to.len <= Len(bs[to.array]) BY <1>2, <1>3, <1>8, <1>9, OneMore
  <2> QED BY <2>1, <2>2 DEF Holds
<1>12. Read(bs, to) = Append(old, c) BY <1>3, <1>8, <1>9 DEF Read
<1> QED BY <1>5, <1>6, <1>9, <1>10, <1>11, <1>12

-----------------------------------------------------------------------------
(* The invariant: every slice lies in an array, every handle has a map of   *)
(* settings and every statement a handle of its own, and the flag of a      *)
(* statement's address is in its settings only when it set it there, or     *)
(* when it lies where another statement has been.                          *)

MemoryOK ==
  /\ arrays \in Seq(Seq(Words))
  /\ maps \in Seq(Setting)
  /\ dbs \in Seq(Handle)
  /\ scopes \in Seq(Statement)
  /\ Len(maps) = Len(dbs)
  /\ \A h \in 1 .. Len(dbs) : dbs[h].values = h /\ Holds(arrays, dbs[h].where)
  /\ \A i \in 1 .. Len(scopes) :
       scopes[i].db \in 1 .. Len(dbs) /\ Holds(arrays, scopes[i].where)

OwnHandles == \A i, j \in 1 .. Len(scopes) : scopes[i].db = scopes[j].db => i = j

OwnFlags == \A i \in 1 .. Len(scopes) :
  scopes[i].addr \in maps[scopes[i].db].started => scopes[i].began \/ scopes[i].reused

Fresh == \A i \in 1 .. Len(scopes) :
  scopes[i].at = "new" => ~scopes[i].began /\ ~scopes[i].ended

Inv == MemoryOK /\ OwnHandles /\ OwnFlags /\ Fresh /\ FlagIsOwn

LEMMA Domains ==
  ASSUME MemoryOK
  PROVE  /\ DOMAIN dbs = 1 .. Len(dbs) /\ DOMAIN scopes = 1 .. Len(scopes)
         /\ DOMAIN maps = 1 .. Len(dbs)
         /\ Len(dbs) \in Nat /\ Len(scopes) \in Nat /\ Len(maps) = Len(dbs)
<1>1. maps \in Seq(Setting) /\ dbs \in Seq(Handle) /\ scopes \in Seq(Statement)
      /\ Len(maps) = Len(dbs)
  BY DEF MemoryOK
<1>2. DOMAIN dbs = 1 .. Len(dbs) /\ Len(dbs) \in Nat BY <1>1, LenProperties
<1>3. DOMAIN scopes = 1 .. Len(scopes) /\ Len(scopes) \in Nat BY <1>1, LenProperties
<1>4. DOMAIN maps = 1 .. Len(maps) BY <1>1, LenProperties
<1> QED BY <1>1, <1>2, <1>3, <1>4

LEMMA HandleIs ==
  ASSUME MemoryOK, NEW h \in 1 .. Len(dbs)
  PROVE  /\ dbs[h] \in Handle /\ dbs[h].values = h /\ dbs[h].where \in Slice
         /\ dbs[h].limit \in {1, None} /\ dbs[h].tx \in BOOLEAN
         /\ Holds(arrays, dbs[h].where)
         /\ Settings(h) = maps[h] /\ maps[h] \in Setting
         /\ maps[h].clause \in Clauses \cup {None} /\ maps[h].started \in SUBSET Addrs
<1>1. maps \in Seq(Setting) /\ dbs \in Seq(Handle) /\ Len(maps) = Len(dbs)
      /\ dbs[h].values = h /\ Holds(arrays, dbs[h].where)
  BY DEF MemoryOK
<1>2. dbs[h] \in Handle BY <1>1, ElementOfSeq
<1>3. h \in 1 .. Len(maps) BY <1>1
<1>4. maps[h] \in Setting BY <1>1, <1>3, ElementOfSeq
<1>5. dbs[h].where \in Slice /\ dbs[h].limit \in {1, None} /\ dbs[h].tx \in BOOLEAN
  BY <1>2 DEF Handle
<1>6. maps[h].clause \in Clauses \cup {None} /\ maps[h].started \in SUBSET Addrs
  BY <1>4 DEF Setting
<1> QED BY <1>1, <1>2, <1>4, <1>5, <1>6 DEF Settings

LEMMA StatementIs ==
  ASSUME MemoryOK, NEW i \in 1 .. Len(scopes)
  PROVE  /\ scopes[i] \in Statement /\ scopes[i].db \in 1 .. Len(dbs)
         /\ Holds(arrays, scopes[i].where)
         /\ scopes[i].where \in Slice /\ scopes[i].addr \in Addrs
         /\ scopes[i].limit \in {1, None}
         /\ scopes[i].began \in BOOLEAN /\ scopes[i].ended \in BOOLEAN
         /\ scopes[i].reused \in BOOLEAN
<1>1. scopes \in Seq(Statement) /\ scopes[i].db \in 1 .. Len(dbs)
      /\ Holds(arrays, scopes[i].where)
  BY DEF MemoryOK
<1>2. scopes[i] \in Statement BY <1>1, ElementOfSeq
<1> QED BY <1>1, <1>2 DEF Statement

-----------------------------------------------------------------------------
(* A clone.                                                                *)

LEMMA HandleRecord ==
  ASSUME NEW w \in Slice, NEW l \in {1, None}, NEW v \in Nat, NEW x \in BOOLEAN,
         NEW db, db = [where |-> w, limit |-> l, values |-> v, tx |-> x]
  PROVE  db \in Handle /\ db.where = w /\ db.limit = l /\ db.values = v /\ db.tx = x
BY DEF Handle

\* A handle with another search, limit or transaction.
LEMMA HandleField ==
  ASSUME NEW r \in Handle, NEW v
  PROVE  /\ [r EXCEPT !.where = v]
              = [where |-> v, limit |-> r.limit, values |-> r.values, tx |-> r.tx]
         /\ [r EXCEPT !.limit = v]
              = [where |-> r.where, limit |-> v, values |-> r.values, tx |-> r.tx]
         /\ [r EXCEPT !.tx = v]
              = [where |-> r.where, limit |-> r.limit, values |-> r.values, tx |-> v]
<1>1. [r EXCEPT !.where = v]
        = [where |-> v, limit |-> r.limit, values |-> r.values, tx |-> r.tx]
  BY DEF Handle
<1>2. [r EXCEPT !.limit = v]
        = [where |-> r.where, limit |-> v, values |-> r.values, tx |-> r.tx]
  BY DEF Handle
<1>3. [r EXCEPT !.tx = v]
        = [where |-> r.where, limit |-> r.limit, values |-> r.values, tx |-> v]
  BY DEF Handle
<1> QED BY <1>1, <1>2, <1>3

LEMMA WhereAndValues ==
  ASSUME NEW r \in Handle, NEW v, NEW n
  PROVE  [r EXCEPT !.where = v, !.values = n]
           = [where |-> v, limit |-> r.limit, values |-> n, tx |-> r.tx]
<1> DEFINE s == [where |-> v, limit |-> r.limit, values |-> r.values, tx |-> r.tx]
<1>1. [r EXCEPT !.where = v] = s BY DEF Handle
<1>2. [s EXCEPT !.values = n] = [where |-> v, limit |-> r.limit, values |-> n, tx |-> r.tx]
  OBVIOUS
<1> HIDE DEF s
<1>3. [r EXCEPT !.where = v, !.values = n] = [[r EXCEPT !.where = v] EXCEPT !.values = n]
  OBVIOUS
<1> QED BY <1>1, <1>2, <1>3

LEMMA WhereAndLimit ==
  ASSUME NEW r \in Handle, NEW v, NEW n
  PROVE  [r EXCEPT !.where = v, !.limit = n]
           = [where |-> v, limit |-> n, values |-> r.values, tx |-> r.tx]
<1> DEFINE s == [where |-> v, limit |-> r.limit, values |-> r.values, tx |-> r.tx]
<1>1. [r EXCEPT !.where = v] = s BY DEF Handle
<1>2. [s EXCEPT !.limit = n] = [where |-> v, limit |-> n, values |-> r.values, tx |-> r.tx]
  OBVIOUS
<1> HIDE DEF s
<1>3. [r EXCEPT !.where = v, !.limit = n] = [[r EXCEPT !.where = v] EXCEPT !.limit = n]
  OBVIOUS
<1> QED BY <1>1, <1>2, <1>3

\* The clone of a handle reads as the handle does, and shares nothing with it.
LEMMA CloneIs ==
  ASSUME MemoryOK, NEW h \in 1 .. Len(dbs)
  PROVE  /\ Grows(arrays, Clone(h).arrays)
         /\ Clone(h).maps = Append(maps, maps[h])
         /\ Clone(h).db \in Handle
         /\ Full(Clone(h).arrays, Clone(h).db.where)
         /\ Read(Clone(h).arrays, Clone(h).db.where) = Elements(dbs[h].where)
         /\ Clone(h).db = [where |-> Clone(h).db.where, limit |-> dbs[h].limit,
                           values |-> Len(dbs) + 1, tx |-> dbs[h].tx]
         /\ Clone(h).db.where \in Slice
<1> DEFINE copy == SearchClone(arrays, dbs[h].where)
<1>1. arrays \in Seq(Seq(Words)) /\ Len(maps) = Len(dbs) BY DEF MemoryOK
<1>2. /\ dbs[h] \in Handle /\ dbs[h].where \in Slice
      /\ dbs[h].limit \in {1, None} /\ dbs[h].tx \in BOOLEAN
      /\ Holds(arrays, dbs[h].where) /\ Settings(h) = maps[h]
  BY HandleIs
<1>3. /\ Grows(arrays, copy.arrays) /\ copy.slice \in Slice
      /\ Full(copy.arrays, copy.slice)
      /\ Read(copy.arrays, copy.slice) = Elements(dbs[h].where)
  BY <1>1, <1>2, SearchCloneIs DEF Read, Elements
<1>4. /\ Clone(h).arrays = copy.arrays /\ Clone(h).maps = Append(maps, maps[h])
      /\ Clone(h).db = [dbs[h] EXCEPT !.where = copy.slice, !.values = Len(maps) + 1]
  BY <1>2 DEF Clone
<1> HIDE DEF copy
<1>5. [dbs[h] EXCEPT !.where = copy.slice, !.values = Len(maps) + 1]
        = [where |-> copy.slice, limit |-> dbs[h].limit,
           values |-> Len(dbs) + 1, tx |-> dbs[h].tx]
  <2> DEFINE old == dbs[h]
             v   == copy.slice
             n   == Len(maps) + 1
  <2>1. old \in Handle BY <1>2
  <2> HIDE DEF old, v, n
  <2>2. [old EXCEPT !.where = v, !.values = n]
          = [where |-> v, limit |-> old.limit, values |-> n, tx |-> old.tx]
    BY <2>1, WhereAndValues
  <2> QED BY <1>1, <2>2 DEF old, v, n
<1>6. Len(dbs) + 1 \in Nat BY Domains, OneMore
<1>7. Clone(h).db.where = copy.slice BY <1>4, <1>5
<1>8. [where |-> copy.slice, limit |-> dbs[h].limit,
       values |-> Len(dbs) + 1, tx |-> dbs[h].tx] \in Handle
  BY <1>2, <1>3, <1>6 DEF Handle
<1> QED BY <1>3, <1>4, <1>5, <1>7, <1>8

-----------------------------------------------------------------------------
(* A handle is made, or a statement begun.                                 *)

\* A handle more, in memory of its own.
Made(as, ms, db) ==
  /\ Makes(as, ms, db)
  /\ Grows(arrays, as)
  /\ ms \in Seq(Setting) /\ Len(ms) = Len(dbs) + 1
  /\ \A h \in 1 .. Len(dbs) : ms[h] = maps[h]
  /\ db \in Handle /\ db.values = Len(dbs) + 1 /\ Holds(as, db.where)

LEMMA MapAdded ==
  ASSUME MemoryOK, NEW m \in Setting
  PROVE  /\ Append(maps, m) \in Seq(Setting) /\ Len(Append(maps, m)) = Len(dbs) + 1
         /\ \A h \in 1 .. Len(dbs) : Append(maps, m)[h] = maps[h]
         /\ Append(maps, m)[Len(dbs) + 1] = m
<1>1. maps \in Seq(Setting) /\ Len(maps) = Len(dbs) BY DEF MemoryOK
<1>2. Append(maps, m) \in Seq(Setting) BY <1>1, AppendProperties
<1>3. Len(Append(maps, m)) = Len(maps) + 1 BY <1>1, AppendProperties
<1>4. ASSUME NEW h \in 1 .. Len(maps) PROVE Append(maps, m)[h] = maps[h]
  BY <1>1, AppendProperties
<1>5. Append(maps, m)[Len(maps) + 1] = m BY <1>1, AppendProperties
<1> QED BY <1>1, <1>2, <1>3, <1>4, <1>5

\* Making a handle leaves the others as they were.
LEMMA MadeKeeps ==
  ASSUME MemoryOK, NEW as, NEW ms, NEW db, Made(as, ms, db)
  PROVE  /\ arrays' = as /\ maps' = ms
         /\ arrays' \in Seq(Seq(Words)) /\ maps' \in Seq(Setting) /\ dbs' \in Seq(Handle)
         /\ Len(dbs') = Len(dbs) + 1 /\ Len(maps') = Len(dbs')
         /\ \A h \in 1 .. Len(dbs) : dbs'[h] = dbs[h] /\ maps'[h] = maps[h]
         /\ dbs'[Len(dbs) + 1] = db
         /\ \A h \in 1 .. Len(dbs') : dbs'[h].values = h /\ Holds(arrays', dbs'[h].where)
<1>1. /\ arrays' = as /\ maps' = ms /\ dbs' = Append(dbs, db)
      /\ Grows(arrays, as) /\ ms \in Seq(Setting) /\ Len(ms) = Len(dbs) + 1
      /\ \A h \in 1 .. Len(dbs) : ms[h] = maps[h]
      /\ db \in Handle /\ db.values = Len(dbs) + 1 /\ Holds(as, db.where)
  BY DEF Made, Makes
<1>2. dbs \in Seq(Handle) /\ arrays \in Seq(Seq(Words)) BY DEF MemoryOK
<1>3. Len(dbs) \in Nat BY Domains
<1>4. dbs' \in Seq(Handle) BY <1>1, <1>2, AppendProperties
<1>5. Len(dbs') = Len(dbs) + 1 BY <1>1, <1>2, AppendProperties
<1>6. dbs'[Len(dbs) + 1] = db BY <1>1, <1>2, AppendProperties
<1>7. ASSUME NEW h \in 1 .. Len(dbs) PROVE dbs'[h] = dbs[h]
  BY <1>1, <1>2, AppendProperties
<1>8. as \in Seq(Seq(Words)) BY <1>1 DEF Grows
<1>9. ASSUME NEW h \in 1 .. Len(dbs') PROVE dbs'[h].values = h /\ Holds(arrays', dbs'[h].where)
  <2>1. CASE h \in 1 .. Len(dbs)
    <3>1. Holds(arrays, dbs[h].where) /\ dbs[h].values = h BY <2>1 DEF MemoryOK
    <3>2. Holds(as, dbs[h].where) BY <1>1, <1>2, <3>1, ReadKept
    <3> QED BY <1>1, <1>7, <2>1, <3>1, <3>2
  <2>2. CASE h = Len(dbs) + 1
    BY <1>1, <1>6, <2>2
  <2>3. h \in 1 .. Len(dbs) \/ h = Len(dbs) + 1 BY <1>3, <1>5, LastOrBefore
  <2> QED BY <2>1, <2>2, <2>3
<1> QED BY <1>1, <1>4, <1>5, <1>6, <1>7, <1>8, <1>9

\* A chained call keeps the memory in order, and no statement's handle changes.
LEMMA DeriveKeeps ==
  ASSUME MemoryOK, NEW as, NEW ms, NEW db, Made(as, ms, db), UNCHANGED scopes
  PROVE  MemoryOK'
<1>1. /\ arrays' = as /\ arrays' \in Seq(Seq(Words))
      /\ maps' \in Seq(Setting) /\ dbs' \in Seq(Handle)
      /\ Len(dbs') = Len(dbs) + 1 /\ Len(maps') = Len(dbs')
      /\ \A h \in 1 .. Len(dbs') : dbs'[h].values = h /\ Holds(arrays', dbs'[h].where)
  BY MadeKeeps
<1>2. Len(dbs) \in Nat /\ arrays \in Seq(Seq(Words)) /\ scopes \in Seq(Statement)
  BY Domains DEF MemoryOK
<1>3. Grows(arrays, as) BY DEF Made
<1>4. ASSUME NEW i \in 1 .. Len(scopes)
      PROVE  scopes[i].db \in 1 .. Len(dbs') /\ Holds(arrays', scopes[i].where)
  <2>1. scopes[i].db \in 1 .. Len(dbs) /\ Holds(arrays, scopes[i].where) BY DEF MemoryOK
  <2>2. scopes[i].db \in 1 .. Len(dbs') BY <1>1, <1>2, <2>1, OneMore, UpTo
  <2>3. Holds(as, scopes[i].where) BY <1>2, <1>3, <2>1, ReadKept
  <2> QED BY <1>1, <2>2, <2>3
<1> QED BY <1>1, <1>2, <1>4 DEF MemoryOK

\* So does the start of a statement on the handle made.
LEMMA StartKeeps ==
  ASSUME MemoryOK, NEW as, NEW ms, NEW db, Made(as, ms, db),
         NEW s \in Statement, s.db = Len(dbs) + 1, Holds(as, s.where),
         scopes' = Append(scopes, s)
  PROVE  /\ MemoryOK'
         /\ Len(scopes') = Len(scopes) + 1 /\ scopes'[Len(scopes) + 1] = s
         /\ \A i \in 1 .. Len(scopes) : scopes'[i] = scopes[i]
<1>1. /\ arrays' = as /\ arrays' \in Seq(Seq(Words))
      /\ maps' \in Seq(Setting) /\ dbs' \in Seq(Handle)
      /\ Len(dbs') = Len(dbs) + 1 /\ Len(maps') = Len(dbs')
      /\ \A h \in 1 .. Len(dbs') : dbs'[h].values = h /\ Holds(arrays', dbs'[h].where)
  BY MadeKeeps
<1>2. Len(dbs) \in Nat /\ Len(scopes) \in Nat BY Domains
<1>3. arrays \in Seq(Seq(Words)) /\ scopes \in Seq(Statement) BY DEF MemoryOK
<1>4. Grows(arrays, as) BY DEF Made
<1>5. scopes' \in Seq(Statement) BY <1>3, AppendProperties
<1>6. Len(scopes') = Len(scopes) + 1 BY <1>3, AppendProperties
<1>7. scopes'[Len(scopes) + 1] = s BY <1>3, AppendProperties
<1>8. ASSUME NEW i \in 1 .. Len(scopes) PROVE scopes'[i] = scopes[i]
  BY <1>3, AppendProperties
<1>9. ASSUME NEW i \in 1 .. Len(scopes')
      PROVE  scopes'[i].db \in 1 .. Len(dbs') /\ Holds(arrays', scopes'[i].where)
  <2>1. CASE i \in 1 .. Len(scopes)
    <3>1. scopes[i].db \in 1 .. Len(dbs) /\ Holds(arrays, scopes[i].where)
      BY <2>1 DEF MemoryOK
    <3>2. scopes[i].db \in 1 .. Len(dbs') BY <1>1, <1>2, <3>1, OneMore, UpTo
    <3>3. Holds(as, scopes[i].where) BY <1>3, <1>4, <3>1, ReadKept
    <3> QED BY <1>1, <1>8, <2>1, <3>2, <3>3
  <2>2. CASE i = Len(scopes) + 1
    <3>1. s.db \in 1 .. Len(dbs') BY <1>1, <1>2, OneMore
    <3> QED BY <1>1, <1>7, <2>2, <3>1
  <2>3. i \in 1 .. Len(scopes) \/ i = Len(scopes) + 1 BY <1>2, <1>6, LastOrBefore
  <2> QED BY <2>1, <2>2, <2>3
<1> QED BY <1>1, <1>5, <1>6, <1>7, <1>8, <1>9 DEF MemoryOK

-----------------------------------------------------------------------------
(* The chained calls.                                                      *)

\* The chain of calls that a handle stands for.
ChainIn(as, ms, db) ==
  [where |-> Read(as, db.where), limit |-> db.limit, clause |-> ms[db.values].clause]

LEMMA BareIs ==
  ASSUME NEW w, NEW l, NEW k
  PROVE  Chains!Bare([where |-> w, limit |-> l, clause |-> k])
           = [where |-> <<>>, limit |-> None, clause |-> k]
<1> DEFINE x == [where |-> w, limit |-> l, clause |-> k]
           y == [where |-> <<>>, limit |-> l, clause |-> k]
<1>1. [x EXCEPT !.where = <<>>] = y OBVIOUS
<1>2. [y EXCEPT !.limit = None] = [where |-> <<>>, limit |-> None, clause |-> k] OBVIOUS
<1> HIDE DEF x, y
<1>3. [x EXCEPT !.where = <<>>, !.limit = None] = [[x EXCEPT !.where = <<>>] EXCEPT !.limit = None]
  OBVIOUS
<1>4. Chains!Bare(x) = [where |-> <<>>, limit |-> None, clause |-> k]
  BY <1>1, <1>2, <1>3 DEF Chains!Bare
<1> QED BY <1>4 DEF x

LEMMA ChainedIs ==
  ASSUME NEW w, NEW l, NEW k
  PROVE  LET x == [where |-> w, limit |-> l, clause |-> k] IN
         /\ x \in Chains!Chained(x)
         /\ [where |-> w, limit |-> 1, clause |-> k] \in Chains!Chained(x)
         /\ [where |-> <<>>, limit |-> None, clause |-> k] \in Chains!Chained(x)
         /\ \A c \in Conds :
              [where |-> Append(w, c), limit |-> l, clause |-> k] \in Chains!Chained(x)
         /\ \A v \in Clauses :
              [where |-> w, limit |-> l, clause |-> v] \in Chains!Chained(x)
<1> DEFINE x == [where |-> w, limit |-> l, clause |-> k]
<1>1. [x EXCEPT !.limit = 1] = [where |-> w, limit |-> 1, clause |-> k] OBVIOUS
<1>2. ASSUME NEW c \in Conds
      PROVE  [x EXCEPT !.where = Append(@, c)] = [where |-> Append(w, c), limit |-> l, clause |-> k]
  OBVIOUS
<1>3. ASSUME NEW v \in Clauses
      PROVE  [x EXCEPT !.clause = v] = [where |-> w, limit |-> l, clause |-> v]
  OBVIOUS
<1>4. Chains!Bare(x) = [where |-> <<>>, limit |-> None, clause |-> k] BY BareIs
<1> HIDE DEF x
<1>5. /\ x \in Chains!Chained(x) /\ Chains!Bare(x) \in Chains!Chained(x)
      /\ [x EXCEPT !.limit = 1] \in Chains!Chained(x)
      /\ \A c \in Conds : [x EXCEPT !.where = Append(@, c)] \in Chains!Chained(x)
      /\ \A v \in Clauses : [x EXCEPT !.clause = v] \in Chains!Chained(x)
  BY DEF Chains!Chained
<1> QED BY <1>1, <1>2, <1>3, <1>4, <1>5 DEF x

\* A chained call on h: a handle more, with a chain that the call may make of h's.
Derived(h) == \E as, ms, db :
  /\ Made(as, ms, db)
  /\ ms[Len(dbs) + 1].started = maps[h].started
  /\ ChainIn(as, ms, db) \in Chains!Chained(ChainIn(arrays, maps, dbs[h]))

\* What the calls have of the clone.
LEMMA CloneFacts ==
  ASSUME MemoryOK, NEW h \in 1 .. Len(dbs)
  PROVE  /\ Grows(arrays, Clone(h).arrays) /\ Clone(h).arrays \in Seq(Seq(Words))
         /\ Clone(h).maps = Append(maps, maps[h]) /\ maps[h] \in Setting
         /\ Full(Clone(h).arrays, Clone(h).db.where) /\ Clone(h).db.where \in Slice
         /\ Holds(Clone(h).arrays, Clone(h).db.where)
         /\ Clone(h).db \in Handle
         /\ Clone(h).db = [where |-> Clone(h).db.where, limit |-> dbs[h].limit,
                           values |-> Len(dbs) + 1, tx |-> dbs[h].tx]
         /\ dbs[h].limit \in {1, None} /\ dbs[h].tx \in BOOLEAN
         /\ ChainIn(arrays, maps, dbs[h])
              = [where |-> Read(Clone(h).arrays, Clone(h).db.where), limit |-> dbs[h].limit,
                 clause |-> maps[h].clause]
<1>1. /\ Grows(arrays, Clone(h).arrays)
      /\ Clone(h).maps = Append(maps, maps[h])
      /\ Clone(h).db \in Handle
      /\ Full(Clone(h).arrays, Clone(h).db.where)
      /\ Read(Clone(h).arrays, Clone(h).db.where) = Elements(dbs[h].where)
      /\ Clone(h).db = [where |-> Clone(h).db.where, limit |-> dbs[h].limit,
                        values |-> Len(dbs) + 1, tx |-> dbs[h].tx]
      /\ Clone(h).db.where \in Slice
  BY CloneIs
<1>2. /\ dbs[h].limit \in {1, None} /\ dbs[h].tx \in BOOLEAN /\ maps[h] \in Setting
      /\ dbs[h].values = h
  BY HandleIs
<1>3. Clone(h).arrays \in Seq(Seq(Words)) BY <1>1 DEF Grows
<1>4. Holds(Clone(h).arrays, Clone(h).db.where) BY <1>1, <1>3, FullHolds
<1>5. ChainIn(arrays, maps, dbs[h])
        = [where |-> Elements(dbs[h].where), limit |-> dbs[h].limit, clause |-> maps[h].clause]
  BY <1>2 DEF ChainIn, Read, Elements
<1> QED BY <1>1, <1>2, <1>3, <1>4, <1>5

LEMMA MadeDerives ==
  ASSUME MemoryOK, NEW h \in 1 .. Len(dbs), NEW as, NEW w, NEW l, NEW x, NEW m, NEW db,
         Grows(arrays, as), w \in Slice, Holds(as, w), l \in {1, None}, x \in BOOLEAN,
         m \in Setting, m.started = maps[h].started,
         db = [where |-> w, limit |-> l, values |-> Len(dbs) + 1, tx |-> x],
         Makes(as, Append(maps, m), db),
         [where |-> Read(as, w), limit |-> l, clause |-> m.clause]
           \in Chains!Chained(ChainIn(arrays, maps, dbs[h]))
  PROVE  Derived(h)
<1> DEFINE ms == Append(maps, m)
<1>1. ms[Len(dbs) + 1] = m BY MapAdded
<1>2. Made(as, ms, db)
  <2>1. /\ ms \in Seq(Setting) /\ Len(ms) = Len(dbs) + 1
        /\ \A i \in 1 .. Len(dbs) : ms[i] = maps[i]
    BY MapAdded
  <2>2. Len(dbs) + 1 \in Nat BY Domains, OneMore
  <2>3. db \in Handle BY <2>2 DEF Handle
  <2> QED BY <2>1, <2>3 DEF Made
<1>3. ChainIn(as, ms, db) = [where |-> Read(as, w), limit |-> l, clause |-> m.clause]
  BY <1>1 DEF ChainIn
<1> HIDE DEF ms
<1> QED BY <1>1, <1>2, <1>3 DEF Derived

LEMMA WhereDerives ==
  ASSUME MemoryOK, NEW h \in 1 .. Len(dbs), Where(h)
  PROVE  Derived(h) /\ UNCHANGED scopes
<1> DEFINE as == Clone(h).arrays
           w  == Clone(h).db.where
           l  == dbs[h].limit
           x  == dbs[h].tx
           m  == maps[h]
<1>1. PICK c \in Conds :
        /\ Makes(Appended(as, w, c).arrays, Clone(h).maps,
                 [Clone(h).db EXCEPT !.where = Appended(as, w, c).slice])
        /\ UNCHANGED scopes
  BY DEF Where
<1>2. /\ Grows(arrays, as) /\ as \in Seq(Seq(Words)) /\ w \in Slice /\ Full(as, w)
      /\ Clone(h).maps = Append(maps, m) /\ m \in Setting /\ l \in {1, None}
      /\ Clone(h).db \in Handle /\ x \in BOOLEAN
      /\ Clone(h).db = [where |-> w, limit |-> l, values |-> Len(dbs) + 1, tx |-> x]
      /\ ChainIn(arrays, maps, dbs[h])
           = [where |-> Read(as, w), limit |-> l, clause |-> m.clause]
  BY CloneFacts
<1> DEFINE bs == Appended(as, w, c).arrays
           to == Appended(as, w, c).slice
           db == [Clone(h).db EXCEPT !.where = to]
           y  == [where |-> Read(bs, to), limit |-> l, clause |-> m.clause]
<1>3. Makes(bs, Append(maps, m), db) BY <1>1, <1>2
<1>4. m.started = maps[h].started OBVIOUS
<1> HIDE DEF as, w, l, x, m
<1>5. /\ Grows(as, bs) /\ to \in Slice /\ Holds(bs, to)
      /\ Read(bs, to) = Append(Read(as, w), c)
  BY <1>2, AppendedIs
<1> HIDE DEF bs, to
<1>6. Grows(arrays, bs)
  <2>1. arrays \in Seq(Seq(Words)) BY DEF MemoryOK
  <2> QED BY <1>2, <1>5, <2>1, GrowsOn
<1>7. db = [where |-> to, limit |-> l, values |-> Len(dbs) + 1, tx |-> x]
  <2>1. db = [where |-> to, limit |-> Clone(h).db.limit, values |-> Clone(h).db.values,
              tx |-> Clone(h).db.tx]
    BY <1>2, HandleField
  <2> QED BY <1>2, <2>1
<1>8. y \in Chains!Chained(ChainIn(arrays, maps, dbs[h])) BY <1>2, <1>5, ChainedIs
<1> HIDE DEF db
<1>9. Derived(h) BY <1>2, <1>3, <1>4, <1>5, <1>6, <1>7, <1>8, MadeDerives
<1> QED BY <1>1, <1>9

LEMMA LimitDerives ==
  ASSUME MemoryOK, NEW h \in 1 .. Len(dbs), Limit(h)
  PROVE  Derived(h) /\ UNCHANGED scopes
<1> DEFINE as == Clone(h).arrays
           w  == Clone(h).db.where
           l  == dbs[h].limit
           x  == dbs[h].tx
           m  == maps[h]
           db == [Clone(h).db EXCEPT !.limit = 1]
           y  == [where |-> Read(as, w), limit |-> 1, clause |-> m.clause]
<1>1. Makes(as, Clone(h).maps, db) /\ UNCHANGED scopes BY DEF Limit
<1>2. /\ Grows(arrays, as) /\ w \in Slice /\ Holds(as, w)
      /\ Clone(h).maps = Append(maps, m) /\ m \in Setting
      /\ Clone(h).db \in Handle /\ x \in BOOLEAN
      /\ Clone(h).db = [where |-> w, limit |-> l, values |-> Len(dbs) + 1, tx |-> x]
      /\ ChainIn(arrays, maps, dbs[h])
           = [where |-> Read(as, w), limit |-> l, clause |-> m.clause]
  BY CloneFacts
<1>3. Makes(as, Append(maps, m), db) BY <1>1, <1>2
<1>4. m.started = maps[h].started OBVIOUS
<1> HIDE DEF as, w, l, x, m
<1>5. db = [where |-> w, limit |-> 1, values |-> Len(dbs) + 1, tx |-> x]
  <2>1. db = [where |-> Clone(h).db.where, limit |-> 1, values |-> Clone(h).db.values,
              tx |-> Clone(h).db.tx]
    BY <1>2, HandleField
  <2> QED BY <1>2, <2>1
<1>6. y \in Chains!Chained(ChainIn(arrays, maps, dbs[h])) BY <1>2, ChainedIs
<1>7. 1 \in {1, None} OBVIOUS
<1> HIDE DEF db
<1>8. Derived(h) BY <1>2, <1>3, <1>4, <1>5, <1>6, <1>7, MadeDerives
<1> QED BY <1>1, <1>8

LEMMA BeginDerives ==
  ASSUME MemoryOK, NEW h \in 1 .. Len(dbs), Begin(h)
  PROVE  Derived(h) /\ UNCHANGED scopes
<1> DEFINE as == Clone(h).arrays
           w  == Clone(h).db.where
           l  == dbs[h].limit
           x  == dbs[h].tx
           m  == maps[h]
           db == [Clone(h).db EXCEPT !.tx = TRUE]
           y  == [where |-> Read(as, w), limit |-> l, clause |-> m.clause]
<1>1. Makes(as, Clone(h).maps, db) /\ UNCHANGED scopes BY DEF Begin
<1>2. /\ Grows(arrays, as) /\ w \in Slice /\ Holds(as, w)
      /\ Clone(h).maps = Append(maps, m) /\ m \in Setting
      /\ Clone(h).db \in Handle /\ l \in {1, None}
      /\ Clone(h).db = [where |-> w, limit |-> l, values |-> Len(dbs) + 1, tx |-> x]
      /\ ChainIn(arrays, maps, dbs[h])
           = [where |-> Read(as, w), limit |-> l, clause |-> m.clause]
  BY CloneFacts
<1>3. Makes(as, Append(maps, m), db) BY <1>1, <1>2
<1>4. m.started = maps[h].started OBVIOUS
<1> HIDE DEF as, w, l, x, m
<1>5. db = [where |-> w, limit |-> l, values |-> Len(dbs) + 1, tx |-> TRUE]
  <2>1. db = [where |-> Clone(h).db.where, limit |-> Clone(h).db.limit,
              values |-> Clone(h).db.values, tx |-> TRUE]
    BY <1>2, HandleField
  <2> QED BY <1>2, <2>1
<1>6. y \in Chains!Chained(ChainIn(arrays, maps, dbs[h])) BY <1>2, ChainedIs
<1>7. TRUE \in BOOLEAN OBVIOUS
<1> HIDE DEF db
<1>8. Derived(h) BY <1>2, <1>3, <1>4, <1>5, <1>6, <1>7, MadeDerives
<1> QED BY <1>1, <1>8

\* No search: a slice without elements, wherever it lies.
LEMMA NoSearch ==
  ASSUME NEW r \in Handle, NEW as \in Seq(Seq(Words)), Holds(as, r.where)
  PROVE  LET none == [array |-> r.where.array, len |-> 0] IN
         /\ [r EXCEPT !.where.len = 0, !.limit = None]
              = [where |-> none, limit |-> None, values |-> r.values, tx |-> r.tx]
         /\ none \in Slice /\ Holds(as, none) /\ Read(as, none) = <<>>
<1> DEFINE v == r.where
           none == [array |-> v.array, len |-> 0]
<1>1. v \in Slice BY DEF Handle
<1>2. [v EXCEPT !.len = 0] = none BY <1>1 DEF Slice
<1>3. [r EXCEPT !.where.len = 0] = [r EXCEPT !.where = [v EXCEPT !.len = 0]] BY DEF Handle
<1>4. [r EXCEPT !.where.len = 0, !.limit = None]
        = [[r EXCEPT !.where.len = 0] EXCEPT !.limit = None]
  OBVIOUS
<1>5. [r EXCEPT !.where = none, !.limit = None]
        = [[r EXCEPT !.where = none] EXCEPT !.limit = None]
  OBVIOUS
<1>6. none \in Slice BY <1>1 DEF Slice
<1>7. Holds(as, none) /\ Read(as, none) = <<>>
  <2>1. v.array \in 1 .. Len(as) BY DEF Holds
  <2>2. as[v.array] \in Seq(Words) BY <2>1, ElementOfSeq
  <2>3. Len(as[v.array]) \in Nat BY <2>2, LenProperties
  <2>4. 0 <= Len(as[v.array]) BY <2>3, OneMore
  <2>5. SubSeq(as[v.array], 1, 0) = <<>> BY SubSeqEmpty
  <2> QED BY <2>1, <2>4, <2>5 DEF Holds, Read
<1> HIDE DEF none, v
<1>8. [r EXCEPT !.where = none, !.limit = None]
        = [where |-> none, limit |-> None, values |-> r.values, tx |-> r.tx]
  BY WhereAndLimit
<1>9. [r EXCEPT !.where.len = 0, !.limit = None] = [r EXCEPT !.where = none, !.limit = None]
  BY <1>2, <1>3, <1>4, <1>5
<1> QED BY <1>6, <1>7, <1>8, <1>9 DEF none, v

LEMMA NewDerives ==
  ASSUME MemoryOK, NEW h \in 1 .. Len(dbs), New(h)
  PROVE  Derived(h) /\ UNCHANGED scopes
<1> DEFINE as == Clone(h).arrays
           w  == Clone(h).db.where
           l  == dbs[h].limit
           x  == dbs[h].tx
           m  == maps[h]
           db == [Clone(h).db EXCEPT !.where.len = 0, !.limit = None]
           to == [array |-> w.array, len |-> 0]
           y  == [where |-> Read(as, to), limit |-> None, clause |-> m.clause]
<1>1. Makes(as, Clone(h).maps, db) /\ UNCHANGED scopes BY DEF New
<1>2. /\ Grows(arrays, as) /\ as \in Seq(Seq(Words)) /\ Holds(as, w)
      /\ Clone(h).maps = Append(maps, m) /\ m \in Setting
      /\ Clone(h).db \in Handle /\ x \in BOOLEAN
      /\ Clone(h).db = [where |-> w, limit |-> l, values |-> Len(dbs) + 1, tx |-> x]
      /\ ChainIn(arrays, maps, dbs[h])
           = [where |-> Read(as, w), limit |-> l, clause |-> m.clause]
  BY CloneFacts
<1>3. Makes(as, Append(maps, m), db) BY <1>1, <1>2
<1>4. m.started = maps[h].started OBVIOUS
<1>5. /\ db = [where |-> to, limit |-> None, values |-> Clone(h).db.values,
               tx |-> Clone(h).db.tx]
      /\ to \in Slice /\ Holds(as, to) /\ Read(as, to) = <<>>
  BY <1>2, NoSearch
<1> HIDE DEF as, w, l, x, m, db, to
<1>6. db = [where |-> to, limit |-> None, values |-> Len(dbs) + 1, tx |-> x]
  BY <1>2, <1>5
<1>7. y \in Chains!Chained(ChainIn(arrays, maps, dbs[h])) BY <1>2, <1>5, ChainedIs
<1>8. None \in {1, None} OBVIOUS
<1>9. Derived(h) BY <1>2, <1>3, <1>4, <1>5, <1>6, <1>7, <1>8, MadeDerives
<1> QED BY <1>1, <1>9

\* A setting of the map that was added last.
LEMMA SetsLast ==
  ASSUME MemoryOK, NEW m \in Setting, NEW v \in Clauses
  PROVE  LET n == [clause |-> v, started |-> m.started] IN
         /\ [Append(maps, m) EXCEPT ![Len(dbs) + 1].clause = v] = Append(maps, n)
         /\ n \in Setting
<1> DEFINE n  == [clause |-> v, started |-> m.started]
           ms == Append(maps, m)
           ns == Append(maps, n)
           at == Len(dbs) + 1
<1>1. n \in Setting BY DEF Setting
<1>2. [m EXCEPT !.clause = v] = n BY DEF Setting
<1>3. /\ ms \in Seq(Setting) /\ Len(ms) = at
      /\ \A h \in 1 .. Len(dbs) : ms[h] = maps[h]
      /\ ms[at] = m
  BY MapAdded
<1> HIDE DEF n
<1>4. /\ ns \in Seq(Setting) /\ Len(ns) = at
      /\ \A h \in 1 .. Len(dbs) : ns[h] = maps[h]
      /\ ns[at] = n
  BY <1>1, MapAdded
<1>5. Len(dbs) \in Nat BY Domains
<1>6. at \in 1 .. at BY <1>5, OneMore
<1> HIDE DEF ms, ns
<1>7. [ms EXCEPT ![at].clause = v] = [ms EXCEPT ![at] = n] BY <1>2, <1>3
<1> DEFINE es == [ms EXCEPT ![at] = n]
<1>8. /\ es \in Seq(Setting) /\ Len(es) = at
      /\ \A h \in 1 .. at : es[h] = IF h = at THEN n ELSE ms[h]
  BY <1>1, <1>3, <1>6, ExceptSeq
<1> HIDE DEF es
<1>9. ASSUME NEW h \in 1 .. at PROVE es[h] = ns[h]
  <2>1. CASE h = at BY <1>4, <1>8, <2>1
  <2>2. CASE h # at
    <3>1. h \in 1 .. Len(dbs) BY <1>5, <2>2, LastOrBefore
    <3> QED BY <1>3, <1>4, <1>8, <2>2, <3>1
  <2> QED BY <2>1, <2>2
<1>10. es = ns BY <1>4, <1>8, <1>9, SeqEqual
<1> QED BY <1>1, <1>7, <1>10 DEF es, ms, ns, n

LEMMA SetDerives ==
  ASSUME MemoryOK, NEW h \in 1 .. Len(dbs), Set(h)
  PROVE  Derived(h) /\ UNCHANGED scopes
<1> DEFINE as == Clone(h).arrays
           w  == Clone(h).db.where
           l  == dbs[h].limit
           x  == dbs[h].tx
<1>1. PICK v \in Clauses :
        /\ Makes(as, [Clone(h).maps EXCEPT ![Clone(h).db.values].clause = v], Clone(h).db)
        /\ UNCHANGED scopes
  BY DEF Set
<1> DEFINE m == [clause |-> v, started |-> maps[h].started]
           db == Clone(h).db
           y  == [where |-> Read(as, w), limit |-> l, clause |-> m.clause]
<1>2. /\ Grows(arrays, as) /\ w \in Slice /\ Holds(as, w)
      /\ Clone(h).maps = Append(maps, maps[h]) /\ maps[h] \in Setting
      /\ x \in BOOLEAN /\ l \in {1, None}
      /\ db = [where |-> w, limit |-> l, values |-> Len(dbs) + 1, tx |-> x]
      /\ ChainIn(arrays, maps, dbs[h])
           = [where |-> Read(as, w), limit |-> l, clause |-> maps[h].clause]
  BY CloneFacts
<1>3. /\ [Append(maps, maps[h]) EXCEPT ![Len(dbs) + 1].clause = v] = Append(maps, m)
      /\ m \in Setting
  BY <1>2, SetsLast
<1>4. db.values = Len(dbs) + 1 BY <1>2
<1>5. Makes(as, Append(maps, m), db) BY <1>1, <1>2, <1>3, <1>4
<1>6. m.started = maps[h].started /\ m.clause = v OBVIOUS
<1> HIDE DEF as, w, l, x, m, db
<1>7. y \in Chains!Chained(ChainIn(arrays, maps, dbs[h])) BY <1>2, <1>6, ChainedIs
<1>8. Derived(h) BY <1>2, <1>3, <1>5, <1>6, <1>7, MadeDerives
<1> QED BY <1>1, <1>8

-----------------------------------------------------------------------------
(* Statements.                                                             *)

Owns == {<<>>} \cup {<<c>> : c \in Conds}

LEMMA GrowsSelf ==
  ASSUME NEW as \in Seq(Seq(Words))
  PROVE  Grows(as, as)
<1>1. Len(as) \in Nat BY LenProperties
<1>2. Len(as) <= Len(as) BY <1>1, Itself
<1> QED BY <1>2 DEF Grows

\* A statement's own condition goes to an array of the statement.
LEMMA OwnCondition ==
  ASSUME NEW as \in Seq(Seq(Words)), NEW slice \in Slice, Full(as, slice), NEW own \in Owns,
         NEW a, a = IF own = <<>> THEN [arrays |-> as, slice |-> slice]
                                  ELSE Appended(as, slice, own[1])
  PROVE  /\ Grows(as, a.arrays) /\ a.slice \in Slice /\ Holds(a.arrays, a.slice)
         /\ Read(a.arrays, a.slice) = Read(as, slice) \o own
<1>1. Holds(as, slice) /\ Read(as, slice) = as[slice.array] BY FullHolds
<1>2. as[slice.array] \in Seq(Words) BY ElementOfSeq DEF Full
<1>3. CASE own = <<>>
  <2>1. a.arrays = as /\ a.slice = slice BY <1>3
  <2>2. Read(as, slice) \o <<>> = Read(as, slice) BY <1>1, <1>2, ConcatEmptySeq
  <2> QED BY <1>1, <1>3, <2>1, <2>2, GrowsSelf
<1>4. CASE own # <<>>
  <2>1. PICK c \in Conds : own = <<c>> BY <1>4 DEF Owns
  <2>2. own[1] = c BY <2>1
  <2>3. a = Appended(as, slice, c) BY <1>4, <2>2
  <2>4. /\ Grows(as, a.arrays) /\ a.slice \in Slice /\ Holds(a.arrays, a.slice)
        /\ Read(a.arrays, a.slice) = Append(Read(as, slice), c)
    <3>1. ASSUME NEW b, b = Appended(as, slice, c)
          PROVE  /\ Grows(as, b.arrays) /\ b.slice \in Slice /\ Holds(b.arrays, b.slice)
                 /\ Read(b.arrays, b.slice) = Append(Read(as, slice), c)
      BY <3>1, AppendedIs
    <3> QED BY <2>3, <3>1
  <2>5. Append(Read(as, slice), c) = Read(as, slice) \o <<c>>
    <3>1. c \in Words BY DEF Words
    <3> QED BY <1>1, <1>2, <3>1, AppendIsConcat
  <2> QED BY <2>1, <2>4, <2>5
<1> QED BY <1>3, <1>4

\* A statement begun on a clone of h, with a search of its own.
Begun(h, as, ms, db, s) ==
  /\ Made(as, ms, db)
  /\ ms[Len(dbs) + 1] = maps[h]
  /\ s \in Statement /\ s.db = Len(dbs) + 1 /\ Holds(as, s.where)
  /\ scopes' = Append(scopes, s)
  /\ ~s.began /\ ~s.ended /\ (s.addr \in maps[h].started => s.reused)
  /\ LET x == ChainIn(arrays, maps, dbs[h]) IN
       ChainIn(as, ms, db) \in {x, Chains!Bare(x)}
  /\ s.limit \in {1, db.limit}
  /\ \E own \in Owns : Read(as, s.where) = Read(as, db.where) \o own

\* The handle of the statement: the clone, without search when inside another.
LEMMA StartHandle ==
  ASSUME MemoryOK, NEW h \in 1 .. Len(dbs), NEW within, NEW db,
         db = IF within = 0 THEN Clone(h).db
              ELSE [Clone(h).db EXCEPT !.where.len = 0, !.limit = None]
  PROVE  LET as == Clone(h).arrays
             x  == ChainIn(arrays, maps, dbs[h])
         IN /\ db.where \in Slice /\ Holds(as, db.where) /\ db.limit \in {1, None}
            /\ db \in Handle /\ db.values = Len(dbs) + 1
            /\ [where |-> Read(as, db.where), limit |-> db.limit, clause |-> maps[h].clause]
                 \in {x, Chains!Bare(x)}
<1> DEFINE as == Clone(h).arrays
           x  == ChainIn(arrays, maps, dbs[h])
           w  == Clone(h).db.where
           to == [array |-> w.array, len |-> 0]
<1>1. /\ as \in Seq(Seq(Words)) /\ Holds(as, w) /\ w \in Slice
      /\ Clone(h).db \in Handle /\ dbs[h].limit \in {1, None} /\ dbs[h].tx \in BOOLEAN
      /\ Clone(h).db = [where |-> w, limit |-> dbs[h].limit, values |-> Len(dbs) + 1,
                        tx |-> dbs[h].tx]
      /\ x = [where |-> Read(as, w), limit |-> dbs[h].limit, clause |-> maps[h].clause]
  BY CloneFacts
<1>2. /\ [Clone(h).db EXCEPT !.where.len = 0, !.limit = None]
           = [where |-> to, limit |-> None, values |-> Clone(h).db.values,
              tx |-> Clone(h).db.tx]
      /\ to \in Slice /\ Holds(as, to) /\ Read(as, to) = <<>>
  BY <1>1, NoSearch
<1>3. /\ Clone(h).db.values = Len(dbs) + 1 /\ Clone(h).db.tx = dbs[h].tx
      /\ Clone(h).db.limit = dbs[h].limit
  BY <1>1
<1>4. Len(dbs) + 1 \in Nat BY Domains, OneMore
<1> HIDE DEF as, x, w, to
<1>5. CASE within = 0
  <2>1. db = Clone(h).db BY <1>5
  <2>2. db.where = w BY <2>1 DEF w
  <2> QED BY <1>1, <1>3, <2>1, <2>2 DEF as, x
<1>6. CASE within # 0
  <2>1. db = [where |-> to, limit |-> None, values |-> Len(dbs) + 1, tx |-> dbs[h].tx]
    BY <1>2, <1>3, <1>6
  <2>2. /\ db.where = to /\ db.limit = None /\ db.values = Len(dbs) + 1
        /\ db \in Handle
    <3>1. dbs[h].tx \in BOOLEAN BY <1>1
    <3>2. to \in Slice /\ None \in {1, None} BY <1>2
    <3> DEFINE n == Len(dbs) + 1
               y == dbs[h].tx
               d == [where |-> to, limit |-> None, values |-> n, tx |-> y]
    <3>3. n \in Nat /\ y \in BOOLEAN BY <1>4, <3>1
    <3>4. db = d BY <2>1
    <3> HIDE DEF n, y
    <3>5. d \in Handle /\ d.where = to /\ d.limit = None /\ d.values = n
      BY ONLY <3>2, <3>3, HandleRecord
    <3> HIDE DEF d
    <3> QED BY <3>4, <3>5 DEF n
  <2>3. Chains!Bare(x) = [where |-> <<>>, limit |-> None, clause |-> maps[h].clause]
    BY <1>1, BareIs
  <2> QED BY <1>2, <2>2, <2>3 DEF as, x
<1> QED BY <1>5, <1>6

LEMMA StatementRecord ==
  ASSUME NEW d \in Nat, NEW w \in Slice, NEW l \in {1, None}, NEW addr \in Addrs,
         NEW within \in Nat, NEW r \in BOOLEAN
  PROVE  LET s == [db |-> d, where |-> w, limit |-> l, addr |-> addr, within |-> within,
                   at |-> "new", began |-> FALSE, ended |-> FALSE, reused |-> r]
         IN /\ s \in Statement /\ s.db = d /\ s.where = w /\ s.limit = l
            /\ s.addr = addr /\ ~s.began /\ ~s.ended /\ s.reused = r
BY DEF Statement

LEMMA StartBegins ==
  ASSUME MemoryOK, NEW h \in 1 .. Len(dbs), NEW within \in Nat, Start(h, within)
  PROVE  \E as, ms, db, s : Begun(h, as, ms, db, s)
<1> DEFINE cs == Clone(h).arrays
           db == IF within = 0 THEN Clone(h).db
                 ELSE [Clone(h).db EXCEPT !.where.len = 0, !.limit = None]
           search == SearchClone(cs, db.where)
           A(own) == IF own = <<>> THEN search ELSE Appended(search.arrays, search.slice, own[1])
           m  == maps[h]
           ms == Append(maps, m)
           d  == Len(dbs) + 1
           L(limit) == IF limit THEN 1 ELSE db.limit
           S(addr, limit, own) ==
             [db |-> d, where |-> A(own).slice, limit |-> L(limit), addr |-> addr,
              within |-> within, at |-> "new", began |-> FALSE, ended |-> FALSE,
              reused |-> addr \in m.started]
<1>1. PICK addr \in Addrs, limit \in BOOLEAN, own \in Owns :
        /\ Makes(A(own).arrays, Clone(h).maps, db)
        /\ scopes' = Append(scopes, S(addr, limit, own))
  <2>1. Settings(h) = m BY HandleIs
  <2> QED BY <2>1, ZenonT(60) DEF Start, Owns
<1> DEFINE a == A(own)
           l == L(limit)
           r == addr \in m.started
           s == S(addr, limit, own)
           x == ChainIn(arrays, maps, dbs[h])
<1>2. /\ Grows(arrays, cs) /\ cs \in Seq(Seq(Words))
      /\ Clone(h).maps = ms /\ m \in Setting
  BY CloneFacts
<1>3. /\ db.where \in Slice /\ Holds(cs, db.where) /\ db.limit \in {1, None}
      /\ db \in Handle /\ db.values = d
      /\ [where |-> Read(cs, db.where), limit |-> db.limit, clause |-> m.clause]
           \in {x, Chains!Bare(x)}
  <2> DEFINE e == db
  <2>1. e = IF within = 0 THEN Clone(h).db
            ELSE [Clone(h).db EXCEPT !.where.len = 0, !.limit = None]
    OBVIOUS
  <2> HIDE DEF e
  <2>2. /\ e.where \in Slice /\ Holds(cs, e.where) /\ e.limit \in {1, None}
        /\ e \in Handle /\ e.values = d
        /\ [where |-> Read(cs, e.where), limit |-> e.limit, clause |-> m.clause]
             \in {x, Chains!Bare(x)}
    BY <2>1, StartHandle
  <2> QED BY <2>2 DEF e
<1> HIDE DEF db
<1>4. /\ Grows(cs, search.arrays) /\ search.slice \in Slice
      /\ Full(search.arrays, search.slice)
      /\ Read(search.arrays, search.slice) = Read(cs, db.where)
  BY <1>2, <1>3, SearchCloneIs
<1>5. search = [arrays |-> search.arrays, slice |-> search.slice] BY DEF SearchClone
<1>6. a = IF own = <<>> THEN search ELSE Appended(search.arrays, search.slice, own[1]) OBVIOUS
<1> HIDE DEF cs, search, A
<1>7. search.arrays \in Seq(Seq(Words)) BY <1>4 DEF Grows
<1>8. /\ Grows(search.arrays, a.arrays) /\ a.slice \in Slice /\ Holds(a.arrays, a.slice)
      /\ Read(a.arrays, a.slice) = Read(search.arrays, search.slice) \o own
  BY <1>4, <1>5, <1>6, <1>7, OwnCondition
<1> HIDE DEF a
<1>9. Grows(cs, a.arrays) BY <1>2, <1>4, <1>8, GrowsOn
<1>10. Grows(arrays, a.arrays)
  <2>1. arrays \in Seq(Seq(Words)) BY DEF MemoryOK
  <2> QED BY <1>2, <1>9, <2>1, GrowsOn
<1>11. Holds(a.arrays, db.where) /\ Read(a.arrays, db.where) = Read(cs, db.where)
  BY <1>2, <1>3, <1>9, ReadKept
<1>12. /\ ms \in Seq(Setting) /\ Len(ms) = d
       /\ \A i \in 1 .. Len(dbs) : ms[i] = maps[i]
       /\ ms[d] = m
  BY <1>2, MapAdded
<1>13. Made(a.arrays, ms, db)
  <2>1. Makes(a.arrays, ms, db) BY <1>1, <1>2 DEF a
  <2> QED BY <1>3, <1>10, <1>11, <1>12, <2>1 DEF Made
<1>14. ChainIn(a.arrays, ms, db) \in {x, Chains!Bare(x)}
  <2>1. ChainIn(a.arrays, ms, db)
          = [where |-> Read(cs, db.where), limit |-> db.limit, clause |-> m.clause]
    BY <1>3, <1>11, <1>12 DEF ChainIn
  <2> QED BY <1>3, <2>1
<1>15. l \in {1, None} /\ l \in {1, db.limit} BY <1>3
<1>16. d \in Nat /\ r \in BOOLEAN BY Domains, OneMore
<1>17. s = [db |-> d, where |-> a.slice, limit |-> l, addr |-> addr, within |-> within,
            at |-> "new", began |-> FALSE, ended |-> FALSE, reused |-> r]
  BY DEF a
<1>18. scopes' = Append(scopes, s) BY <1>1
<1> HIDE DEF l, r, d, s, S, L
<1>19. /\ s \in Statement /\ s.db = d /\ s.where = a.slice /\ s.limit = l
       /\ s.addr = addr /\ ~s.began /\ ~s.ended /\ s.reused = r
  BY <1>8, <1>15, <1>16, <1>17, StatementRecord
<1>20. s.addr \in m.started => s.reused BY <1>19 DEF r
<1>21. Read(a.arrays, s.where) = Read(a.arrays, db.where) \o own
  BY <1>4, <1>8, <1>11, <1>19
<1> HIDE DEF x, ms
<1>22. Begun(h, a.arrays, ms, db, s)
  BY <1>8, <1>12, <1>13, <1>14, <1>15, <1>18, <1>19, <1>20, <1>21 DEF Begun, d, m, x
<1> QED BY <1>22

-----------------------------------------------------------------------------
(* Steps that make no handle: they leave what is read of one as it was.     *)

SameStatement(s, t) ==
  t.db = s.db /\ t.where = s.where /\ t.limit = s.limit /\ t.addr = s.addr /\ t.reused = s.reused

Quiet ==
  /\ arrays' = arrays
  /\ maps' \in Seq(Setting) /\ Len(maps') = Len(maps)
  /\ \A h \in 1 .. Len(dbs) : maps'[h].clause = maps[h].clause
  /\ dbs' \in Seq(Handle) /\ Len(dbs') = Len(dbs)
  /\ \A h \in 1 .. Len(dbs) : /\ dbs'[h].where = dbs[h].where
                              /\ dbs'[h].limit = dbs[h].limit
                              /\ dbs'[h].values = dbs[h].values
  /\ scopes' \in Seq(Statement) /\ Len(scopes') = Len(scopes)
  /\ \A j \in 1 .. Len(scopes) : SameStatement(scopes[j], scopes'[j])

LEMMA QuietKeeps ==
  ASSUME MemoryOK, OwnHandles, Quiet
  PROVE  MemoryOK' /\ OwnHandles'
<1>1. MemoryOK' BY DEF MemoryOK, Quiet, SameStatement
<1>2. OwnHandles' BY DEF OwnHandles, Quiet, SameStatement
<1> QED BY <1>1, <1>2

\* A field of a statement, of a handle or of a map, set.
LEMMA AtField ==
  ASSUME NEW s \in Statement, NEW a \in {"new", "begun", "done"}
  PROVE  /\ [s EXCEPT !.at = a] \in Statement /\ SameStatement(s, [s EXCEPT !.at = a])
         /\ [s EXCEPT !.at = a].began = s.began /\ [s EXCEPT !.at = a].ended = s.ended
         /\ [s EXCEPT !.at = a].at = a
BY DEF Statement, SameStatement

LEMMA BeganField ==
  ASSUME NEW s \in Statement, NEW b \in BOOLEAN
  PROVE  /\ [s EXCEPT !.began = b] \in Statement /\ SameStatement(s, [s EXCEPT !.began = b])
         /\ [s EXCEPT !.began = b].began = b /\ [s EXCEPT !.began = b].ended = s.ended
         /\ [s EXCEPT !.began = b].at = s.at
BY DEF Statement, SameStatement

LEMMA EndedField ==
  ASSUME NEW s \in Statement, NEW b \in BOOLEAN
  PROVE  /\ [s EXCEPT !.ended = b] \in Statement /\ SameStatement(s, [s EXCEPT !.ended = b])
         /\ [s EXCEPT !.ended = b].began = s.began /\ [s EXCEPT !.ended = b].ended = b
         /\ [s EXCEPT !.ended = b].at = s.at
BY DEF Statement, SameStatement

\* One statement set to another that reads as it did.
LEMMA StatementSet ==
  ASSUME MemoryOK, NEW i \in 1 .. Len(scopes), NEW t \in Statement,
         SameStatement(scopes[i], t), scopes' = [scopes EXCEPT ![i] = t]
  PROVE  /\ scopes' \in Seq(Statement) /\ Len(scopes') = Len(scopes)
         /\ \A j \in 1 .. Len(scopes) : SameStatement(scopes[j], scopes'[j])
         /\ scopes'[i] = t
         /\ \A j \in 1 .. Len(scopes) : j # i => scopes'[j] = scopes[j]
<1>1. scopes \in Seq(Statement) BY DEF MemoryOK
<1>2. /\ scopes' \in Seq(Statement) /\ Len(scopes') = Len(scopes)
      /\ \A j \in 1 .. Len(scopes) : scopes'[j] = IF j = i THEN t ELSE scopes[j]
  BY <1>1, ExceptSeq
<1>3. ASSUME NEW j \in 1 .. Len(scopes) PROVE SameStatement(scopes[j], scopes'[j])
  <2>1. CASE j = i BY <1>2, <2>1
  <2>2. CASE j # i
    <3>1. scopes'[j] = scopes[j] BY <1>2, <2>2
    <3> QED BY <3>1 DEF SameStatement
  <2> QED BY <2>1, <2>2
<1> QED BY <1>2, <1>3

\* A statement that has gone on is not fresh.
LEMMA FreshKept ==
  ASSUME Fresh, NEW i \in 1 .. Len(scopes), NEW t, t.at # "new",
         Len(scopes') = Len(scopes), scopes'[i] = t,
         \A j \in 1 .. Len(scopes) : j # i => scopes'[j] = scopes[j]
  PROVE  Fresh'
BY DEF Fresh

\* A handle put into a transaction, or taken out of it.
LEMMA TxSet ==
  ASSUME MemoryOK, NEW h \in 1 .. Len(dbs), NEW b \in BOOLEAN,
         dbs' = [dbs EXCEPT ![h].tx = b]
  PROVE  /\ dbs' \in Seq(Handle) /\ Len(dbs') = Len(dbs)
         /\ \A g \in 1 .. Len(dbs) : /\ dbs'[g].where = dbs[g].where
                                     /\ dbs'[g].limit = dbs[g].limit
                                     /\ dbs'[g].values = dbs[g].values
<1> DEFINE d == [dbs[h] EXCEPT !.tx = b]
<1>1. dbs \in Seq(Handle) BY DEF MemoryOK
<1>2. dbs[h] \in Handle BY <1>1, ElementOfSeq
<1>3. /\ d \in Handle /\ d.where = dbs[h].where /\ d.limit = dbs[h].limit
      /\ d.values = dbs[h].values
  BY <1>2 DEF Handle
<1>4. dbs' = [dbs EXCEPT ![h] = d] OBVIOUS
<1> HIDE DEF d
<1>5. /\ dbs' \in Seq(Handle) /\ Len(dbs') = Len(dbs)
      /\ \A g \in 1 .. Len(dbs) : dbs'[g] = IF g = h THEN d ELSE dbs[g]
  BY <1>1, <1>3, <1>4, ExceptSeq
<1> QED BY <1>3, <1>5

\* A map set to another with the same value of the setting.
LEMMA MapSet ==
  ASSUME MemoryOK, NEW h \in 1 .. Len(dbs), NEW m \in Setting, maps' = [maps EXCEPT ![h] = m]
  PROVE  /\ maps' \in Seq(Setting) /\ Len(maps') = Len(maps)
         /\ maps'[h] = m
         /\ \A g \in 1 .. Len(dbs) : g # h => maps'[g] = maps[g]
<1>1. maps \in Seq(Setting) /\ Len(maps) = Len(dbs) BY DEF MemoryOK
<1>2. h \in 1 .. Len(maps) BY <1>1
<1>3. /\ maps' \in Seq(Setting) /\ Len(maps') = Len(maps)
      /\ \A g \in 1 .. Len(maps) : maps'[g] = IF g = h THEN m ELSE maps[g]
  BY <1>1, <1>2, ExceptSeq
<1> QED BY <1>1, <1>3

LEMMA QueryQuiet ==
  ASSUME Inv, NEW i \in 1 .. Len(scopes), Query(i)
  PROVE  Quiet /\ OwnFlags' /\ Fresh' /\ FlagIsOwn'
<1> DEFINE t == [scopes[i] EXCEPT !.at = "done"]
<1>1. MemoryOK /\ OwnFlags /\ Fresh /\ FlagIsOwn BY DEF Inv
<1>2. /\ scopes' = [scopes EXCEPT ![i] = t]
      /\ arrays' = arrays /\ maps' = maps /\ dbs' = dbs
  BY DEF Query
<1>3. /\ t \in Statement /\ SameStatement(scopes[i], t)
      /\ t.began = scopes[i].began /\ t.ended = scopes[i].ended /\ t.at = "done"
  BY <1>1, StatementIs, AtField
<1> HIDE DEF t
<1>4. /\ scopes' \in Seq(Statement) /\ Len(scopes') = Len(scopes)
      /\ \A j \in 1 .. Len(scopes) : SameStatement(scopes[j], scopes'[j])
      /\ scopes'[i] = t
      /\ \A j \in 1 .. Len(scopes) : j # i => scopes'[j] = scopes[j]
  BY <1>1, <1>2, <1>3, StatementSet
<1>5. Quiet BY <1>1, <1>2, <1>4 DEF Quiet, MemoryOK
<1>6. OwnFlags' BY <1>1, <1>2, <1>3, <1>4 DEF OwnFlags, SameStatement
<1>7. FlagIsOwn'
  <2>1. DOMAIN scopes = 1 .. Len(scopes) /\ DOMAIN scopes' = 1 .. Len(scopes)
    BY <1>1, <1>4, Domains, LenProperties
  <2> QED BY <1>1, <1>3, <1>4, <2>1 DEF FlagIsOwn, SameStatement
<1>8. Fresh' BY <1>1, <1>3, <1>4, FreshKept
<1> QED BY <1>5, <1>6, <1>7, <1>8

\* A statement ends its transaction when the flag at its address is in its settings.
LEMMA CommitOrRollbackQuiet ==
  ASSUME Inv, NEW i \in 1 .. Len(scopes), CommitOrRollback(i)
  PROVE  Quiet /\ OwnFlags' /\ Fresh' /\ FlagIsOwn'
<1> DEFINE f == HasStarted(i)
           u == [scopes[i] EXCEPT !.at = "done"]
           t == [u EXCEPT !.ended = f]
           p == [scopes EXCEPT ![i].at = "done"]
<1>1. MemoryOK /\ OwnFlags /\ Fresh /\ FlagIsOwn BY DEF Inv
<1>2. /\ scopes' = [scopes EXCEPT ![i].at = "done", ![i].ended = f]
      /\ dbs' = IF f THEN [dbs EXCEPT ![scopes[i].db].tx = FALSE] ELSE dbs
      /\ arrays' = arrays /\ maps' = maps
  BY DEF CommitOrRollback
<1>3. f \in BOOLEAN BY DEF HasStarted
<1>4. scopes[i] \in Statement /\ scopes[i].db \in 1 .. Len(dbs) BY <1>1, StatementIs
<1>5. f => scopes[i].began \/ scopes[i].reused
  <2>1. Settings(scopes[i].db) = maps[scopes[i].db] BY <1>1, <1>4, HandleIs
  <2> QED BY <1>1, <2>1 DEF HasStarted, OwnFlags
<1> HIDE DEF f
<1>6. /\ u \in Statement /\ SameStatement(scopes[i], u)
      /\ u.began = scopes[i].began /\ u.at = "done"
  BY <1>4, AtField
<1>7. scopes \in Seq(Statement) /\ i \in DOMAIN scopes BY <1>1, Domains DEF MemoryOK
<1>8. scopes' = [scopes EXCEPT ![i] = t]
  <2>1. scopes' = [p EXCEPT ![i].ended = f] BY <1>2
  <2>2. p = [scopes EXCEPT ![i] = u] OBVIOUS
  <2>3. p[i] = u BY <1>1, <1>6, <1>7, <2>2, ExceptSeq
  <2>4. [p EXCEPT ![i].ended = f] = [p EXCEPT ![i] = t] BY <2>3
  <2> HIDE DEF u, t, p
  <2>5. [[scopes EXCEPT ![i] = u] EXCEPT ![i] = t] = [scopes EXCEPT ![i] = t] BY <1>7
  <2> QED BY <2>1, <2>2, <2>4, <2>5
<1> HIDE DEF u, p
<1>9. /\ t \in Statement /\ SameStatement(u, t) /\ t.began = u.began /\ t.ended = f
      /\ t.at = u.at
  BY <1>3, <1>6, EndedField
<1> HIDE DEF t
<1>10. SameStatement(scopes[i], t) BY <1>6, <1>9 DEF SameStatement
<1>11. /\ scopes' \in Seq(Statement) /\ Len(scopes') = Len(scopes)
       /\ \A j \in 1 .. Len(scopes) : SameStatement(scopes[j], scopes'[j])
       /\ scopes'[i] = t
       /\ \A j \in 1 .. Len(scopes) : j # i => scopes'[j] = scopes[j]
  BY <1>1, <1>8, <1>9, <1>10, StatementSet
<1>12. /\ dbs' \in Seq(Handle) /\ Len(dbs') = Len(dbs)
       /\ \A g \in 1 .. Len(dbs) : /\ dbs'[g].where = dbs[g].where
                                   /\ dbs'[g].limit = dbs[g].limit
                                   /\ dbs'[g].values = dbs[g].values
  <2>1. CASE f BY <1>1, <1>2, <1>4, <2>1, TxSet
  <2>2. CASE ~f BY <1>1, <1>2, <2>2 DEF MemoryOK
  <2> QED BY <2>1, <2>2
<1>13. Quiet BY <1>1, <1>2, <1>11, <1>12 DEF Quiet, MemoryOK
<1>14. OwnFlags' BY <1>1, <1>2, <1>6, <1>9, <1>11 DEF OwnFlags, SameStatement
<1>15. FlagIsOwn'
  <2>1. DOMAIN scopes = 1 .. Len(scopes) /\ DOMAIN scopes' = 1 .. Len(scopes)
    BY <1>1, <1>11, Domains, LenProperties
  <2>2. ASSUME NEW j \in 1 .. Len(scopes), scopes'[j].ended
        PROVE  scopes'[j].began \/ scopes'[j].reused
    <3>1. CASE j = i
      <4>1. scopes[i].began \/ scopes[i].reused BY <1>5, <1>9, <1>11, <2>2, <3>1
      <4> QED BY <1>6, <1>9, <1>10, <1>11, <3>1, <4>1 DEF SameStatement
    <3>2. CASE j # i BY <1>1, <1>11, <2>1, <2>2, <3>2 DEF FlagIsOwn
    <3> QED BY <3>1, <3>2
  <2> QED BY <2>1, <2>2 DEF FlagIsOwn
<1>16. Fresh' BY <1>1, <1>6, <1>9, <1>11, FreshKept
<1> QED BY <1>13, <1>14, <1>15, <1>16

\* A statement begins a transaction and says so in its own settings, or does neither.
LEMMA ScopeBeginQuiet ==
  ASSUME Inv, NEW i \in 1 .. Len(scopes), ScopeBegin(i)
  PROVE  Quiet /\ OwnFlags' /\ Fresh' /\ FlagIsOwn'
<1> DEFINE h == scopes[i].db
           b == ~dbs[h].tx
           u == [scopes[i] EXCEPT !.at = "begun"]
           t == [u EXCEPT !.began = b]
           p == [scopes EXCEPT ![i].at = "begun"]
           m == [maps[h] EXCEPT !.started = @ \cup {scopes[i].addr}]
<1>1. MemoryOK /\ OwnHandles /\ OwnFlags /\ Fresh /\ FlagIsOwn BY DEF Inv
<1>2. /\ scopes' = [scopes EXCEPT ![i].at = "begun", ![i].began = b]
      /\ dbs' = [dbs EXCEPT ![h].tx = TRUE]
      /\ maps' = IF ~b THEN maps ELSE [maps EXCEPT ![dbs[h].values].started = @ \cup {scopes[i].addr}]
      /\ arrays' = arrays
  BY DEF ScopeBegin
<1>3. b \in BOOLEAN OBVIOUS
<1>4. scopes[i] \in Statement /\ h \in 1 .. Len(dbs) /\ scopes[i].addr \in Addrs
  BY <1>1, StatementIs
<1>5. dbs[h].values = h /\ maps[h] \in Setting BY <1>1, <1>4, HandleIs
<1>6. m \in Setting /\ m.clause = maps[h].clause BY <1>4, <1>5 DEF Setting
<1>7. scopes \in Seq(Statement) /\ i \in DOMAIN scopes BY <1>1, Domains DEF MemoryOK
<1>8. ~b \/ maps' = [maps EXCEPT ![h] = m] BY <1>2, <1>5
<1>9. b \/ maps' = maps BY <1>2
<1> HIDE DEF m, b
<1>10. /\ u \in Statement /\ SameStatement(scopes[i], u) /\ u.ended = scopes[i].ended
       /\ u.at = "begun"
  BY <1>4, AtField
<1>11. scopes' = [scopes EXCEPT ![i] = t]
  <2>1. scopes' = [p EXCEPT ![i].began = b] BY <1>2
  <2>2. p = [scopes EXCEPT ![i] = u] OBVIOUS
  <2>3. p[i] = u BY <1>1, <1>7, <1>10, <2>2, ExceptSeq
  <2>4. [p EXCEPT ![i].began = b] = [p EXCEPT ![i] = t] BY <2>3
  <2> HIDE DEF u, t, p
  <2>5. [[scopes EXCEPT ![i] = u] EXCEPT ![i] = t] = [scopes EXCEPT ![i] = t] BY <1>7
  <2> QED BY <2>1, <2>2, <2>4, <2>5
<1> HIDE DEF u, p
<1>12. /\ t \in Statement /\ SameStatement(u, t) /\ t.began = b /\ t.ended = u.ended
       /\ t.at = u.at
  BY <1>3, <1>10, BeganField
<1> HIDE DEF t
<1>13. SameStatement(scopes[i], t) BY <1>10, <1>12 DEF SameStatement
<1>14. /\ scopes' \in Seq(Statement) /\ Len(scopes') = Len(scopes)
       /\ \A j \in 1 .. Len(scopes) : SameStatement(scopes[j], scopes'[j])
       /\ scopes'[i] = t
       /\ \A j \in 1 .. Len(scopes) : j # i => scopes'[j] = scopes[j]
  BY <1>1, <1>11, <1>12, <1>13, StatementSet
<1>15. TRUE \in BOOLEAN OBVIOUS
<1>16. /\ dbs' \in Seq(Handle) /\ Len(dbs') = Len(dbs)
       /\ \A g \in 1 .. Len(dbs) : /\ dbs'[g].where = dbs[g].where
                                   /\ dbs'[g].limit = dbs[g].limit
                                   /\ dbs'[g].values = dbs[g].values
  BY <1>1, <1>2, <1>4, <1>15, TxSet
<1>17. /\ maps' \in Seq(Setting) /\ Len(maps') = Len(maps)
       /\ \A g \in 1 .. Len(dbs) : maps'[g].clause = maps[g].clause
       /\ \A g \in 1 .. Len(dbs) : g # h => maps'[g] = maps[g]
       /\ ~b => maps' = maps
  <2>1. CASE b
    <3>1. /\ maps' \in Seq(Setting) /\ Len(maps') = Len(maps) /\ maps'[h] = m
          /\ \A g \in 1 .. Len(dbs) : g # h => maps'[g] = maps[g]
      BY <1>1, <1>4, <1>6, <1>8, <2>1, MapSet
    <3> QED BY <1>6, <2>1, <3>1
  <2>2. CASE ~b BY <1>1, <1>9, <2>2 DEF MemoryOK
  <2> QED BY <2>1, <2>2
<1>18. Quiet BY <1>2, <1>14, <1>16, <1>17 DEF Quiet
<1>19. OwnFlags'
  <2>1. ASSUME NEW j \in 1 .. Len(scopes), scopes'[j].addr \in maps'[scopes'[j].db].started
        PROVE  scopes'[j].began \/ scopes'[j].reused
    <3>1. CASE j = i
      <4>1. CASE b BY <1>12, <1>14, <3>1, <4>1
      <4>2. CASE ~b
        <5>1. scopes'[i].addr = scopes[i].addr /\ scopes'[i].db = scopes[i].db
              /\ scopes'[i].reused = scopes[i].reused
          BY <1>14 DEF SameStatement
        <5>2. scopes[i].began \/ scopes[i].reused
          BY <1>1, <1>17, <2>1, <3>1, <4>2, <5>1 DEF OwnFlags
        <5>3. ~scopes[i].began BY <1>1 DEF ScopeBegin, Fresh
        <5> QED BY <3>1, <5>1, <5>2, <5>3
      <4> QED BY <4>1, <4>2
    <3>2. CASE j # i
      <4>1. scopes'[j] = scopes[j] BY <1>14, <3>2
      <4>2. scopes[j].db \in 1 .. Len(dbs) /\ scopes[j].db # h
        BY <1>1, <3>2, StatementIs DEF OwnHandles
      <4> QED BY <1>1, <1>17, <2>1, <4>1, <4>2 DEF OwnFlags
    <3> QED BY <3>1, <3>2
  <2> QED BY <1>14, <2>1 DEF OwnFlags
<1>20. FlagIsOwn'
  <2>1. DOMAIN scopes = 1 .. Len(scopes) /\ DOMAIN scopes' = 1 .. Len(scopes)
    BY <1>1, <1>14, Domains, LenProperties
  <2>2. ASSUME NEW j \in 1 .. Len(scopes), scopes'[j].ended
        PROVE  scopes'[j].began \/ scopes'[j].reused
    <3>1. CASE j = i
      <4>1. ~scopes[i].ended BY <1>1 DEF ScopeBegin, Fresh
      <4> QED BY <1>10, <1>12, <1>14, <2>2, <3>1, <4>1
    <3>2. CASE j # i BY <1>1, <1>14, <2>1, <2>2, <3>2 DEF FlagIsOwn
    <3> QED BY <3>1, <3>2
  <2> QED BY <2>1, <2>2 DEF FlagIsOwn
<1>21. Fresh' BY <1>1, <1>10, <1>12, <1>14, FreshKept
<1> QED BY <1>18, <1>19, <1>20, <1>21

-----------------------------------------------------------------------------
(* The steps, by what they do to memory.                                   *)

Derives  == \E h \in 1 .. Len(dbs) : Derived(h) /\ UNCHANGED scopes
Instants == \E h \in 1 .. Len(dbs) : InstantSet(h)
Begins   == \E h \in 1 .. Len(dbs) : \E as, ms, db, s : Begun(h, as, ms, db, s)
Goes     == Quiet /\ OwnFlags' /\ Fresh' /\ FlagIsOwn'

LEMMA Steps ==
  ASSUME Inv, Next
  PROVE  Derives \/ Instants \/ Begins \/ Goes
<1>1. MemoryOK BY DEF Inv
<1>2. DOMAIN dbs = 1 .. Len(dbs) /\ DOMAIN scopes = 1 .. Len(scopes) BY <1>1, Domains
<1>3. ASSUME NEW h \in DOMAIN dbs, Where(h) PROVE Derives
  BY <1>1, <1>2, <1>3, WhereDerives DEF Derives
<1>4. ASSUME NEW h \in DOMAIN dbs, Limit(h) PROVE Derives
  BY <1>1, <1>2, <1>4, LimitDerives DEF Derives
<1>5. ASSUME NEW h \in DOMAIN dbs, New(h) PROVE Derives
  BY <1>1, <1>2, <1>5, NewDerives DEF Derives
<1>6. ASSUME NEW h \in DOMAIN dbs, Begin(h) PROVE Derives
  BY <1>1, <1>2, <1>6, BeginDerives DEF Derives
<1>7. ASSUME NEW h \in DOMAIN dbs, Set(h) PROVE Derives
  BY <1>1, <1>2, <1>7, SetDerives DEF Derives
<1>8. ASSUME NEW h \in DOMAIN dbs, InstantSet(h) PROVE Instants
  BY <1>2, <1>8 DEF Instants
<1>9. ASSUME NEW h \in DOMAIN dbs, Start(h, 0) PROVE Begins
  <2>1. 0 \in Nat OBVIOUS
  <2> QED BY <1>1, <1>2, <1>9, <2>1, StartBegins DEF Begins
<1>10. ASSUME NEW i \in Running, ScopeBegin(i) \/ CommitOrRollback(i) \/ Query(i) PROVE Goes
  <2>1. i \in 1 .. Len(scopes) BY <1>2 DEF Running
  <2> QED BY <1>10, <2>1, ScopeBeginQuiet, CommitOrRollbackQuiet, QueryQuiet DEF Goes
<1>11. ASSUME NEW i \in Running, Start(scopes[i].db, i) PROVE Begins
  <2>1. i \in 1 .. Len(scopes) BY <1>2 DEF Running
  <2>2. scopes[i].db \in 1 .. Len(dbs) BY <1>1, <2>1, StatementIs
  <2>3. i \in Nat BY <2>1
  <2>4. \E as, ms, db, s : Begun(scopes[i].db, as, ms, db, s)
    BY <1>1, <1>11, <2>2, <2>3, StartBegins
  <2> QED BY <2>2, <2>4 DEF Begins
<1> QED BY <1>3, <1>4, <1>5, <1>6, <1>7, <1>8, <1>9, <1>10, <1>11 DEF Next

LEMMA DerivesKeepInv ==
  ASSUME Inv, Derives
  PROVE  Inv'
<1>1. MemoryOK /\ OwnHandles /\ OwnFlags /\ Fresh /\ FlagIsOwn BY DEF Inv
<1>2. PICK h \in 1 .. Len(dbs) : Derived(h) /\ scopes' = scopes BY DEF Derives
<1>3. PICK as, ms, db : Made(as, ms, db) BY <1>2 DEF Derived
<1>4. MemoryOK' BY <1>1, <1>2, <1>3, DeriveKeeps
<1>5. \A g \in 1 .. Len(dbs) : maps'[g] = maps[g] BY <1>1, <1>3, MadeKeeps
<1>6. \A i \in 1 .. Len(scopes) : scopes[i].db \in 1 .. Len(dbs) BY <1>1 DEF MemoryOK
<1>7. OwnFlags' BY <1>1, <1>2, <1>5, <1>6 DEF OwnFlags
<1>8. OwnHandles' /\ Fresh' /\ FlagIsOwn' BY <1>1, <1>2 DEF OwnHandles, Fresh, FlagIsOwn
<1> QED BY <1>4, <1>7, <1>8 DEF Inv

LEMMA InstantIs ==
  ASSUME MemoryOK, NEW h \in 1 .. Len(dbs), InstantSet(h)
  PROVE  \E v \in Clauses :
           /\ maps' \in Seq(Setting) /\ Len(maps') = Len(maps)
           /\ maps'[h] = [clause |-> v, started |-> maps[h].started]
           /\ \A g \in 1 .. Len(dbs) : g # h => maps'[g] = maps[g]
           /\ arrays' = arrays /\ dbs' = dbs /\ scopes' = scopes
<1>1. PICK v \in Clauses :
        /\ maps' = [maps EXCEPT ![dbs[h].values].clause = v]
        /\ arrays' = arrays /\ dbs' = dbs /\ scopes' = scopes
  BY DEF InstantSet
<1> DEFINE m == [clause |-> v, started |-> maps[h].started]
<1>2. dbs[h].values = h /\ maps[h] \in Setting BY HandleIs
<1>3. [maps[h] EXCEPT !.clause = v] = m BY <1>2 DEF Setting
<1>4. m \in Setting BY <1>2 DEF Setting
<1> HIDE DEF m
<1>5. maps' = [maps EXCEPT ![h] = m] BY <1>1, <1>2, <1>3
<1>6. /\ maps' \in Seq(Setting) /\ Len(maps') = Len(maps) /\ maps'[h] = m
      /\ \A g \in 1 .. Len(dbs) : g # h => maps'[g] = maps[g]
  BY <1>4, <1>5, MapSet
<1> QED BY <1>1, <1>6 DEF m

LEMMA InstantsKeepInv ==
  ASSUME Inv, Instants
  PROVE  Inv'
<1>1. MemoryOK /\ OwnHandles /\ OwnFlags /\ Fresh /\ FlagIsOwn BY DEF Inv
<1>2. PICK h \in 1 .. Len(dbs) : InstantSet(h) BY DEF Instants
<1>3. PICK v \in Clauses :
        /\ maps' \in Seq(Setting) /\ Len(maps') = Len(maps)
        /\ maps'[h] = [clause |-> v, started |-> maps[h].started]
        /\ \A g \in 1 .. Len(dbs) : g # h => maps'[g] = maps[g]
        /\ arrays' = arrays /\ dbs' = dbs /\ scopes' = scopes
  BY <1>1, <1>2, InstantIs
<1>4. MemoryOK' BY <1>1, <1>3 DEF MemoryOK
<1>5. \A g \in 1 .. Len(dbs) : maps'[g].started = maps[g].started
  <2> SUFFICES ASSUME NEW g \in 1 .. Len(dbs) PROVE maps'[g].started = maps[g].started
      OBVIOUS
  <2>1. CASE g = h BY <1>3, <2>1
  <2>2. CASE g # h BY <1>3, <2>2
  <2> QED BY <2>1, <2>2
<1>6. \A i \in 1 .. Len(scopes) : scopes[i].db \in 1 .. Len(dbs) BY <1>1 DEF MemoryOK
<1>7. OwnFlags' BY <1>1, <1>3, <1>5, <1>6 DEF OwnFlags
<1>8. OwnHandles' /\ Fresh' /\ FlagIsOwn' BY <1>1, <1>3 DEF OwnHandles, Fresh, FlagIsOwn
<1> QED BY <1>4, <1>7, <1>8 DEF Inv

LEMMA BeginsKeepInv ==
  ASSUME Inv, Begins
  PROVE  Inv'
<1>1. MemoryOK /\ OwnHandles /\ OwnFlags /\ Fresh /\ FlagIsOwn BY DEF Inv
<1>2. PICK h \in 1 .. Len(dbs) : \E as, ms, db, s : Begun(h, as, ms, db, s) BY DEF Begins
<1>3. PICK as, ms, db, s : Begun(h, as, ms, db, s) BY <1>2
<1>4. /\ Made(as, ms, db) /\ ms[Len(dbs) + 1] = maps[h]
      /\ s \in Statement /\ s.db = Len(dbs) + 1 /\ Holds(as, s.where)
      /\ scopes' = Append(scopes, s)
      /\ ~s.began /\ ~s.ended /\ (s.addr \in maps[h].started => s.reused)
  BY <1>3 DEF Begun
<1> DEFINE n == Len(scopes)
           d == Len(dbs) + 1
<1>5. /\ MemoryOK' /\ Len(scopes') = n + 1 /\ scopes'[n + 1] = s
      /\ \A i \in 1 .. n : scopes'[i] = scopes[i]
  BY <1>1, <1>4, StartKeeps
<1>6. n \in Nat /\ Len(dbs) \in Nat /\ DOMAIN scopes = 1 .. n BY <1>1, Domains
<1>7. DOMAIN scopes' = 1 .. Len(scopes')
  <2>1. scopes' \in Seq(Statement) BY <1>5 DEF MemoryOK
  <2> QED BY <2>1, LenProperties
<1>8. maps'[d] = maps[h] /\ \A g \in 1 .. Len(dbs) : maps'[g] = maps[g]
  BY <1>1, <1>4, MadeKeeps
<1>9. \A i \in 1 .. n : scopes[i].db \in 1 .. Len(dbs) BY <1>1 DEF MemoryOK
<1>10. \A i \in 1 .. n : scopes[i].db # d
  <2>1. \A g \in 1 .. Len(dbs) : g # Len(dbs) + 1 BY <1>6, NotLast
  <2> QED BY <1>9, <2>1
<1>11. \A i \in 1 .. n + 1 : i \in 1 .. n \/ i = n + 1 BY <1>6, LastOrBefore
<1> HIDE DEF n, d
<1>12. OwnHandles' BY <1>1, <1>4, <1>5, <1>10, <1>11 DEF OwnHandles, n, d
<1>13. OwnFlags'
  <2> SUFFICES ASSUME NEW i \in 1 .. n + 1, scopes'[i].addr \in maps'[scopes'[i].db].started
               PROVE  scopes'[i].began \/ scopes'[i].reused
      BY <1>5 DEF OwnFlags
  <2>1. CASE i = n + 1 BY <1>4, <1>5, <1>8, <2>1 DEF d
  <2>2. CASE i \in 1 .. n BY <1>1, <1>5, <1>8, <1>9, <2>2 DEF OwnFlags, n
  <2> QED BY <1>11, <2>1, <2>2
<1>14. Fresh'
  <2> SUFFICES ASSUME NEW i \in 1 .. n + 1, scopes'[i].at = "new"
               PROVE  ~scopes'[i].began /\ ~scopes'[i].ended
      BY <1>5 DEF Fresh
  <2>1. CASE i = n + 1 BY <1>4, <1>5, <2>1
  <2>2. CASE i \in 1 .. n BY <1>1, <1>5, <2>2 DEF Fresh, n
  <2> QED BY <1>11, <2>1, <2>2
<1>15. FlagIsOwn'
  <2> SUFFICES ASSUME NEW i \in 1 .. n + 1, scopes'[i].ended
               PROVE  scopes'[i].began \/ scopes'[i].reused
      BY <1>5, <1>7 DEF FlagIsOwn
  <2>1. CASE i = n + 1 BY <1>4, <1>5, <2>1
  <2>2. CASE i \in 1 .. n BY <1>1, <1>5, <1>6, <2>2 DEF FlagIsOwn
  <2> QED BY <1>11, <2>1, <2>2
<1> QED BY <1>5, <1>12, <1>13, <1>14, <1>15 DEF Inv

LEMMA InitInv == Init => Inv
<1> SUFFICES ASSUME Init PROVE Inv
    OBVIOUS
<1> DEFINE empty == [clause |-> None, started |-> {}]
           first == [where |-> [array |-> 1, len |-> 0], limit |-> None, values |-> 1, tx |-> FALSE]
<1>1. arrays = << <<>> >> /\ maps = <<empty>> /\ dbs = <<first>> /\ scopes = <<>> BY DEF Init
<1>2. <<>> \in Seq(Words) /\ Len(<<>>) = 0 BY EmptySeq
<1>3. arrays \in Seq(Seq(Words)) /\ Len(arrays) = 1 /\ arrays[1] = <<>>
  <2> DEFINE e == <<>>
  <2>1. e \in Seq(Words) BY <1>2
  <2> HIDE DEF e
  <2>2. <<e>> \in Seq(Seq(Words)) /\ Len(<<e>>) = 1 /\ <<e>>[1] = e BY <2>1
  <2> QED BY <1>1, <2>2 DEF e
<1>4. empty \in Setting BY DEF Setting
<1>5. first \in Handle /\ first.values = 1 /\ first.where = [array |-> 1, len |-> 0]
  BY DEF Handle, Slice
<1> HIDE DEF empty, first
<1>6. maps \in Seq(Setting) /\ Len(maps) = 1 BY <1>1, <1>4
<1>7. dbs \in Seq(Handle) /\ Len(dbs) = 1 /\ dbs[1] = first BY <1>1, <1>5
<1>8. scopes \in Seq(Statement) /\ Len(scopes) = 0 /\ DOMAIN scopes = {} BY <1>1
<1>9. Holds(arrays, first.where)
  <2>1. 1 \in 1 .. 1 /\ 0 <= 0 OBVIOUS
  <2> QED BY <1>2, <1>3, <1>5, <2>1 DEF Holds
<1>10. \A h \in 1 .. Len(dbs) : dbs[h].values = h /\ Holds(arrays, dbs[h].where)
  <2>1. \A h \in 1 .. 1 : h = 1 OBVIOUS
  <2> QED BY <1>5, <1>7, <1>9, <2>1
<1>11. 1 .. Len(scopes) = {} BY <1>8
<1>12. MemoryOK BY <1>3, <1>6, <1>7, <1>8, <1>10, <1>11 DEF MemoryOK
<1>13. OwnHandles /\ OwnFlags /\ Fresh /\ FlagIsOwn
  BY <1>8, <1>11 DEF OwnHandles, OwnFlags, Fresh, FlagIsOwn
<1> QED BY <1>12, <1>13 DEF Inv

LEMMA StepInv == Inv /\ [Next]_vars => Inv'
<1> SUFFICES ASSUME Inv, [Next]_vars PROVE Inv'
    OBVIOUS
<1>1. CASE Next
  <2>1. ASSUME Goes PROVE Inv'
    <3>1. MemoryOK /\ OwnHandles BY DEF Inv
    <3>2. MemoryOK' /\ OwnHandles' BY <2>1, <3>1, QuietKeeps DEF Goes
    <3> QED BY <2>1, <3>2 DEF Goes, Inv
  <2> QED BY <1>1, <2>1, Steps, DerivesKeepInv, InstantsKeepInv, BeginsKeepInv
<1>2. CASE UNCHANGED vars
  BY <1>2 DEF vars, Inv, MemoryOK, OwnHandles, OwnFlags, Fresh, FlagIsOwn
<1> QED BY <1>1, <1>2

\* Memory stays in order: every slice lies in an array, every handle has its own
\* settings and every statement its own handle (main.go clone, scope.go NewDB).
THEOREM Invariance == Spec => []Inv
BY InitInv, StepInv, PTL DEF Spec

\* A statement ends a transaction only when it began one, or lies where another lay
\* (scope.go InstanceID, callback_update.go and callback_create.go's transactions).
THEOREM FlagsAreOwn == Spec => []FlagIsOwn
<1>1. Inv => FlagIsOwn BY DEF Inv
<1> QED BY <1>1, Invariance, PTL

-----------------------------------------------------------------------------
(* The handles of memory are values.                                       *)

Text          == [where : Seq(Words), limit : {1, None}, clause : Clauses \cup {None}]
StatementText == [where : Seq(Words), limit : {1, None}]

ChainsIn(as, ms, ds) == [h \in DOMAIN ds |-> ChainIn(as, ms, ds[h])]
StatementsIn(as, ss) ==
  [i \in DOMAIN ss |-> [where |-> Read(as, ss[i].where), limit |-> ss[i].limit]]

TheChains     == ChainsIn(arrays, maps, dbs)
TheStatements == StatementsIn(arrays, scopes)

LEMMA ReadTyped ==
  ASSUME NEW as \in Seq(Seq(Words)), NEW slice \in Slice, Holds(as, slice)
  PROVE  Read(as, slice) \in Seq(Words)
<1>1. as[slice.array] \in Seq(Words) BY ElementOfSeq DEF Holds
<1>2. slice.len \in Nat /\ slice.len <= Len(as[slice.array]) BY DEF Slice, Holds
<1> QED BY <1>1, <1>2, Prefix DEF Read

LEMMA ChainsTyped ==
  ASSUME NEW as \in Seq(Seq(Words)), NEW ms \in Seq(Setting), NEW ds \in Seq(Handle),
         Len(ms) = Len(ds),
         \A h \in 1 .. Len(ds) : ds[h].values = h /\ Holds(as, ds[h].where)
  PROVE  /\ ChainsIn(as, ms, ds) \in [1 .. Len(ds) -> Text]
         /\ \A h \in 1 .. Len(ds) : ChainsIn(as, ms, ds)[h] = ChainIn(as, ms, ds[h])
<1>1. DOMAIN ds = 1 .. Len(ds) BY LenProperties
<1>2. ASSUME NEW h \in 1 .. Len(ds) PROVE ChainIn(as, ms, ds[h]) \in Text
  <2>1. ds[h] \in Handle BY ElementOfSeq
  <2>2. ds[h].where \in Slice /\ ds[h].limit \in {1, None} BY <2>1 DEF Handle
  <2>3. Read(as, ds[h].where) \in Seq(Words) BY <2>2, ReadTyped
  <2>4. ms[h] \in Setting BY ElementOfSeq
  <2>5. ms[h].clause \in Clauses \cup {None} BY <2>4 DEF Setting
  <2> QED BY <2>2, <2>3, <2>5 DEF ChainIn, Text
<1> QED BY <1>1, <1>2 DEF ChainsIn

LEMMA StatementsTyped ==
  ASSUME NEW as \in Seq(Seq(Words)), NEW ss \in Seq(Statement),
         \A i \in 1 .. Len(ss) : Holds(as, ss[i].where)
  PROVE  /\ StatementsIn(as, ss) \in [1 .. Len(ss) -> StatementText]
         /\ \A i \in 1 .. Len(ss) :
              StatementsIn(as, ss)[i] = [where |-> Read(as, ss[i].where), limit |-> ss[i].limit]
<1>1. DOMAIN ss = 1 .. Len(ss) BY LenProperties
<1>2. ASSUME NEW i \in 1 .. Len(ss)
      PROVE  [where |-> Read(as, ss[i].where), limit |-> ss[i].limit] \in StatementText
  <2>1. ss[i] \in Statement BY ElementOfSeq
  <2>2. ss[i].where \in Slice /\ ss[i].limit \in {1, None} BY <2>1 DEF Statement
  <2>3. Read(as, ss[i].where) \in Seq(Words) BY <2>2, ReadTyped
  <2> QED BY <2>2, <2>3 DEF StatementText
<1> QED BY <1>1, <1>2 DEF StatementsIn

\* The chains of a memory in order, now and after a step.
LEMMA TypedNow ==
  ASSUME MemoryOK
  PROVE  /\ TheChains \in [1 .. Len(dbs) -> Text]
         /\ \A h \in 1 .. Len(dbs) : TheChains[h] = ChainIn(arrays, maps, dbs[h])
         /\ TheStatements \in [1 .. Len(scopes) -> StatementText]
         /\ \A i \in 1 .. Len(scopes) : TheStatements[i]
              = [where |-> Read(arrays, scopes[i].where), limit |-> scopes[i].limit]
<1>1. /\ arrays \in Seq(Seq(Words)) /\ maps \in Seq(Setting) /\ dbs \in Seq(Handle)
      /\ scopes \in Seq(Statement) /\ Len(maps) = Len(dbs)
      /\ \A h \in 1 .. Len(dbs) : dbs[h].values = h /\ Holds(arrays, dbs[h].where)
      /\ \A i \in 1 .. Len(scopes) : Holds(arrays, scopes[i].where)
  BY DEF MemoryOK
<1>2. /\ TheChains \in [1 .. Len(dbs) -> Text]
      /\ \A h \in 1 .. Len(dbs) : TheChains[h] = ChainIn(arrays, maps, dbs[h])
  BY <1>1, ChainsTyped DEF TheChains
<1>3. /\ TheStatements \in [1 .. Len(scopes) -> StatementText]
      /\ \A i \in 1 .. Len(scopes) : TheStatements[i]
           = [where |-> Read(arrays, scopes[i].where), limit |-> scopes[i].limit]
  BY <1>1, StatementsTyped DEF TheStatements
<1> QED BY <1>2, <1>3

LEMMA TypedThen ==
  ASSUME MemoryOK'
  PROVE  /\ TheChains' \in [1 .. Len(dbs') -> Text]
         /\ \A h \in 1 .. Len(dbs') : TheChains'[h] = ChainIn(arrays', maps', dbs'[h])
         /\ TheStatements' \in [1 .. Len(scopes') -> StatementText]
         /\ \A i \in 1 .. Len(scopes') : TheStatements'[i]
              = [where |-> Read(arrays', scopes'[i].where), limit |-> scopes'[i].limit]
<1>1. /\ arrays' \in Seq(Seq(Words)) /\ maps' \in Seq(Setting) /\ dbs' \in Seq(Handle)
      /\ scopes' \in Seq(Statement) /\ Len(maps') = Len(dbs')
      /\ \A h \in 1 .. Len(dbs') : dbs'[h].values = h /\ Holds(arrays', dbs'[h].where)
      /\ \A i \in 1 .. Len(scopes') : Holds(arrays', scopes'[i].where)
  BY DEF MemoryOK
<1>2. /\ TheChains' \in [1 .. Len(dbs') -> Text]
      /\ \A h \in 1 .. Len(dbs') : TheChains'[h] = ChainIn(arrays', maps', dbs'[h])
  BY <1>1, ChainsTyped DEF TheChains
<1>3. /\ TheStatements' \in [1 .. Len(scopes') -> StatementText]
      /\ \A i \in 1 .. Len(scopes') : TheStatements'[i]
           = [where |-> Read(arrays', scopes'[i].where), limit |-> scopes'[i].limit]
  BY <1>1, StatementsTyped DEF TheStatements
<1> QED BY <1>2, <1>3

\* A handle more is a chain more, and every other chain reads as it did.
LEMMA MadeAppends ==
  ASSUME MemoryOK, MemoryOK', NEW as, NEW ms, NEW db, Made(as, ms, db)
  PROVE  TheChains' = Append(TheChains, ChainIn(as, ms, db))
<1> DEFINE n == Len(dbs)
           s == TheChains
           t == TheChains'
<1>1. /\ arrays' = as /\ maps' = ms /\ Len(dbs') = n + 1 /\ dbs'[n + 1] = db
      /\ \A h \in 1 .. n : dbs'[h] = dbs[h] /\ maps'[h] = maps[h]
  BY MadeKeeps
<1>2. n \in Nat BY Domains
<1>3. /\ s \in [1 .. n -> Text]
      /\ \A h \in 1 .. n : s[h] = ChainIn(arrays, maps, dbs[h])
  BY TypedNow
<1>4. /\ t \in [1 .. n + 1 -> Text]
      /\ \A h \in 1 .. n + 1 : t[h] = ChainIn(as, ms, dbs'[h])
  BY <1>1, TypedThen
<1>5. ASSUME NEW h \in 1 .. n PROVE t[h] = s[h]
  <2>1. dbs[h].values = h /\ Holds(arrays, dbs[h].where) BY HandleIs
  <2>2. Grows(arrays, as) /\ arrays \in Seq(Seq(Words)) BY DEF Made, MemoryOK
  <2>3. Read(as, dbs[h].where) = Read(arrays, dbs[h].where) BY <2>1, <2>2, ReadKept
  <2>4. h \in 1 .. n + 1 BY <1>2, OneMore, UpTo
  <2>5. t[h] = ChainIn(as, ms, dbs[h]) BY <1>1, <1>4, <2>4
  <2>6. ms[h] = maps[h] BY <1>1
  <2>7. ChainIn(as, ms, dbs[h]) = ChainIn(arrays, maps, dbs[h])
    BY <2>1, <2>3, <2>6 DEF ChainIn
  <2> QED BY <1>3, <2>5, <2>7
<1>6. t[n + 1] = ChainIn(as, ms, db)
  <2>1. n + 1 \in 1 .. n + 1 BY <1>2, OneMore
  <2> QED BY <1>1, <1>4, <2>1
<1> HIDE DEF n, s, t
<1>7. t = Append(s, t[n + 1]) BY <1>2, <1>3, <1>4, <1>5, AppendsOne
<1> QED BY <1>6, <1>7 DEF s, t

\* Statements under way read as they did.
LEMMA MadeKeepsStatements ==
  ASSUME MemoryOK, NEW as, NEW ms, NEW db, Made(as, ms, db), NEW i \in 1 .. Len(scopes)
  PROVE  Read(as, scopes[i].where) = Read(arrays, scopes[i].where)
<1>1. Holds(arrays, scopes[i].where) BY StatementIs
<1>2. Grows(arrays, as) /\ arrays \in Seq(Seq(Words)) BY DEF Made, MemoryOK
<1> QED BY <1>1, <1>2, ReadKept

\* What the abstract specification calls chains and statements.
LEMMA ChainDerives ==
  ASSUME NEW h \in DOMAIN TheChains, NEW y \in Chains!Chained(TheChains[h]),
         TheChains' = Append(TheChains, y), TheStatements' = TheStatements
  PROVE  Chains!ChainNext
BY Zenon DEF Chains!ChainNext, Chains!Derive, TheChains, TheStatements, ChainsIn, StatementsIn,
             ChainIn, Read, Elements, Settings

LEMMA ChainSets ==
  ASSUME NEW h \in DOMAIN TheChains, NEW v \in Clauses,
         TheChains' = [TheChains EXCEPT ![h].clause = v], TheStatements' = TheStatements
  PROVE  Chains!ChainNext
BY Zenon DEF Chains!ChainNext, Chains!InstantSet, TheChains, TheStatements, ChainsIn,
             StatementsIn, ChainIn, Read, Elements, Settings

LEMMA ChainStarts ==
  ASSUME NEW h \in DOMAIN TheChains, NEW base \in {TheChains[h], Chains!Bare(TheChains[h])},
         TheChains' = Append(TheChains, base),
         NEW own \in Owns, NEW limit \in {1, base.limit},
         TheStatements' = Append(TheStatements, [where |-> base.where \o own, limit |-> limit])
  PROVE  Chains!ChainNext
<1>1. \E o \in Owns, l \in {1, base.limit} :
        TheStatements' = Append(TheStatements, [where |-> base.where \o o, limit |-> l])
  OBVIOUS
<1>2. \E b \in {TheChains[h], Chains!Bare(TheChains[h])} :
        /\ TheChains' = Append(TheChains, b)
        /\ \E o \in Owns, l \in {1, b.limit} :
             TheStatements' = Append(TheStatements, [where |-> b.where \o o, limit |-> l])
  BY <1>1
<1>3. Chains!Statement(h)
  BY <1>2 DEF Chains!Statement, Owns, TheChains, TheStatements, ChainsIn, StatementsIn,
              ChainIn, Read, Elements, Settings
<1>4. h \in DOMAIN [g \in DOMAIN dbs |-> [where |-> Elements(dbs[g].where),
                                          limit |-> dbs[g].limit, clause |-> Settings(g).clause]]
  BY DEF TheChains, ChainsIn
<1> QED BY <1>3, <1>4 DEF Chains!ChainNext

LEMMA ChainStays ==
  ASSUME TheChains' = TheChains, TheStatements' = TheStatements
  PROVE  UNCHANGED Chains!chainVars
BY DEF Chains!chainVars, TheChains, TheStatements, ChainsIn, StatementsIn, ChainIn, Read,
       Elements, Settings

LEMMA DerivesRefine ==
  ASSUME MemoryOK, MemoryOK', Derives
  PROVE  Chains!ChainNext
<1>1. PICK h \in 1 .. Len(dbs) : Derived(h) /\ scopes' = scopes BY DEF Derives
<1>2. PICK as, ms, db :
        /\ Made(as, ms, db)
        /\ ChainIn(as, ms, db) \in Chains!Chained(ChainIn(arrays, maps, dbs[h]))
  BY <1>1 DEF Derived
<1>3. /\ TheChains \in [1 .. Len(dbs) -> Text] /\ TheChains[h] = ChainIn(arrays, maps, dbs[h])
      /\ TheStatements \in [1 .. Len(scopes) -> StatementText]
      /\ \A i \in 1 .. Len(scopes) : TheStatements[i]
           = [where |-> Read(arrays, scopes[i].where), limit |-> scopes[i].limit]
  BY TypedNow
<1>4. /\ TheStatements' \in [1 .. Len(scopes) -> StatementText]
      /\ \A i \in 1 .. Len(scopes) : TheStatements'[i]
           = [where |-> Read(arrays', scopes[i].where), limit |-> scopes[i].limit]
  BY <1>1, TypedThen
<1>5. arrays' = as BY <1>2, MadeKeeps
<1>6. \A i \in 1 .. Len(scopes) : Read(as, scopes[i].where) = Read(arrays, scopes[i].where)
  BY <1>2, MadeKeepsStatements
<1>7. \A i \in 1 .. Len(scopes) : TheStatements'[i] = TheStatements[i]
  BY <1>3, <1>4, <1>5, <1>6
<1>8. TheStatements' = TheStatements BY <1>3, <1>4, <1>7
<1>9. TheChains' = Append(TheChains, ChainIn(as, ms, db)) BY <1>2, MadeAppends
<1>10. h \in DOMAIN TheChains BY <1>3
<1>11. ChainIn(as, ms, db) \in Chains!Chained(TheChains[h]) BY <1>2, <1>3
<1> QED BY <1>8, <1>9, <1>10, <1>11, ChainDerives

LEMMA InstantsRefine ==
  ASSUME MemoryOK, MemoryOK', Instants
  PROVE  Chains!ChainNext
<1>1. PICK h \in 1 .. Len(dbs) : InstantSet(h) BY DEF Instants
<1>2. PICK v \in Clauses :
        /\ maps'[h] = [clause |-> v, started |-> maps[h].started]
        /\ \A g \in 1 .. Len(dbs) : g # h => maps'[g] = maps[g]
        /\ arrays' = arrays /\ dbs' = dbs /\ scopes' = scopes
  BY <1>1, InstantIs
<1>3. /\ TheChains \in [1 .. Len(dbs) -> Text]
      /\ \A g \in 1 .. Len(dbs) : TheChains[g] = ChainIn(arrays, maps, dbs[g])
  BY TypedNow
<1>4. /\ TheChains' \in [1 .. Len(dbs) -> Text]
      /\ \A g \in 1 .. Len(dbs) : TheChains'[g] = ChainIn(arrays, maps', dbs[g])
  BY <1>2, TypedThen
<1>5. \A g \in 1 .. Len(dbs) : dbs[g].values = g BY HandleIs
<1>6. ASSUME NEW g \in 1 .. Len(dbs)
      PROVE  TheChains'[g] = [TheChains EXCEPT ![h].clause = v][g]
  <2>1. CASE g = h
    <3>1. TheChains'[h] = [where |-> Read(arrays, dbs[h].where), limit |-> dbs[h].limit,
                           clause |-> v]
      BY <1>2, <1>4, <1>5 DEF ChainIn
    <3>2. TheChains[h] = [where |-> Read(arrays, dbs[h].where), limit |-> dbs[h].limit,
                          clause |-> maps[h].clause]
      BY <1>3, <1>5 DEF ChainIn
    <3>3. [TheChains[h] EXCEPT !.clause = v]
            = [where |-> Read(arrays, dbs[h].where), limit |-> dbs[h].limit, clause |-> v]
      BY <3>2
    <3>4. [TheChains EXCEPT ![h].clause = v][h] = [TheChains[h] EXCEPT !.clause = v] BY <1>3
    <3> QED BY <2>1, <3>1, <3>3, <3>4
  <2>2. CASE g # h
    <3>1. TheChains'[g] = TheChains[g] BY <1>2, <1>3, <1>4, <1>5, <2>2 DEF ChainIn
    <3>2. [TheChains EXCEPT ![h].clause = v][g] = TheChains[g] BY <1>3, <2>2
    <3> QED BY <3>1, <3>2
  <2> QED BY <2>1, <2>2
<1>7. TheChains' = [TheChains EXCEPT ![h].clause = v]
  <2> DEFINE c == TheChains
             d == TheChains'
             e == [c EXCEPT ![h].clause = v]
  <2>1. DOMAIN e = 1 .. Len(dbs) /\ e = [g \in 1 .. Len(dbs) |-> e[g]] BY <1>3
  <2>2. d = [g \in 1 .. Len(dbs) |-> d[g]] BY <1>4
  <2>3. \A g \in 1 .. Len(dbs) : d[g] = e[g] BY <1>6
  <2> HIDE DEF c, d, e
  <2>4. d = e BY <2>1, <2>2, <2>3
  <2> QED BY <2>4 DEF c, d, e
<1>8. TheStatements' = TheStatements BY <1>2 DEF TheStatements
<1>9. h \in DOMAIN TheChains BY <1>3
<1> QED BY <1>7, <1>8, <1>9, ChainSets

LEMMA BeginsRefine ==
  ASSUME MemoryOK, MemoryOK', Begins
  PROVE  Chains!ChainNext
<1>1. PICK h \in 1 .. Len(dbs) : \E as, ms, db, s : Begun(h, as, ms, db, s) BY DEF Begins
<1>2. PICK as, ms, db, s : Begun(h, as, ms, db, s) BY <1>1
<1>3. /\ Made(as, ms, db) /\ s \in Statement /\ s.db = Len(dbs) + 1 /\ Holds(as, s.where)
      /\ scopes' = Append(scopes, s) /\ s.limit \in {1, db.limit}
      /\ ChainIn(as, ms, db) \in {ChainIn(arrays, maps, dbs[h]),
                                  Chains!Bare(ChainIn(arrays, maps, dbs[h]))}
  BY <1>2 DEF Begun
<1>4. PICK own \in Owns : Read(as, s.where) = Read(as, db.where) \o own BY <1>2 DEF Begun
<1> DEFINE n    == Len(scopes)
           base == ChainIn(as, ms, db)
           st   == TheStatements
           tt   == TheStatements'
<1>5. n \in Nat BY Domains
<1>6. /\ Len(scopes') = n + 1 /\ scopes'[n + 1] = s
      /\ \A i \in 1 .. n : scopes'[i] = scopes[i]
  BY <1>3, StartKeeps
<1>7. /\ TheChains \in [1 .. Len(dbs) -> Text] /\ TheChains[h] = ChainIn(arrays, maps, dbs[h])
      /\ st \in [1 .. n -> StatementText]
      /\ \A i \in 1 .. n : st[i]
           = [where |-> Read(arrays, scopes[i].where), limit |-> scopes[i].limit]
  BY TypedNow
<1>8. arrays' = as BY <1>3, MadeKeeps
<1>9. /\ tt \in [1 .. n + 1 -> StatementText]
      /\ \A i \in 1 .. n + 1 : tt[i]
           = [where |-> Read(as, scopes'[i].where), limit |-> scopes'[i].limit]
  BY <1>6, <1>8, TypedThen
<1>10. \A i \in 1 .. n : Read(as, scopes[i].where) = Read(arrays, scopes[i].where)
  BY <1>3, MadeKeepsStatements
<1>11. \A i \in 1 .. n : i \in 1 .. n + 1 BY <1>5, OneMore, UpTo
<1>12. n + 1 \in 1 .. n + 1 BY <1>5, OneMore
<1>13. base.where = Read(as, db.where) /\ base.limit = db.limit BY DEF ChainIn
<1>14. TheChains' = Append(TheChains, base) BY <1>3, MadeAppends
<1> HIDE DEF n, base, st, tt
<1>15. \A i \in 1 .. n : tt[i] = st[i] BY <1>6, <1>7, <1>9, <1>10, <1>11
<1>16. tt[n + 1] = [where |-> base.where \o own, limit |-> s.limit]
  BY <1>4, <1>6, <1>9, <1>12, <1>13
<1>17. tt = Append(st, tt[n + 1]) BY <1>5, <1>7, <1>9, <1>15, AppendsOne
<1>18. TheStatements' = Append(TheStatements, [where |-> base.where \o own, limit |-> s.limit])
  BY <1>16, <1>17 DEF st, tt
<1>19. h \in DOMAIN TheChains BY <1>7
<1>20. base \in {TheChains[h], Chains!Bare(TheChains[h])} BY <1>3, <1>7 DEF base
<1>21. s.limit \in {1, base.limit} BY <1>3, <1>13
<1> QED BY <1>14, <1>18, <1>19, <1>20, <1>21, ChainStarts

LEMMA GoesRefine ==
  ASSUME MemoryOK, MemoryOK', Quiet
  PROVE  UNCHANGED Chains!chainVars
<1>1. /\ TheChains \in [1 .. Len(dbs) -> Text]
      /\ \A h \in 1 .. Len(dbs) : TheChains[h] = ChainIn(arrays, maps, dbs[h])
      /\ TheStatements \in [1 .. Len(scopes) -> StatementText]
      /\ \A i \in 1 .. Len(scopes) : TheStatements[i]
           = [where |-> Read(arrays, scopes[i].where), limit |-> scopes[i].limit]
  BY TypedNow
<1>2. arrays' = arrays /\ Len(dbs') = Len(dbs) /\ Len(scopes') = Len(scopes) BY DEF Quiet
<1>3. /\ TheChains' \in [1 .. Len(dbs) -> Text]
      /\ \A h \in 1 .. Len(dbs) : TheChains'[h] = ChainIn(arrays, maps', dbs'[h])
      /\ TheStatements' \in [1 .. Len(scopes) -> StatementText]
      /\ \A i \in 1 .. Len(scopes) : TheStatements'[i]
           = [where |-> Read(arrays, scopes'[i].where), limit |-> scopes'[i].limit]
  BY <1>2, TypedThen
<1>4. \A h \in 1 .. Len(dbs) : TheChains'[h] = TheChains[h]
  <2> SUFFICES ASSUME NEW h \in 1 .. Len(dbs) PROVE TheChains'[h] = TheChains[h]
      OBVIOUS
  <2>1. dbs[h].values = h BY HandleIs
  <2>2. /\ dbs'[h].where = dbs[h].where /\ dbs'[h].limit = dbs[h].limit
        /\ dbs'[h].values = dbs[h].values /\ maps'[h].clause = maps[h].clause
    BY DEF Quiet
  <2>3. ChainIn(arrays, maps', dbs'[h]) = ChainIn(arrays, maps, dbs[h])
    BY <2>1, <2>2 DEF ChainIn
  <2> QED BY <1>1, <1>3, <2>3
<1>5. \A i \in 1 .. Len(scopes) : TheStatements'[i] = TheStatements[i]
  <2>1. \A i \in 1 .. Len(scopes) :
          scopes'[i].where = scopes[i].where /\ scopes'[i].limit = scopes[i].limit
    BY DEF Quiet, SameStatement
  <2> QED BY <1>1, <1>3, <2>1
<1>6. TheChains' = TheChains BY <1>1, <1>3, <1>4
<1>7. TheStatements' = TheStatements BY <1>1, <1>3, <1>5
<1> QED BY <1>6, <1>7, ChainStays

LEMMA StepRefines == Inv /\ Inv' /\ [Next]_vars => [Chains!ChainNext]_(Chains!chainVars)
<1> SUFFICES ASSUME Inv, Inv', [Next]_vars
             PROVE  Chains!ChainNext \/ UNCHANGED Chains!chainVars
    OBVIOUS
<1>1. MemoryOK /\ MemoryOK' BY DEF Inv
<1>2. CASE Next
  BY <1>1, <1>2, Steps, DerivesRefine, InstantsRefine, BeginsRefine, GoesRefine DEF Goes
<1>3. CASE UNCHANGED vars
  <2>1. TheChains' = TheChains /\ TheStatements' = TheStatements
    BY <1>3 DEF vars, TheChains, TheStatements
  <2> QED BY <2>1, ChainStays
<1> QED BY <1>2, <1>3

LEMMA InitRefines == Init => Chains!ChainInit
<1> SUFFICES ASSUME Init PROVE Chains!ChainInit
    OBVIOUS
<1>1. MemoryOK BY InitInv DEF Inv
<1> DEFINE empty == [clause |-> None, started |-> {}]
           first == [where |-> [array |-> 1, len |-> 0], limit |-> None, values |-> 1, tx |-> FALSE]
           text  == [where |-> <<>>, limit |-> None, clause |-> None]
<1>2. maps = <<empty>> /\ dbs = <<first>> /\ scopes = <<>> /\ arrays = << <<>> >> BY DEF Init
<1>3. /\ first.where = [array |-> 1, len |-> 0] /\ first.limit = None /\ first.values = 1
      /\ empty.clause = None
  OBVIOUS
<1> HIDE DEF empty, first
<1>4. Len(dbs) = 1 /\ dbs[1] = first /\ maps[1] = empty /\ Len(scopes) = 0 BY <1>2
<1>5. /\ TheChains \in [1 .. 1 -> Text] /\ TheChains[1] = ChainIn(arrays, maps, dbs[1])
      /\ TheStatements \in [1 .. 0 -> StatementText]
  BY <1>1, <1>4, TypedNow
<1>6. Read(arrays, first.where) = <<>> BY <1>3, SubSeqEmpty DEF Read
<1>7. TheChains[1] = text BY <1>3, <1>4, <1>5, <1>6 DEF ChainIn
<1> HIDE DEF text
<1>8. TheChains = <<text>> BY <1>5, <1>7
<1>9. TheStatements = <<>> BY <1>5
<1> QED BY <1>8, <1>9 DEF Chains!ChainInit, TheChains, TheStatements, ChainsIn, StatementsIn,
                          ChainIn, Read, Elements, Settings, text

\* Handles are values: every chained call makes a handle of its own and changes no
\* other, whatever arrays and maps the two were cloned from, and a statement keeps the
\* conditions it began with (main.go clone, search.go clone).
THEOREM HandleChainsRefined == Spec => HandlesAreValues
<1>1. Init => Chains!ChainInit BY InitRefines
<1>2. Inv /\ Inv' /\ [Next]_vars => [Chains!ChainNext]_(Chains!chainVars) BY StepRefines
<1> QED BY <1>1, <1>2, Invariance, PTL DEF Spec, HandlesAreValues, Chains!ChainSpec
=============================================================================
