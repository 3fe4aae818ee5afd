--------------------------- MODULE ModelCache_proofs ---------------------------
(***************************************************************************)
(* Proofs about ModelCache, for any goroutines, any models and any way they*)
(* embed and refer to one another.                                         *)
(***************************************************************************)
EXTENDS ModelCache, SequenceTheorems, TLAPS

-----------------------------------------------------------------------------
(* The invariant.                                                          *)

Fields == UNION {OwnSlow(t) : t \in Types}
SlowFields == UNION {ToSet(Slow[t]) : t \in Types}
FrameType == [type : Types, at : {"load", "fields", "defer"}, obj : Nat,
              embeds : Seq(Types), slow : Seq(SlowFields)]
ObjType == [type : Types, done : SUBSET Fields, marks : SUBSET Fields, custom : SUBSET Fields]

Typed ==
  /\ objs \in Seq(ObjType)
  /\ cache \in [Types -> 0 .. Len(objs)]
  /\ stack \in [Goroutines -> Seq(FrameType)]
  /\ got \in [Goroutines -> 0 .. Len(objs)]
  /\ alone \in [Goroutines -> BOOLEAN]
  /\ copied \subseteq Nat /\ twice \subseteq Types

Cached == \A t \in Types : cache[t] # 0 => objs[cache[t]].type = t
Owned == \A o \in DOMAIN objs : objs[o].done \subseteq SlowOf[objs[o].type]

\* The field s of a model is complete in o: so is its mark, in this model or the other.
Settled(o, t, s) ==
  /\ <<t, s.name>> \in objs[o].done
  /\ s.kind = "belongs_to" => <<t, s.name>> \in objs[o].marks
  /\ s.kind = "has" => \/ s.to \in twice
                       \/ cache[s.to] # 0 /\ <<t, s.name>> \in objs[cache[s.to]].marks

\* The deferred builders of o have run but for the first m fields, and the structs it
\* embeds are copied but for the last m.
Through(o, t, m) == \A i \in DOMAIN Slow[t] : i > m => Settled(o, t, Slow[t][i])
Embedded_(o, t, m) == o \in copied \/
  \A i \in DOMAIN Embeds[t] : i + m <= Len(Embeds[t]) => OwnSlow(Embeds[t][i]) \subseteq objs[o].done
Finished(o) == Through(o, objs[o].type, 0) /\ Embedded_(o, objs[o].type, 0)

\* A call of getModelStruct: what it has left to do, and what it has done.
Left(f) ==
  /\ Len(f.embeds) <= Len(Embeds[f.type])
  /\ \A j \in 1 .. Len(f.embeds) :
       f.embeds[j] = Embeds[f.type][Len(Embeds[f.type]) - Len(f.embeds) + j]
  /\ Len(f.slow) <= Len(Slow[f.type])
  /\ \A j \in 1 .. Len(f.slow) : f.slow[j] = Slow[f.type][Len(f.slow) + 1 - j]
  /\ f.at = "load" => f.obj = 0 /\ Len(f.embeds) = Len(Embeds[f.type])
  /\ f.at # "defer" => Len(f.slow) = Len(Slow[f.type])
  /\ f.at = "defer" => f.embeds = <<>>
Done(f) == f.at # "load" =>
  /\ f.obj \in DOMAIN objs /\ objs[f.obj].type = f.type
  /\ Through(f.obj, f.type, Len(f.slow)) /\ Embedded_(f.obj, f.type, Len(f.embeds))
\* o is what the cache has for t, unless goroutines have published over one another.
Published(o, t) == cache[t] # 0 /\ (cache[t] = o \/ t \in twice)
FrameOK(f) == Left(f) /\ Done(f) /\ (f.at = "defer" => Published(f.obj, f.type))

\* What a call waits for.
Waits(f, b) ==
  \/ f.at = "fields" /\ f.embeds # <<>> /\ b.type = Head(f.embeds)
  \/ f.at = "defer" /\ f.slow # <<>> /\ Head(f.slow).kind # "late" /\ b.type = Head(f.slow).to

Building(o) == \E g \in Goroutines : \E i \in DOMAIN stack[g] : stack[g][i].obj = o
Chain(s) == \A i \in DOMAIN s : i + 1 \in DOMAIN s => Waits(s[i], s[i + 1])
Stacks == \A g \in Goroutines : Chain(stack[g]) /\ \A i \in DOMAIN stack[g] : FrameOK(stack[g][i])
Built == \A o \in DOMAIN objs : Finished(o) \/ Building(o)
Apart == \A g \in Goroutines : alone[g] /\ Busy(g) => \A k \in Goroutines \ {g} : ~Busy(k)
Gets == \A g \in Goroutines : got[g] # 0 /\ alone[g] => Finished(got[g])

CInv == Typed /\ Cached /\ Owned /\ Stacks /\ Built /\ Apart /\ Gets

-----------------------------------------------------------------------------
(* Sequences: the last element replaced, one more, one less.               *)

LEMMA Shorter ==
  ASSUME NEW S, NEW s \in Seq(S), NEW n \in 0 .. Len(s)
  PROVE  /\ SubSeq(s, 1, n) \in Seq(S) /\ Len(SubSeq(s, 1, n)) = n
         /\ \A i \in 1 .. n : SubSeq(s, 1, n)[i] = s[i]
<1>1. n \in Int /\ 1 \in Int /\ \A i \in 1 .. n : s[i] \in S
  OBVIOUS
<1>2. /\ SubSeq(s, 1, n) \in Seq(S)
      /\ Len(SubSeq(s, 1, n)) = IF 1 <= n THEN n - 1 + 1 ELSE 0
      /\ \A i \in 1 .. n - 1 + 1 : SubSeq(s, 1, n)[i] = s[1 + i - 1]
  BY <1>1, SubSeqProperties
<1>3. n - 1 + 1 = n /\ \A i \in 1 .. n : 1 + i - 1 = i
  OBVIOUS
<1> QED BY <1>2, <1>3

LEMMA TopPut ==
  ASSUME NEW S, NEW s \in Seq(S), s # <<>>, NEW x \in S
  PROVE  /\ Front(s) \o <<x>> \in Seq(S)
         /\ Len(Front(s) \o <<x>>) = Len(s)
         /\ (Front(s) \o <<x>>)[Len(s)] = x
         /\ \A i \in 1 .. Len(s) - 1 : (Front(s) \o <<x>>)[i] = s[i]
BY DEF Front

LEMMA TopPush ==
  ASSUME NEW S, NEW s \in Seq(S), s # <<>>, NEW x \in S
  PROVE  /\ Front(s) \o <<Last(s), x>> \in Seq(S)
         /\ Len(Front(s) \o <<Last(s), x>>) = Len(s) + 1
         /\ (Front(s) \o <<Last(s), x>>)[Len(s) + 1] = x
         /\ \A i \in 1 .. Len(s) : (Front(s) \o <<Last(s), x>>)[i] = s[i]
<1> DEFINE p == SubSeq(s, 1, Len(s) - 1)
<1>1. p \in Seq(S) /\ Len(p) = Len(s) - 1 /\ \A i \in 1 .. Len(s) - 1 : p[i] = s[i]
  <2>1. Len(s) - 1 \in 0 .. Len(s)
    OBVIOUS
  <2> QED BY <2>1, Shorter
<1>2. s[Len(s)] \in S
  OBVIOUS
<1> HIDE DEF p
<1> DEFINE q == p \o <<s[Len(s)], x>>
<1>3. q \in Seq(S) /\ Len(q) = Len(s) + 1 /\ q[Len(s) + 1] = x /\ q[Len(s)] = s[Len(s)]
  BY <1>1, <1>2
<1>4. \A i \in 1 .. Len(s) - 1 : q[i] = s[i]
  BY <1>1, <1>2
<1>5. \A i \in 1 .. Len(s) : q[i] = s[i]
  BY <1>3, <1>4
<1>6. Front(s) \o <<Last(s), x>> = q
  BY DEF Front, Last, p
<1> HIDE DEF q
<1> QED BY <1>3, <1>5, <1>6

\* The last two elements replaced by one.
Popping(s, x) == SubSeq(s, 1, Len(s) - 2) \o <<x>>

LEMMA TopPop ==
  ASSUME NEW S, NEW s \in Seq(S), Len(s) > 1, NEW x \in S
  PROVE  /\ Popping(s, x) \in Seq(S) /\ Len(Popping(s, x)) = Len(s) - 1
         /\ Popping(s, x)[Len(s) - 1] = x
         /\ \A i \in 1 .. Len(s) - 2 : Popping(s, x)[i] = s[i]
<1> DEFINE p == SubSeq(s, 1, Len(s) - 2)
<1>1. p \in Seq(S) /\ Len(p) = Len(s) - 2 /\ \A i \in 1 .. Len(s) - 2 : p[i] = s[i]
  <2>1. Len(s) - 2 \in 0 .. Len(s)
    OBVIOUS
  <2> QED BY <2>1, Shorter
<1> HIDE DEF p
<1>2. p \o <<x>> \in Seq(S) /\ Len(p \o <<x>>) = Len(s) - 1 /\ (p \o <<x>>)[Len(s) - 1] = x
  BY <1>1
<1>3. \A i \in 1 .. Len(s) - 2 : (p \o <<x>>)[i] = s[i]
  BY <1>1
<1>4. Popping(s, x) = p \o <<x>>
  BY DEF p, Popping
<1> QED BY <1>2, <1>3, <1>4

LEMMA Put ==
  ASSUME NEW S, NEW s \in Seq(S), NEW n \in DOMAIN s, NEW x \in S
  PROVE  /\ [s EXCEPT ![n] = x] \in Seq(S)
         /\ Len([s EXCEPT ![n] = x]) = Len(s)
         /\ [s EXCEPT ![n] = x][n] = x
         /\ \A i \in DOMAIN s : i # n => [s EXCEPT ![n] = x][i] = s[i]
OBVIOUS

LEMMA OneLess ==
  ASSUME NEW S, NEW s \in Seq(S), s # <<>>
  PROVE  /\ Head(s) \in S /\ Head(s) = s[1]
         /\ Tail(s) \in Seq(S) /\ Len(Tail(s)) = Len(s) - 1
         /\ \A i \in 1 .. Len(s) - 1 : Tail(s)[i] = s[i + 1]
OBVIOUS

-----------------------------------------------------------------------------
(* What every step keeps: model structs get more complete, and one is published over *)
(* another only if that is noted.                                                     *)

Grows ==
  /\ DOMAIN objs \subseteq DOMAIN objs'
  /\ \A o \in DOMAIN objs : /\ objs'[o].type = objs[o].type
                           /\ objs[o].done \subseteq objs'[o].done
                           /\ objs[o].marks \subseteq objs'[o].marks
  /\ \A t \in Types : cache[t] # 0 => cache'[t] # 0 /\ (cache'[t] = cache[t] \/ t \in twice')
  /\ copied \subseteq copied' /\ twice \subseteq twice'

LEMMA Targets ==
  ASSUME NEW t \in Types, NEW i \in DOMAIN Slow[t]
  PROVE  Slow[t][i].kind \in Kinds /\ (Slow[t][i].kind # "late" => Slow[t][i].to \in Types)
BY ModelAssumption

LEMMA SettledStays ==
  ASSUME Typed, Grows, NEW o \in DOMAIN objs, NEW t \in Types, NEW i \in DOMAIN Slow[t],
         Settled(o, t, Slow[t][i])
  PROVE  Settled(o, t, Slow[t][i])'
<1> DEFINE s == Slow[t][i]
<1>1. s.kind = "has" => s.to \in Types
  BY Targets
<1> HIDE DEF s
<1>2. Settled(o, t, s)
  BY DEF s
<1>3. <<t, s.name>> \in objs'[o].done
  BY <1>2 DEF Settled, Grows
<1>4. s.kind = "belongs_to" => <<t, s.name>> \in objs'[o].marks
  BY <1>2 DEF Settled, Grows
<1>5. ASSUME s.kind = "has", s.to \notin twice'
      PROVE  cache'[s.to] # 0 /\ <<t, s.name>> \in objs'[cache'[s.to]].marks
  <2>1. s.to \in Types /\ s.to \notin twice
    BY <1>1, <1>5 DEF Grows
  <2>2. cache[s.to] # 0 /\ <<t, s.name>> \in objs[cache[s.to]].marks
    BY <1>2, <1>5, <2>1 DEF Settled
  <2>3. cache[s.to] \in DOMAIN objs
    BY <2>1, <2>2 DEF Typed
  <2>4. cache'[s.to] = cache[s.to]
    BY <1>5, <2>1, <2>2 DEF Grows
  <2> QED BY <2>2, <2>3, <2>4 DEF Grows
<1>6. Settled(o, t, s)'
  BY <1>3, <1>4, <1>5 DEF Settled
<1> QED BY <1>6 DEF s

LEMMA ThroughStays ==
  ASSUME Typed, Grows, NEW o \in DOMAIN objs, NEW t \in Types, NEW m \in Nat, Through(o, t, m)
  PROVE  Through(o, t, m)'
<1> SUFFICES ASSUME NEW i \in DOMAIN Slow[t], i > m
             PROVE  Settled(o, t, Slow[t][i])'
  BY DEF Through
<1>1. Settled(o, t, Slow[t][i])
  BY DEF Through
<1> QED BY <1>1, SettledStays

LEMMA EmbeddedStays ==
  ASSUME Grows, NEW o \in DOMAIN objs, NEW t \in Types, NEW m \in Nat, Embedded_(o, t, m)
  PROVE  Embedded_(o, t, m)'
BY DEF Grows, Embedded_

LEMMA ObjsTyped ==
  ASSUME Typed, NEW o \in DOMAIN objs
  PROVE  objs[o] \in ObjType /\ objs[o].type \in Types
<1>1. objs[o] \in ObjType
  BY DEF Typed
<1> QED BY <1>1 DEF ObjType

LEMMA FinishedStays ==
  ASSUME Typed, Grows, NEW o \in DOMAIN objs, Finished(o)
  PROVE  Finished(o)'
<1> DEFINE t == objs[o].type
<1>1. t \in Types /\ objs'[o].type = t
  BY ObjsTyped DEF Grows
<1>2. Through(o, t, 0) /\ Embedded_(o, t, 0)
  BY DEF Finished
<1> HIDE DEF t
<1>3. PICK u \in Types : u = t
  BY <1>1
<1>4. Through(o, u, 0)' /\ Embedded_(o, u, 0)'
  BY <1>2, <1>3, ThroughStays, EmbeddedStays
<1> QED BY <1>1, <1>3, <1>4 DEF Finished

LEMMA FrameStays ==
  ASSUME Typed, Grows, NEW f \in FrameType, FrameOK(f)
  PROVE  FrameOK(f)'
<1>1. f.type \in Types /\ f.obj \in Nat /\ Len(f.slow) \in Nat /\ Len(f.embeds) \in Nat
  BY DEF FrameType
<1>2. Left(f)'
  BY DEF FrameOK, Left
<1>3. Done(f)'
  <2> SUFFICES ASSUME f.at # "load"
               PROVE  /\ f.obj \in DOMAIN objs' /\ objs'[f.obj].type = f.type
                      /\ Through(f.obj, f.type, Len(f.slow))' /\ Embedded_(f.obj, f.type, Len(f.embeds))'
    BY DEF Done
  <2>1. /\ f.obj \in DOMAIN objs /\ objs[f.obj].type = f.type
        /\ Through(f.obj, f.type, Len(f.slow)) /\ Embedded_(f.obj, f.type, Len(f.embeds))
    BY DEF FrameOK, Done
  <2>2. f.obj \in DOMAIN objs' /\ objs'[f.obj].type = f.type
    BY <2>1 DEF Grows
  <2>3. Through(f.obj, f.type, Len(f.slow))'
    BY <1>1, <2>1, ThroughStays
  <2>4. Embedded_(f.obj, f.type, Len(f.embeds))'
    BY <1>1, <2>1, EmbeddedStays
  <2> QED BY <2>2, <2>3, <2>4
<1>4. f.at = "defer" => Published(f.obj, f.type)'
  BY <1>1 DEF FrameOK, Published, Grows
<1> QED BY <1>2, <1>3, <1>4 DEF FrameOK

-----------------------------------------------------------------------------
(* Calls of getModelStruct, when one begins, goes on, and returns.         *)

LEMMA StacksKept ==
  ASSUME CInv, Typed', Grows, NEW g \in Goroutines, NEW r \in Seq(FrameType),
         stack' = [stack EXCEPT ![g] = r],
         Chain(r), \A i \in DOMAIN r : FrameOK(r[i])',
         \A o \in DOMAIN objs : \A i \in DOMAIN stack[g] :
           stack[g][i].obj = o /\ ~Finished(o) => \E j \in DOMAIN r : r[j].obj = o,
         \A o \in DOMAIN objs' \ DOMAIN objs : \E j \in DOMAIN r : r[j].obj = o
  PROVE  Stacks' /\ Built'
<1>1. stack'[g] = r /\ \A h \in Goroutines : h # g => stack'[h] = stack[h]
  BY DEF CInv, Typed
<1>2. Stacks'
  <2> SUFFICES ASSUME NEW h \in Goroutines
               PROVE  Chain(stack[h])' /\ \A i \in DOMAIN stack'[h] : FrameOK(stack[h][i])'
    BY DEF Stacks
  <2>1. CASE h = g
    BY <1>1, <2>1 DEF Chain
  <2>2. CASE h # g
    <3>1. stack'[h] = stack[h]
      BY <1>1, <2>2
    <3>2. Chain(stack[h])'
      BY <3>1 DEF CInv, Stacks, Chain
    <3>3. ASSUME NEW i \in DOMAIN stack[h]
          PROVE  FrameOK(stack[h][i])'
      <4>1. PICK f \in FrameType : f = stack[h][i]
        BY DEF CInv, Typed
      <4>2. FrameOK(f)
        BY <4>1 DEF CInv, Stacks
      <4>3. FrameOK(f)'
        BY <4>2, FrameStays DEF CInv
      <4> QED BY <3>1, <4>1, <4>3
    <3> QED BY <3>1, <3>2, <3>3
  <2> QED BY <2>1, <2>2
<1>3. ASSUME NEW o \in DOMAIN objs', ~Finished(o)'
      PROVE  Building(o)'
  <2>1. CASE o \notin DOMAIN objs
    BY <1>1, <2>1 DEF Building
  <2>2. CASE o \in DOMAIN objs
    <3>1. ~Finished(o)
      BY <1>3, <2>2, FinishedStays DEF CInv
    <3>2. PICK h \in Goroutines : \E i \in DOMAIN stack[h] : stack[h][i].obj = o
      BY <2>2, <3>1 DEF CInv, Built, Building
    <3>3. PICK i \in DOMAIN stack[h] : stack[h][i].obj = o
      BY <3>2
    <3>4. CASE h # g
      BY <1>1, <3>3, <3>4 DEF Building
    <3>5. CASE h = g
      <4>1. \E j \in DOMAIN r : r[j].obj = o
        BY <2>2, <3>1, <3>3, <3>5
      <4> QED BY <1>1, <4>1 DEF Building
    <3> QED BY <3>4, <3>5
  <2> QED BY <2>1, <2>2
<1> QED BY <1>2, <1>3 DEF Built

\* The frame of a call that begins.
LEMMA Begun ==
  ASSUME NEW t \in Types
  PROVE  Frame(t) \in FrameType /\ FrameOK(Frame(t)) /\ FrameOK(Frame(t))'
<1>1. PICK ss : ss = Slow[t]
  OBVIOUS
<1>2. PICK es : es = Embeds[t]
  OBVIOUS
<1>3. es \in Seq(Types) /\ ss \in Seq(SlowFields)
  <2>1. Slow[t] \in Seq(ToSet(Slow[t])) /\ ToSet(Slow[t]) \subseteq SlowFields
    BY ModelAssumption DEF SlowFields
  <2> QED BY <1>1, <1>2, <2>1, ModelAssumption
<1>4. /\ Reverse(ss) \in Seq(SlowFields) /\ Len(Reverse(ss)) = Len(ss)
      /\ \A j \in 1 .. Len(ss) : Reverse(ss)[j] = ss[Len(ss) + 1 - j]
  BY <1>3 DEF Reverse
<1>5. PICK f : f = Frame(t)
  OBVIOUS
<1>6. f.type = t /\ f.at = "load" /\ f.obj = 0 /\ f.embeds = es /\ f.slow = Reverse(ss)
  BY <1>1, <1>2, <1>5 DEF Frame
<1>7. f \in FrameType
  BY <1>1, <1>2, <1>3, <1>4, <1>5 DEF Frame, FrameType
<1>8. Left(f)
  BY <1>1, <1>2, <1>3, <1>4, <1>6 DEF Left
<1> QED BY <1>5, <1>6, <1>7, <1>8 DEF FrameOK, Left, Done

LEMMA TopFrame ==
  ASSUME CInv, NEW g \in Goroutines, Busy(g)
  PROVE  /\ stack[g] \in Seq(FrameType) /\ stack[g] # <<>> /\ Len(stack[g]) \in Nat \ {0}
         /\ Len(stack[g]) \in DOMAIN stack[g] /\ Top(g) = stack[g][Len(stack[g])]
         /\ Top(g) \in FrameType /\ FrameOK(Top(g)) /\ Top(g).type \in Types
<1>1. stack[g] \in Seq(FrameType) /\ stack[g] # <<>>
  BY DEF CInv, Typed, Busy
<1>2. Len(stack[g]) \in Nat \ {0} /\ Len(stack[g]) \in DOMAIN stack[g]
  BY <1>1
<1>3. Top(g) = stack[g][Len(stack[g])]
  BY DEF Top, Last
<1>4. Top(g) \in FrameType
  BY <1>1, <1>2, <1>3
<1>5. FrameOK(Top(g))
  BY <1>2, <1>3 DEF CInv, Stacks
<1> QED BY <1>1, <1>2, <1>3, <1>4, <1>5 DEF FrameType

LEMMA FrameBelow ==
  ASSUME CInv, NEW g \in Goroutines, NEW i \in DOMAIN stack[g]
  PROVE  stack[g][i] \in FrameType /\ FrameOK(stack[g][i])
BY DEF CInv, Typed, Stacks

\* The top frame goes on.
LEMMA Replaced ==
  ASSUME CInv, Typed', Grows, NEW g \in Goroutines, Busy(g), NEW f \in FrameType,
         stack' = SetTop(g, f), f.type = Top(g).type, FrameOK(f)',
         Top(g).obj \in {0, f.obj}, \A o \in DOMAIN objs' \ DOMAIN objs : o = f.obj
  PROVE  Stacks' /\ Built'
<1>1. PICK s \in Seq(FrameType) : s = stack[g]
  BY TopFrame
<1>2. PICK n \in Nat \ {0} : n = Len(s)
  BY <1>1, TopFrame
<1>3. s # <<>> /\ Top(g) = s[n]
  BY <1>1, <1>2, TopFrame
<1>4. PICK r : r = Front(s) \o <<f>>
  OBVIOUS
<1>5. r \in Seq(FrameType) /\ Len(r) = n /\ r[n] = f /\ \A i \in 1 .. n - 1 : r[i] = s[i]
  BY <1>2, <1>3, <1>4, TopPut
<1>6. stack' = [stack EXCEPT ![g] = r]
  BY <1>1, <1>4 DEF SetTop
<1>7. Chain(r)
  <2> SUFFICES ASSUME NEW i \in 1 .. n - 1
               PROVE  Waits(r[i], r[i + 1])
    BY <1>5 DEF Chain
  <2> i \in DOMAIN s /\ i + 1 \in DOMAIN s
    BY <1>2
  <2>1. Waits(s[i], s[i + 1])
    BY <1>1 DEF CInv, Stacks, Chain
  <2>2. r[i] = s[i] /\ (i + 1 = n => r[i + 1] = f) /\ (i + 1 # n => r[i + 1] = s[i + 1])
    BY <1>5
  <2>3. r[i + 1].type = s[i + 1].type
    BY <1>3, <2>2
  <2> QED BY <2>1, <2>2, <2>3 DEF Waits
<1>8. ASSUME NEW i \in DOMAIN r
      PROVE  FrameOK(r[i])'
  <2>1. CASE i = n
    BY <1>5, <2>1
  <2>2. CASE i # n
    <3>1. i \in 1 .. n - 1 /\ i \in DOMAIN stack[g]
      BY <1>1, <1>2, <1>5, <2>2
    <3>2. s[i] \in FrameType /\ FrameOK(s[i])
      BY <1>1, <3>1, FrameBelow
    <3>3. FrameOK(s[i])'
      BY <3>2, FrameStays DEF CInv
    <3> QED BY <1>5, <3>1, <3>3
  <2> QED BY <2>1, <2>2
<1>9. ASSUME NEW o \in DOMAIN objs, NEW i \in DOMAIN stack[g], stack[g][i].obj = o
      PROVE  \E j \in DOMAIN r : r[j].obj = o
  <2> o # 0
    BY DEF CInv, Typed
  <2>1. i \in 1 .. n /\ DOMAIN r = 1 .. n
    BY <1>1, <1>2, <1>5
  <2>2. CASE i = n
    BY <1>1, <1>3, <1>5, <1>9, <2>1, <2>2
  <2>3. CASE i # n
    BY <1>1, <1>5, <1>9, <2>1, <2>3
  <2> QED BY <2>2, <2>3
<1>10. \A o \in DOMAIN objs' \ DOMAIN objs : \E j \in DOMAIN r : r[j].obj = o
  <2>1. n \in DOMAIN r
    BY <1>5
  <2> QED BY <1>5, <2>1
<1> QED BY <1>5, <1>6, <1>7, <1>8, <1>9, <1>10, StacksKept

\* A call begins above the top frame.
LEMMA Pushed ==
  ASSUME CInv, Typed', Grows, NEW g \in Goroutines, Busy(g), NEW t \in Types,
         stack' = PushOn(g, Top(g), t), Waits(Top(g), Frame(t)), DOMAIN objs' = DOMAIN objs
  PROVE  Stacks' /\ Built'
<1>1. PICK s \in Seq(FrameType) : s = stack[g]
  BY TopFrame
<1>2. PICK n \in Nat \ {0} : n = Len(s)
  BY <1>1, TopFrame
<1>3. s # <<>> /\ Top(g) = s[n]
  BY <1>1, <1>2, TopFrame
<1>4. PICK f \in FrameType : f = Frame(t) /\ FrameOK(f)
  BY Begun
<1>5. PICK r : r = Front(s) \o <<Last(s), f>>
  OBVIOUS
<1>6. r \in Seq(FrameType) /\ Len(r) = n + 1 /\ r[n + 1] = f /\ \A i \in 1 .. n : r[i] = s[i]
  BY <1>2, <1>3, <1>5, TopPush
<1>7. stack' = [stack EXCEPT ![g] = r]
  BY <1>1, <1>4, <1>5 DEF PushOn, Top
<1>8. Chain(r)
  <2> SUFFICES ASSUME NEW i \in 1 .. n
               PROVE  Waits(r[i], r[i + 1])
    BY <1>6 DEF Chain
  <2>1. CASE i = n
    BY <1>3, <1>4, <1>6, <2>1
  <2>2. CASE i # n
    <3>1. i \in DOMAIN s /\ i + 1 \in DOMAIN s /\ i + 1 \in 1 .. n
      BY <1>2, <2>2
    <3>2. Waits(s[i], s[i + 1])
      BY <1>1, <3>1 DEF CInv, Stacks, Chain
    <3> QED BY <1>6, <3>1, <3>2
  <2> QED BY <2>1, <2>2
<1>9. ASSUME NEW i \in DOMAIN r
      PROVE  FrameOK(r[i])'
  <2>1. CASE i = n + 1
    BY <1>4, <1>6, <2>1, FrameStays DEF CInv
  <2>2. CASE i # n + 1
    <3>1. i \in 1 .. n /\ i \in DOMAIN stack[g]
      BY <1>1, <1>2, <1>6, <2>2
    <3>2. s[i] \in FrameType /\ FrameOK(s[i])
      BY <1>1, <3>1, FrameBelow
    <3>3. FrameOK(s[i])'
      BY <3>2, FrameStays DEF CInv
    <3> QED BY <1>6, <3>1, <3>3
  <2> QED BY <2>1, <2>2
<1>10. ASSUME NEW o \in DOMAIN objs, NEW i \in DOMAIN stack[g], stack[g][i].obj = o
       PROVE  \E j \in DOMAIN r : r[j].obj = o
  <2>1. i \in 1 .. n /\ i \in DOMAIN r
    BY <1>1, <1>2, <1>6
  <2> QED BY <1>1, <1>6, <1>10, <2>1
<1>11. r \in Seq(FrameType) /\ DOMAIN objs' = DOMAIN objs
  BY <1>6
<1> QED BY <1>7, <1>8, <1>9, <1>10, <1>11, StacksKept

\* The top frame returns to the one below.
LEMMA Popped ==
  ASSUME CInv, Typed', Grows, NEW g \in Goroutines, Len(stack[g]) > 1, NEW f \in FrameType,
         stack' = [stack EXCEPT ![g] = Popping(@, f)],
         f.type = stack[g][Len(stack[g]) - 1].type, f.obj = stack[g][Len(stack[g]) - 1].obj,
         FrameOK(f)', \A o \in DOMAIN objs : Top(g).obj = o => Finished(o), DOMAIN objs' = DOMAIN objs
  PROVE  Stacks' /\ Built'
<1>1. PICK s \in Seq(FrameType) : s = stack[g]
  BY DEF CInv, Typed
<1>2. PICK n \in Nat : n = Len(s) /\ n > 1
  BY <1>1
<1>3. Top(g) = s[n]
  BY <1>1, <1>2 DEF Top, Last
<1>4. PICK r : r = Popping(s, f)
  OBVIOUS
<1>5. r \in Seq(FrameType) /\ Len(r) = n - 1 /\ r[n - 1] = f /\ \A i \in 1 .. n - 2 : r[i] = s[i]
  <2>1. /\ Popping(s, f) \in Seq(FrameType) /\ Len(Popping(s, f)) = Len(s) - 1
        /\ Popping(s, f)[Len(s) - 1] = f
        /\ \A i \in 1 .. Len(s) - 2 : Popping(s, f)[i] = s[i]
    <3>1. Len(s) > 1
      BY <1>2
    <3> QED BY <3>1, TopPop
  <2> QED BY <1>2, <1>4, <2>1
<1>6. stack' = [stack EXCEPT ![g] = r]
  BY <1>1, <1>4 DEF Popping
<1>7. Chain(r)
  <2> SUFFICES ASSUME NEW i \in 1 .. n - 2
               PROVE  Waits(r[i], r[i + 1])
    BY <1>2, <1>5 DEF Chain
  <2> i \in DOMAIN s /\ i + 1 \in DOMAIN s
    BY <1>2
  <2>1. Waits(s[i], s[i + 1])
    BY <1>1 DEF CInv, Stacks, Chain
  <2>2. r[i] = s[i] /\ (i + 1 = n - 1 => r[i + 1] = f) /\ (i + 1 # n - 1 => r[i + 1] = s[i + 1])
    <3>1. i + 1 = n - 1 \/ i + 1 \in 1 .. n - 2
      BY <1>2
    <3> QED BY <1>2, <1>5, <3>1
  <2>3. r[i + 1].type = s[i + 1].type
    BY <1>1, <1>2, <2>2
  <2> QED BY <2>1, <2>2, <2>3 DEF Waits
<1>8. ASSUME NEW i \in DOMAIN r
      PROVE  FrameOK(r[i])'
  <2>1. CASE i = n - 1
    BY <1>5, <2>1
  <2>2. CASE i # n - 1
    <3>1. i \in 1 .. n - 2 /\ i \in DOMAIN stack[g]
      BY <1>1, <1>2, <1>5, <2>2
    <3>2. s[i] \in FrameType /\ FrameOK(s[i])
      BY <1>1, <3>1, FrameBelow
    <3>3. FrameOK(s[i])'
      BY <3>2, FrameStays DEF CInv
    <3> QED BY <1>5, <3>1, <3>3
  <2> QED BY <2>1, <2>2
<1>9. ASSUME NEW o \in DOMAIN objs, NEW i \in DOMAIN stack[g], stack[g][i].obj = o, ~Finished(o)
      PROVE  \E j \in DOMAIN r : r[j].obj = o
  <2>1. i \in 1 .. n /\ DOMAIN r = 1 .. n - 1
    BY <1>1, <1>2, <1>5
  <2>2. CASE i = n
    BY <1>1, <1>3, <1>9, <2>2
  <2>3. CASE i = n - 1
    <3>1. n - 1 \in DOMAIN r /\ r[n - 1] = f
      BY <1>2, <1>5
    <3>2. f.obj = s[n - 1].obj
      BY <1>1, <1>2
    <3> QED BY <1>1, <1>9, <2>3, <3>1, <3>2
  <2>4. CASE i # n /\ i # n - 1
    <3>1. i \in 1 .. n - 2 /\ i \in DOMAIN r
      BY <1>2, <2>1, <2>4
    <3>2. r[i] = s[i]
      BY <1>5, <3>1
    <3> QED BY <1>1, <1>9, <3>1, <3>2
  <2> QED BY <2>1, <2>2, <2>3, <2>4
<1>10. \A o \in DOMAIN objs' \ DOMAIN objs : \E j \in DOMAIN r : r[j].obj = o
  OBVIOUS
<1> QED BY <1>5, <1>6, <1>7, <1>8, <1>9, <1>10, StacksKept

\* The only frame returns to the use.
LEMMA Emptied ==
  ASSUME CInv, Typed', Grows, NEW g \in Goroutines, Len(stack[g]) = 1,
         stack' = [stack EXCEPT ![g] = <<>>],
         \A o \in DOMAIN objs : Top(g).obj = o => Finished(o), DOMAIN objs' = DOMAIN objs
  PROVE  Stacks' /\ Built'
<1>1. PICK r : r = <<>>
  OBVIOUS
<1>2. r \in Seq(FrameType) /\ DOMAIN r = {} /\ stack' = [stack EXCEPT ![g] = r]
  BY <1>1
<1>3. Chain(r) /\ \A i \in DOMAIN r : FrameOK(r[i])'
  BY <1>2 DEF Chain
<1>4. ASSUME NEW o \in DOMAIN objs, NEW i \in DOMAIN stack[g], stack[g][i].obj = o, ~Finished(o)
      PROVE  \E j \in DOMAIN r : r[j].obj = o
  <2>1. stack[g] \in Seq(FrameType)
    BY DEF CInv, Typed
  <2>2. i = 1 /\ stack[g][i] = Top(g)
    BY <2>1 DEF Top, Last
  <2> QED BY <1>4, <2>2
<1>5. \A o \in DOMAIN objs' \ DOMAIN objs : \E j \in DOMAIN r : r[j].obj = o
  OBVIOUS
<1> QED BY <1>2, <1>3, <1>4, <1>5, StacksKept

\* A use begins.
LEMMA Uses ==
  ASSUME CInv, Typed', Grows, NEW g \in Goroutines, ~Busy(g), NEW t \in Types,
         stack' = [stack EXCEPT ![g] = <<Frame(t)>>], DOMAIN objs' = DOMAIN objs
  PROVE  Stacks' /\ Built'
<1>1. PICK f \in FrameType : f = Frame(t) /\ FrameOK(f)
  BY Begun
<1>2. PICK r : r = <<f>>
  OBVIOUS
<1>3. r \in Seq(FrameType) /\ DOMAIN r = {1} /\ r[1] = f /\ stack' = [stack EXCEPT ![g] = r]
  BY <1>1, <1>2
<1>4. FrameOK(f)'
  BY <1>1, FrameStays DEF CInv
<1>5. Chain(r) /\ \A i \in DOMAIN r : FrameOK(r[i])'
  BY <1>3, <1>4 DEF Chain
<1>6. DOMAIN stack[g] = {}
  BY DEF Busy
<1> QED BY <1>3, <1>5, <1>6, StacksKept

-----------------------------------------------------------------------------
(* What a call has done, when it has done one thing more.                  *)

LEMMA Shapes ==
  ASSUME NEW t \in Types
  PROVE  /\ Embeds[t] \in Seq(Types) /\ Len(Embeds[t]) \in Nat
         /\ Slow[t] \in Seq(SlowFields) /\ Len(Slow[t]) \in Nat
         /\ DOMAIN Embeds[t] = 1 .. Len(Embeds[t]) /\ DOMAIN Slow[t] = 1 .. Len(Slow[t])
<1>1. Slow[t] \in Seq(ToSet(Slow[t])) /\ ToSet(Slow[t]) \subseteq SlowFields
  BY ModelAssumption DEF SlowFields
<1>2. Slow[t] \in Seq(SlowFields)
  BY <1>1
<1>3. Embeds[t] \in Seq(Types)
  BY ModelAssumption
<1> QED BY <1>2, <1>3

\* A deferred builder has run.
LEMMA BuilderRan ==
  ASSUME Typed, Grows, NEW f \in FrameType, FrameOK(f), f.at = "defer", f.slow # <<>>,
         NEW e, e = [f EXCEPT !.slow = Tail(@)], Settled(f.obj, f.type, Head(f.slow))'
  PROVE  e \in FrameType /\ FrameOK(e)'
<1>1. f.type \in Types /\ f.slow \in Seq(SlowFields) /\ f.embeds \in Seq(Types) /\ f.obj \in Nat
  BY DEF FrameType
<1>2. PICK m \in Nat \ {0} : m = Len(f.slow)
  BY <1>1
<1>3. /\ Tail(f.slow) \in Seq(SlowFields) /\ Len(Tail(f.slow)) = m - 1 /\ Head(f.slow) = f.slow[1]
      /\ \A j \in 1 .. m - 1 : Tail(f.slow)[j] = f.slow[j + 1]
  BY <1>1, <1>2, OneLess
<1>4. /\ e.type = f.type /\ e.at = f.at /\ e.obj = f.obj /\ e.embeds = f.embeds
      /\ e.slow = Tail(f.slow)
  BY DEF FrameType
<1>5. e \in FrameType
  BY <1>3 DEF FrameType
<1>6. m <= Len(Slow[f.type]) /\ \A j \in 1 .. m : f.slow[j] = Slow[f.type][m + 1 - j]
  BY <1>2 DEF FrameOK, Left
<1>7. Left(e)
  <2>1. Len(Slow[f.type]) \in Nat
    BY <1>1, Shapes
  <2>2. \A j \in 1 .. m - 1 : Tail(f.slow)[j] = Slow[f.type][m - 1 + 1 - j]
    <3> SUFFICES ASSUME NEW j \in 1 .. m - 1
                 PROVE  Tail(f.slow)[j] = Slow[f.type][m - 1 + 1 - j]
      OBVIOUS
    <3>1. Tail(f.slow)[j] = f.slow[j + 1]
      BY <1>3
    <3>2. f.slow[j + 1] = Slow[f.type][m + 1 - (j + 1)]
      <4>1. j + 1 \in 1 .. m
        OBVIOUS
      <4> QED BY <1>6, <4>1
    <3>3. m + 1 - (j + 1) = m - 1 + 1 - j
      OBVIOUS
    <3> QED BY <3>1, <3>2, <3>3
  <2>3. m - 1 <= Len(Slow[f.type])
    BY <1>6, <2>1
  <2>4. Left(f)
    BY DEF FrameOK
  <2>5. Len(e.slow) = m - 1 /\ \A j \in 1 .. Len(e.slow) : e.slow[j] = Slow[e.type][Len(e.slow) + 1 - j]
    BY <1>3, <1>4, <2>2
  <2>6. Len(e.slow) <= Len(Slow[e.type])
    BY <1>4, <2>3, <2>5
  <2> QED BY <1>4, <2>4, <2>5, <2>6 DEF Left
<1>8. Done(f)' /\ Published(f.obj, f.type)' /\ f.obj \in DOMAIN objs
  <2>1. FrameOK(f)'
    BY FrameStays
  <2> QED BY <2>1 DEF FrameOK, Done
<1>9. Through(f.obj, f.type, m - 1)'
  <2> SUFFICES ASSUME NEW i \in DOMAIN Slow[f.type], i > m - 1
               PROVE  Settled(f.obj, f.type, Slow[f.type][i])'
    BY DEF Through
  <2>0. i \in Nat
    BY <1>1, Shapes
  <2>1. CASE i > m
    <3>1. Through(f.obj, f.type, m)'
      BY <1>2, <1>8 DEF Done
    <3> QED BY <2>1, <3>1 DEF Through
  <2>2. CASE i = m
    <3>1. Slow[f.type][i] = Head(f.slow)
      <4>1. 1 \in 1 .. m /\ m + 1 - 1 = i
        BY <2>2
      <4>2. f.slow[1] = Slow[f.type][m + 1 - 1]
        BY <1>6, <4>1
      <4> QED BY <1>3, <4>1, <4>2
    <3> QED BY <3>1
  <2> QED BY <2>0, <2>1, <2>2
<1>10. Done(e)'
  BY <1>3, <1>4, <1>8, <1>9 DEF Done
<1> QED BY <1>4, <1>5, <1>7, <1>8, <1>10 DEF FrameOK, Left

\* The fields of an embedded struct are copied.
LEMMA StructCopied ==
  ASSUME Typed, Grows, NEW f \in FrameType, FrameOK(f), f.at = "fields", f.embeds # <<>>,
         NEW e, e = [f EXCEPT !.embeds = Tail(@)],
         f.obj \in copied' \/ OwnSlow(Head(f.embeds)) \subseteq objs'[f.obj].done
  PROVE  e \in FrameType /\ FrameOK(e)'
<1>1. f.type \in Types /\ f.slow \in Seq(SlowFields) /\ f.embeds \in Seq(Types) /\ f.obj \in Nat
  BY DEF FrameType
<1>2. PICK m \in Nat \ {0} : m = Len(f.embeds)
  BY <1>1
<1>3. /\ Tail(f.embeds) \in Seq(Types) /\ Len(Tail(f.embeds)) = m - 1 /\ Head(f.embeds) = f.embeds[1]
      /\ \A j \in 1 .. m - 1 : Tail(f.embeds)[j] = f.embeds[j + 1]
  BY <1>1, <1>2, OneLess
<1>4. /\ e.type = f.type /\ e.at = f.at /\ e.obj = f.obj /\ e.slow = f.slow
      /\ e.embeds = Tail(f.embeds)
  BY DEF FrameType
<1>5. e \in FrameType
  BY <1>3 DEF FrameType
<1>6. PICK n \in Nat : n = Len(Embeds[f.type])
  BY <1>1, Shapes
<1>7. m <= n /\ \A j \in 1 .. m : f.embeds[j] = Embeds[f.type][n - m + j]
  BY <1>2, <1>6 DEF FrameOK, Left
<1>8. Left(e)
  <2>1. \A j \in 1 .. m - 1 : Tail(f.embeds)[j] = Embeds[f.type][n - (m - 1) + j]
    <3> SUFFICES ASSUME NEW j \in 1 .. m - 1
                 PROVE  Tail(f.embeds)[j] = Embeds[f.type][n - (m - 1) + j]
      OBVIOUS
    <3>1. Tail(f.embeds)[j] = f.embeds[j + 1]
      BY <1>3
    <3>2. f.embeds[j + 1] = Embeds[f.type][n - m + (j + 1)]
      <4>1. j + 1 \in 1 .. m
        OBVIOUS
      <4> QED BY <1>7, <4>1
    <3>3. n - m + (j + 1) = n - (m - 1) + j
      OBVIOUS
    <3> QED BY <3>1, <3>2, <3>3
  <2>2. m - 1 <= n
    BY <1>7
  <2>3. Left(f)
    BY DEF FrameOK
  <2>4. Len(e.embeds) = m - 1 /\ Len(Embeds[e.type]) = n
    BY <1>3, <1>4, <1>6
  <2>5. Len(e.embeds) <= Len(Embeds[e.type])
    BY <2>2, <2>4
  <2>6. \A j \in 1 .. Len(e.embeds) :
          e.embeds[j] = Embeds[e.type][Len(Embeds[e.type]) - Len(e.embeds) + j]
    <3>1. \A j \in 1 .. m - 1 : e.embeds[j] = Embeds[e.type][n - (m - 1) + j]
      BY <1>4, <2>1
    <3> QED BY <2>4, <3>1
  <2> QED BY <1>4, <2>3, <2>5, <2>6 DEF Left
<1>9. Done(f)' /\ f.obj \in DOMAIN objs
  <2>1. FrameOK(f)'
    BY FrameStays
  <2> QED BY <2>1 DEF FrameOK, Done
<1>10. Embedded_(f.obj, f.type, m - 1)'
  <2> SUFFICES ASSUME f.obj \notin copied', NEW i \in DOMAIN Embeds[f.type], i + (m - 1) <= n
               PROVE  OwnSlow(Embeds[f.type][i]) \subseteq objs'[f.obj].done
    BY <1>6 DEF Embedded_
  <2>0. i \in Nat
    BY <1>1, Shapes
  <2>1. CASE i + m <= n
    <3>1. Embedded_(f.obj, f.type, m)'
      BY <1>2, <1>9 DEF Done
    <3> QED BY <1>6, <2>1, <3>1 DEF Embedded_
  <2>2. CASE i + m = n + 1
    <3>1. Embeds[f.type][i] = Head(f.embeds)
      <4>1. 1 \in 1 .. m /\ n - m + 1 = i
        BY <2>0, <2>2
      <4>2. f.embeds[1] = Embeds[f.type][n - m + 1]
        BY <1>7, <4>1
      <4> QED BY <1>3, <4>1, <4>2
    <3> QED BY <3>1
  <2> QED BY <2>0, <2>1, <2>2
<1>11. Done(e)'
  BY <1>3, <1>4, <1>9, <1>10 DEF Done
<1> QED BY <1>4, <1>5, <1>8, <1>11 DEF FrameOK, Left

-----------------------------------------------------------------------------
(* The other parts of the invariant.                                       *)

LEMMA GetsKept ==
  ASSUME CInv, Grows, \A h \in Goroutines : got'[h] \in {0} \cup DOMAIN objs,
         \A h \in Goroutines, o \in DOMAIN objs :
           got'[h] = o /\ alone'[h] => Finished(o) \/ (got[h] = o /\ alone[h])
  PROVE  Gets'
<1> SUFFICES ASSUME NEW h \in Goroutines, got'[h] # 0, alone'[h]
             PROVE  Finished(got[h])'
  BY DEF Gets
<1>1. PICK o \in DOMAIN objs : o = got'[h]
  OBVIOUS
<1>2. CASE Finished(o)
  BY <1>1, <1>2, FinishedStays DEF CInv
<1>3. CASE got[h] = o /\ alone[h]
  <2>1. o # 0
    BY <1>1
  <2>2. Finished(o)
    BY <1>3, <2>1 DEF CInv, Gets
  <2> QED BY <1>1, <2>2, FinishedStays DEF CInv
<1> QED BY <1>1, <1>2, <1>3

LEMMA ApartKept ==
  ASSUME CInv, NEW g \in Goroutines, Busy(g), NEW r, stack' = [stack EXCEPT ![g] = r],
         UNCHANGED alone
  PROVE  Apart'
<1> SUFFICES ASSUME NEW h \in Goroutines, alone[h], Busy(h)', NEW k \in Goroutines \ {h}
             PROVE  ~Busy(k)'
  BY DEF Apart
<1>1. \A i \in Goroutines : i # g => (Busy(i)' <=> Busy(i))
  BY DEF CInv, Typed, Busy
<1>2. CASE h = g
  BY <1>1, <1>2 DEF CInv, Apart
<1>3. CASE h # g
  BY <1>1, <1>3 DEF CInv, Apart
<1> QED BY <1>2, <1>3

LEMMA CachedKept ==
  ASSUME CInv, Grows, UNCHANGED cache
  PROVE  Cached'
<1> SUFFICES ASSUME NEW t \in Types, cache[t] # 0
             PROVE  objs'[cache[t]].type = t
  BY DEF Cached
<1>1. cache[t] \in DOMAIN objs
  BY DEF CInv, Typed
<1> QED BY <1>1 DEF CInv, Cached, Grows

\* Fields that are completed late.
LEMMA Parts ==
  ASSUME NEW t \in Types
  PROVE  /\ OwnSlow(t) \subseteq Fields /\ OwnSlow(t) \subseteq SlowOf[t] /\ SlowOf[t] \subseteq Fields
         /\ Joins(t) \subseteq Fields
         /\ \A i \in DOMAIN Slow[t] : <<t, Slow[t][i].name>> \in OwnSlow(t)
<1>1. SlowOf[t] = OwnSlow(t) \cup UNION {OwnSlow(Embeds[t][i]) : i \in DOMAIN Embeds[t]}
  BY DEF SlowOf
<1>2. \A u \in Types : OwnSlow(u) \subseteq Fields
  BY DEF Fields
<1>3. \A i \in DOMAIN Embeds[t] : Embeds[t][i] \in Types
  BY Shapes
<1>4. SlowOf[t] \subseteq Fields
  BY <1>1, <1>2, <1>3
<1>5. \A u \in Types : OwnJoins(u) \subseteq OwnSlow(u)
  BY DEF OwnJoins, OwnSlow, ToSet
<1>6. Joins(t) \subseteq Fields
  BY <1>2, <1>3, <1>5 DEF Joins
<1>7. \A i \in DOMAIN Slow[t] : <<t, Slow[t][i].name>> \in OwnSlow(t)
  BY DEF OwnSlow
<1> QED BY <1>1, <1>2, <1>4, <1>6, <1>7

LEMMA PartsOf ==
  ASSUME NEW t \in Types, NEW i \in DOMAIN Embeds[t]
  PROVE  /\ Embeds[t][i] \in Types /\ OwnSlow(Embeds[t][i]) = SlowOf[Embeds[t][i]]
         /\ SlowOf[Embeds[t][i]] \subseteq SlowOf[t]
<1>1. PICK u : u = Embeds[t][i]
  OBVIOUS
<1>2. u \in Types /\ Embeds[u] = <<>>
  BY <1>1, Shapes, EmbedAssumption
<1>3. SlowOf[u] = OwnSlow(u) \cup UNION {OwnSlow(Embeds[u][j]) : j \in DOMAIN Embeds[u]}
  BY <1>2 DEF SlowOf
<1>4. DOMAIN Embeds[u] = {}
  BY <1>2
<1>5. SlowOf[u] = OwnSlow(u)
  BY <1>3, <1>4
<1>6. SlowOf[t] = OwnSlow(t) \cup UNION {OwnSlow(Embeds[t][j]) : j \in DOMAIN Embeds[t]}
  BY DEF SlowOf
<1> QED BY <1>1, <1>2, <1>5, <1>6

-----------------------------------------------------------------------------
(* The steps.                                                              *)

LEMMA UseStep ==
  ASSUME CInv, NEW g \in Goroutines, NEW t \in Types, NEW j, Use(g, t, j)
  PROVE  CInv'
<1>1. /\ ~Busy(g) /\ stack' = [stack EXCEPT ![g] = <<Frame(t)>>]
      /\ got' = [got EXCEPT ![g] = 0] /\ UNCHANGED <<objs, cache, copied, twice>>
  BY DEF Use
<1>2. alone' = [h \in Goroutines |-> IF h = g THEN \A k \in Goroutines : ~Busy(k)
                                     ELSE alone[h] /\ ~Busy(h)]
  BY DEF Use
<1>3. Typed'
  <2>1. PICK r : r = <<Frame(t)>>
    OBVIOUS
  <2>2. r \in Seq(FrameType)
    BY <2>1, Begun
  <2>3. stack' \in [Goroutines -> Seq(FrameType)]
    BY <1>1, <2>1, <2>2 DEF CInv, Typed
  <2>4. got' \in [Goroutines -> 0 .. Len(objs')]
    BY <1>1 DEF CInv, Typed
  <2>5. alone' \in [Goroutines -> BOOLEAN]
    BY <1>2 DEF CInv, Typed
  <2> QED BY <1>1, <2>3, <2>4, <2>5 DEF CInv, Typed
<1>4. Grows
  BY <1>1 DEF Grows
<1>5. Stacks' /\ Built'
  BY <1>1, <1>3, <1>4, Uses
<1>6. Apart'
  <2> SUFFICES ASSUME NEW h \in Goroutines, alone'[h], Busy(h)', NEW k \in Goroutines \ {h}
               PROVE  ~Busy(k)'
    BY DEF Apart
  <2>1. \A i \in Goroutines : i # g => (Busy(i)' <=> Busy(i))
    BY <1>1 DEF CInv, Typed, Busy
  <2>2. h = g
    BY <1>2, <2>1
  <2> QED BY <1>2, <2>1, <2>2
<1>7. Gets'
  <2>1. \A h \in Goroutines : got'[h] \in {0} \cup DOMAIN objs
    BY <1>1 DEF CInv, Typed
  <2>2. ASSUME NEW h \in Goroutines, NEW o \in DOMAIN objs, got'[h] = o, alone'[h]
        PROVE  got[h] = o /\ alone[h]
    <3>1. o # 0
      BY DEF CInv, Typed
    <3>2. h # g
      BY <1>1, <2>2, <3>1 DEF CInv, Typed
    <3> QED BY <1>1, <1>2, <2>2, <3>2 DEF CInv, Typed
  <2> QED BY <1>4, <2>1, <2>2, GetsKept
<1>8. Cached' /\ Owned'
  BY <1>1 DEF CInv, Cached, Owned
<1> QED BY <1>3, <1>5, <1>6, <1>7, <1>8 DEF CInv

\* Steps that return to no use.
LEMMA Goes ==
  ASSUME CInv, Grows, Typed', Stacks', Built', Owned', Cached', NEW g \in Goroutines, Busy(g),
         NEW r, stack' = [stack EXCEPT ![g] = r], UNCHANGED <<alone, got>>
  PROVE  CInv'
<1>1. Apart'
  BY ApartKept
<1>2. Gets'
  <2>1. \A h \in Goroutines : got'[h] \in {0} \cup DOMAIN objs
    BY DEF CInv, Typed
  <2>2. \A h \in Goroutines, o \in DOMAIN objs : got'[h] = o /\ alone'[h] => got[h] = o /\ alone[h]
    OBVIOUS
  <2> QED BY <2>1, <2>2, GetsKept
<1> QED BY <1>1, <1>2 DEF CInv

LEMMA MissStep ==
  ASSUME CInv, NEW g \in Goroutines, Load(g), cache[Top(g).type] = 0
  PROVE  CInv'
<1>1. /\ Busy(g) /\ Top(g).at = "load"
      /\ objs' = Append(objs, [type |-> Top(g).type, done |-> {}, marks |-> {}, custom |-> {}])
      /\ stack' = SetTop(g, [Top(g) EXCEPT !.at = "fields", !.obj = Len(objs) + 1])
      /\ UNCHANGED <<cache, got, alone, copied, twice>>
  BY DEF Load
<1>2. PICK f \in FrameType : f = Top(g) /\ FrameOK(f)
  BY <1>1, TopFrame
<1>3. PICK n \in Nat : n = Len(objs)
  BY DEF CInv, Typed
<1>4. PICK x : x = [type |-> f.type, done |-> {}, marks |-> {}, custom |-> {}]
  OBVIOUS
<1>5. x \in ObjType /\ x.type = f.type /\ x.done = {}
  BY <1>4 DEF ObjType, FrameType
<1>6. objs \in Seq(ObjType) /\ objs' = Append(objs, x)
  BY <1>1, <1>2, <1>4 DEF CInv, Typed
<1>7. /\ objs' \in Seq(ObjType) /\ Len(objs') = n + 1 /\ objs'[n + 1] = x
      /\ DOMAIN objs' = 1 .. n + 1 /\ DOMAIN objs = 1 .. n
      /\ \A i \in 1 .. n : objs'[i] = objs[i]
  BY <1>3, <1>5, <1>6
<1>8. Grows
  <2>1. DOMAIN objs \subseteq DOMAIN objs'
    BY <1>7
  <2>2. \A i \in DOMAIN objs : objs'[i] = objs[i]
    BY <1>7
  <2> QED BY <1>1, <2>1, <2>2 DEF Grows
<1>9. PICK e : e = [f EXCEPT !.at = "fields", !.obj = n + 1]
  OBVIOUS
<1>10. /\ e \in FrameType /\ e.type = f.type /\ e.at = "fields" /\ e.obj = n + 1
       /\ e.embeds = f.embeds /\ e.slow = f.slow
  <2>1. PICK h : h = [f EXCEPT !.at = "fields"]
    OBVIOUS
  <2>2. h \in FrameType /\ h.type = f.type /\ h.at = "fields" /\ h.embeds = f.embeds /\ h.slow = f.slow
    BY <2>1 DEF FrameType
  <2>3. e = [h EXCEPT !.obj = n + 1] /\ n + 1 \in Nat
    BY <1>9, <2>1
  <2> QED BY <2>2, <2>3 DEF FrameType
<1>11. stack' = SetTop(g, e)
  BY <1>1, <1>2, <1>3, <1>9
<1>12. PICK r : stack' = [stack EXCEPT ![g] = r] /\ r = Front(stack[g]) \o <<e>>
  BY <1>11 DEF SetTop
<1>13. Typed'
  <2>1. r \in Seq(FrameType)
    BY <1>1, <1>10, <1>12, TopFrame, TopPut
  <2>2. stack' \in [Goroutines -> Seq(FrameType)]
    BY <1>12, <2>1 DEF CInv, Typed
  <2>3. cache' \in [Types -> 0 .. Len(objs')] /\ got' \in [Goroutines -> 0 .. Len(objs')]
    <3>1. 0 .. Len(objs) \subseteq 0 .. Len(objs')
      BY <1>3, <1>7
    <3> QED BY <1>1, <3>1 DEF CInv, Typed
  <2> QED BY <1>1, <1>7, <2>2, <2>3 DEF CInv, Typed
<1>14. FrameOK(e)'
  <2>1. Left(f) /\ f.at = "load" /\ f.obj = 0 /\ Len(f.embeds) = Len(Embeds[f.type]) /\ Len(f.slow) = Len(Slow[f.type])
    BY <1>1, <1>2 DEF FrameOK, Left
  <2>2. Left(e)
    BY <1>10, <2>1 DEF Left
  <2>3. f.type \in Types
    BY DEF FrameType
  <2>4. Through(e.obj, e.type, Len(e.slow))'
    BY <1>10, <2>1, <2>3, Shapes DEF Through
  <2>5. Embedded_(e.obj, e.type, Len(e.embeds))'
    <3>1. \A i \in DOMAIN Embeds[f.type] : ~(i + Len(f.embeds) <= Len(Embeds[f.type]))
      BY <2>1, <2>3, Shapes
    <3> QED BY <1>10, <3>1 DEF Embedded_
  <2>6. Done(e)'
    BY <1>5, <1>7, <1>10, <2>4, <2>5 DEF Done
  <2> QED BY <1>10, <2>2, <2>6 DEF FrameOK, Left
<1>15. Stacks' /\ Built'
  <2>1. Top(g).obj = 0
    BY <1>1, <1>2 DEF FrameOK, Left
  <2>2. \A o \in DOMAIN objs' \ DOMAIN objs : o = e.obj
    BY <1>7, <1>10
  <2> QED BY <1>1, <1>2, <1>8, <1>10, <1>11, <1>13, <1>14, <2>1, <2>2, Replaced
<1>16. Owned'
  <2> SUFFICES ASSUME NEW i \in 1 .. n + 1
               PROVE  objs'[i].done \subseteq SlowOf[objs'[i].type]
    BY <1>7 DEF Owned
  <2>1. CASE i = n + 1
    BY <1>5, <1>7, <2>1
  <2>2. CASE i # n + 1
    BY <1>7, <2>2 DEF CInv, Owned
  <2> QED BY <2>1, <2>2
<1>17. Cached'
  BY <1>1, <1>8, CachedKept
<1> QED BY <1>1, <1>8, <1>12, <1>13, <1>15, <1>16, <1>17, Goes

LEMMA EmbeddedStep ==
  ASSUME CInv, NEW g \in Goroutines, Embedded(g)
  PROVE  CInv'
<1>1. /\ Busy(g) /\ Top(g).at = "fields" /\ Top(g).embeds # <<>>
      /\ stack' = PushOn(g, Top(g), Head(Top(g).embeds))
      /\ UNCHANGED <<objs, cache, got, alone, copied, twice>>
  BY DEF Embedded
<1>2. PICK f \in FrameType : f = Top(g)
  BY <1>1, TopFrame
<1>3. PICK t \in Types : t = Head(f.embeds)
  <2>1. f.embeds \in Seq(Types) /\ f.embeds # <<>>
    BY <1>1, <1>2 DEF FrameType
  <2> QED BY <2>1
<1>4. stack' = PushOn(g, Top(g), t) /\ Waits(Top(g), Frame(t))
  BY <1>1, <1>2, <1>3 DEF Waits, Frame
<1>5. PICK r : stack' = [stack EXCEPT ![g] = r] /\ r = Front(stack[g]) \o <<Top(g), Frame(t)>>
  BY <1>4 DEF PushOn
<1>6. Typed'
  <2>1. r \in Seq(FrameType)
    <3>1. PICK s \in Seq(FrameType) : s = stack[g] /\ s # <<>>
      BY <1>1, TopFrame
    <3>2. PICK e \in FrameType : e = Frame(t)
      BY Begun
    <3>3. r = Front(s) \o <<Last(s), e>>
      BY <1>5, <3>1, <3>2 DEF Top
    <3> QED BY <3>1, <3>3, TopPush
  <2>2. stack' \in [Goroutines -> Seq(FrameType)]
    BY <1>5, <2>1 DEF CInv, Typed
  <2> QED BY <1>1, <2>2 DEF CInv, Typed
<1>7. Grows
  BY <1>1 DEF Grows
<1>8. Stacks' /\ Built'
  BY <1>1, <1>4, <1>6, <1>7, Pushed
<1>9. Cached' /\ Owned'
  BY <1>1 DEF CInv, Cached, Owned
<1> QED BY <1>1, <1>5, <1>6, <1>7, <1>8, <1>9, Goes

LEMMA StoreStep ==
  ASSUME CInv, NEW g \in Goroutines, Store(g)
  PROVE  CInv'
<1>1. /\ Busy(g) /\ Top(g).at = "fields" /\ Top(g).embeds = <<>>
      /\ cache' = [cache EXCEPT ![Top(g).type] = Top(g).obj]
      /\ twice' = IF cache[Top(g).type] # 0 THEN twice \cup {Top(g).type} ELSE twice
      /\ stack' = SetTop(g, [Top(g) EXCEPT !.at = "defer"])
      /\ UNCHANGED <<objs, got, alone, copied>>
  BY DEF Store
<1>2. PICK f \in FrameType : f = Top(g) /\ FrameOK(f)
  BY <1>1, TopFrame
<1>3. PICK e : e = [f EXCEPT !.at = "defer"]
  OBVIOUS
<1>4. /\ e \in FrameType /\ e.type = f.type /\ e.at = "defer" /\ e.obj = f.obj
      /\ e.embeds = f.embeds /\ e.slow = f.slow
  BY <1>3 DEF FrameType
<1>5. /\ f.type \in Types /\ f.obj \in DOMAIN objs /\ objs[f.obj].type = f.type /\ f.obj # 0
      /\ f.obj \in 0 .. Len(objs)
  <2>1. f.obj \in DOMAIN objs /\ objs[f.obj].type = f.type
    BY <1>1, <1>2 DEF FrameOK, Done
  <2>2. objs \in Seq(ObjType)
    BY DEF CInv, Typed
  <2> QED BY <2>1, <2>2 DEF FrameType
<1>6. cache'[f.type] = f.obj /\ \A t \in Types : t # f.type => cache'[t] = cache[t]
  BY <1>1, <1>2, <1>5 DEF CInv, Typed
<1>7. Grows
  <2>1. ASSUME NEW t \in Types, cache[t] # 0
        PROVE  cache'[t] # 0 /\ (cache'[t] = cache[t] \/ t \in twice')
    BY <1>1, <1>2, <1>5, <1>6, <2>1
  <2>2. twice \subseteq twice'
    BY <1>1
  <2> QED BY <1>1, <2>1, <2>2 DEF Grows
<1>8. PICK r : stack' = [stack EXCEPT ![g] = r] /\ r = Front(stack[g]) \o <<e>>
  BY <1>1, <1>2, <1>3 DEF SetTop
<1>9. Typed'
  <2>1. r \in Seq(FrameType)
    BY <1>1, <1>4, <1>8, TopFrame, TopPut
  <2>2. stack' \in [Goroutines -> Seq(FrameType)]
    BY <1>8, <2>1 DEF CInv, Typed
  <2>3. cache' \in [Types -> 0 .. Len(objs')]
    BY <1>1, <1>2, <1>5 DEF CInv, Typed
  <2>4. twice' \subseteq Types
    BY <1>1, <1>2, <1>5 DEF CInv, Typed
  <2> QED BY <1>1, <2>2, <2>3, <2>4 DEF CInv, Typed
<1>10. FrameOK(e)'
  <2>1. Left(f) /\ Len(f.slow) = Len(Slow[f.type])
    BY <1>1, <1>2 DEF FrameOK, Left
  <2>2. Left(e)
    BY <1>1, <1>2, <1>4, <2>1 DEF Left
  <2>3. FrameOK(f)'
    BY <1>2, <1>7, FrameStays DEF CInv
  <2>4. Done(e)'
    BY <1>1, <1>2, <1>4, <2>3 DEF FrameOK, Done
  <2>5. Published(e.obj, e.type)'
    BY <1>4, <1>5, <1>6 DEF Published
  <2> QED BY <2>2, <2>4, <2>5 DEF FrameOK, Left
<1>11. Stacks' /\ Built'
  <2>1. stack' = SetTop(g, e) /\ e.type = Top(g).type /\ Top(g).obj \in {0, e.obj}
    BY <1>1, <1>2, <1>3, <1>4
  <2> QED BY <1>1, <1>4, <1>7, <1>9, <1>10, <2>1, Replaced
<1>12. Cached'
  <2> SUFFICES ASSUME NEW t \in Types, cache'[t] # 0
               PROVE  objs'[cache'[t]].type = t
    BY DEF Cached
  <2>1. CASE t = f.type
    BY <1>1, <1>5, <1>6, <2>1
  <2>2. CASE t # f.type
    BY <1>1, <1>6, <2>2 DEF CInv, Cached
  <2> QED BY <2>1, <2>2
<1>13. Owned'
  BY <1>1 DEF CInv, Owned
<1> QED BY <1>1, <1>7, <1>8, <1>9, <1>11, <1>12, <1>13, Goes

\* b is a with more columns, relationships and marks.
More(a, b) ==
  /\ b \in Seq(ObjType) /\ DOMAIN b = DOMAIN a /\ Len(b) = Len(a)
  /\ \A i \in DOMAIN a : /\ b[i].type = a[i].type
                        /\ a[i].done \subseteq b[i].done /\ a[i].marks \subseteq b[i].marks
                        /\ b[i].done \subseteq SlowOf[b[i].type]

LEMMA MoreObj ==
  ASSUME NEW a \in Seq(ObjType), \A i \in DOMAIN a : a[i].done \subseteq SlowOf[a[i].type],
         NEW o \in DOMAIN a, NEW x \in ObjType, x.type = a[o].type, x.done \subseteq SlowOf[x.type],
         a[o].done \subseteq x.done, a[o].marks \subseteq x.marks,
         NEW b, b = [a EXCEPT ![o] = x]
  PROVE  More(a, b) /\ b[o] = x
<1>1. b \in Seq(ObjType) /\ Len(b) = Len(a) /\ b[o] = x /\ \A i \in DOMAIN a : i # o => b[i] = a[i]
  BY Put
<1>2. DOMAIN b = DOMAIN a
  BY <1>1
<1>3. ASSUME NEW i \in DOMAIN a
      PROVE  /\ b[i].type = a[i].type /\ a[i].done \subseteq b[i].done
             /\ a[i].marks \subseteq b[i].marks /\ b[i].done \subseteq SlowOf[b[i].type]
  <2>1. CASE i = o
    BY <1>1, <2>1
  <2>2. CASE i # o
    BY <1>1, <2>2
  <2> QED BY <2>1, <2>2
<1> QED BY <1>1, <1>2, <1>3 DEF More

LEMMA MoreDone ==
  ASSUME NEW a \in Seq(ObjType), \A i \in DOMAIN a : a[i].done \subseteq SlowOf[a[i].type],
         NEW o \in DOMAIN a, NEW q, q \in SlowOf[a[o].type],
         NEW b, b = [a EXCEPT ![o].done = @ \cup {q}]
  PROVE  More(a, b) /\ q \in b[o].done
<1>1. PICK w : w = a[o]
  OBVIOUS
<1>2. w \in ObjType /\ w.type \in Types
  <2>1. w \in ObjType
    BY <1>1
  <2> QED BY <2>1 DEF ObjType
<1>3. q \in Fields
  BY <1>1, <1>2, Parts
<1>4. PICK x : x = [w EXCEPT !.done = @ \cup {q}]
  OBVIOUS
<1>5. /\ x \in ObjType /\ x.type = w.type /\ x.done = w.done \cup {q} /\ x.marks = w.marks
  BY <1>2, <1>3, <1>4 DEF ObjType
<1>6. b = [a EXCEPT ![o] = x]
  BY <1>1, <1>4
<1>7. x.done \subseteq SlowOf[x.type]
  BY <1>1, <1>5
<1> QED BY <1>1, <1>5, <1>6, <1>7, MoreObj

LEMMA MoreMarks ==
  ASSUME NEW a \in Seq(ObjType), \A i \in DOMAIN a : a[i].done \subseteq SlowOf[a[i].type],
         NEW o \in DOMAIN a, NEW q \in Fields,
         NEW b, b = [a EXCEPT ![o].marks = @ \cup {q}]
  PROVE  More(a, b) /\ q \in b[o].marks
<1>1. PICK w : w = a[o]
  OBVIOUS
<1>2. w \in ObjType
  BY <1>1
<1>3. PICK x : x = [w EXCEPT !.marks = @ \cup {q}]
  OBVIOUS
<1>4. /\ x \in ObjType /\ x.type = w.type /\ x.done = w.done /\ x.marks = w.marks \cup {q}
  BY <1>2, <1>3 DEF ObjType
<1>5. b = [a EXCEPT ![o] = x]
  BY <1>1, <1>3
<1>6. x.done \subseteq SlowOf[x.type]
  BY <1>1, <1>4
<1> QED BY <1>1, <1>4, <1>5, <1>6, MoreObj

LEMMA MoreTwice ==
  ASSUME NEW a, NEW b, NEW c, More(a, b), More(b, c)
  PROVE  More(a, c)
BY DEF More

LEMMA MoreGrows ==
  ASSUME CInv, More(objs, objs'), UNCHANGED cache, copied \subseteq copied', twice \subseteq twice'
  PROVE  Grows /\ Owned' /\ DOMAIN objs' = DOMAIN objs /\ Len(objs') = Len(objs) /\ Cached'
<1>1. Grows
  BY DEF More, Grows
<1>2. Owned'
  BY DEF More, Owned
<1> QED BY <1>1, <1>2, CachedKept DEF More

\* A deferred builder: of a column, or one that needs another model.
LEMMA DeferStep ==
  ASSUME CInv, NEW g \in Goroutines, Defer(g), Top(g).slow # <<>>
  PROVE  CInv'
<1> DEFINE s == Head(Top(g).slow)
<1>1. /\ Busy(g) /\ Top(g).at = "defer"
      /\ IF s.kind = "late"
         THEN /\ objs' = [objs EXCEPT ![Top(g).obj].done = @ \cup {<<Top(g).type, s.name>>}]
              /\ stack' = SetTop(g, [Top(g) EXCEPT !.slow = Tail(@)])
         ELSE UNCHANGED objs /\ stack' = PushOn(g, Top(g), s.to)
      /\ UNCHANGED <<cache, got, alone, copied, twice>>
  BY DEF Defer
<1> HIDE DEF s
<1>2. PICK f \in FrameType : f = Top(g) /\ FrameOK(f)
  BY <1>1, TopFrame
<1>3. f.type \in Types /\ f.slow \in Seq(SlowFields) /\ f.slow # <<>> /\ f.at = "defer" /\ s = Head(f.slow)
  BY <1>1, <1>2 DEF FrameType, s
<1>4. f.obj \in DOMAIN objs /\ objs[f.obj].type = f.type /\ Left(f)
  BY <1>2, <1>3 DEF FrameOK, Done
<1>5. PICK i \in DOMAIN Slow[f.type] : s = Slow[f.type][i]
  <2>1. PICK m \in Nat \ {0} : m = Len(f.slow)
    BY <1>3
  <2>2. m <= Len(Slow[f.type]) /\ \A j \in 1 .. m : f.slow[j] = Slow[f.type][m + 1 - j]
    BY <1>4, <2>1 DEF Left
  <2>3. 1 \in 1 .. m /\ m + 1 - 1 = m
    OBVIOUS
  <2>4. s = Slow[f.type][m]
    <3>1. f.slow[1] = Slow[f.type][m]
      BY <2>2, <2>3
    <3> QED BY <1>3, <3>1
  <2>5. m \in DOMAIN Slow[f.type]
    BY <1>3, <2>2, Shapes
  <2> QED BY <2>4, <2>5
<1>6. CASE s.kind = "late"
  <2>1. PICK q : q = <<f.type, s.name>>
    OBVIOUS
  <2>2. q \in SlowOf[objs[f.obj].type]
    BY <1>3, <1>4, <1>5, <2>1, Parts
  <2>3. objs \in Seq(ObjType) /\ \A o \in DOMAIN objs : objs[o].done \subseteq SlowOf[objs[o].type]
    BY DEF CInv, Typed, Owned
  <2>4. objs' = [objs EXCEPT ![f.obj].done = @ \cup {q}]
    BY <1>1, <1>2, <1>6, <2>1
  <2>5. More(objs, objs') /\ q \in objs'[f.obj].done
    BY <1>4, <2>2, <2>3, <2>4, MoreDone
  <2>6. Grows /\ Owned' /\ DOMAIN objs' = DOMAIN objs /\ Len(objs') = Len(objs) /\ Cached'
    BY <1>1, <2>5, MoreGrows
  <2>7. PICK e : e = [f EXCEPT !.slow = Tail(@)]
    OBVIOUS
  <2>8. Settled(f.obj, f.type, Head(f.slow))'
    BY <1>3, <1>6, <2>1, <2>5 DEF Settled
  <2>9. e \in FrameType /\ FrameOK(e)'
    BY <1>2, <1>3, <2>6, <2>7, <2>8, BuilderRan DEF CInv
  <2>10. e.type = f.type /\ e.obj = f.obj
    BY <2>7 DEF FrameType
  <2>11. stack' = SetTop(g, e)
    BY <1>1, <1>2, <1>6, <2>7
  <2>12. PICK r : stack' = [stack EXCEPT ![g] = r] /\ r = Front(stack[g]) \o <<e>>
    BY <2>11 DEF SetTop
  <2>13. Typed'
    <3>1. r \in Seq(FrameType)
      BY <1>1, <2>9, <2>12, TopFrame, TopPut
    <3>2. stack' \in [Goroutines -> Seq(FrameType)]
      BY <2>12, <3>1 DEF CInv, Typed
    <3>3. objs' \in Seq(ObjType)
      BY <2>5 DEF More
    <3> QED BY <1>1, <2>6, <3>2, <3>3 DEF CInv, Typed
  <2>14. Stacks' /\ Built'
    <3>1. Top(g).obj \in {0, e.obj} /\ e.type = Top(g).type
      BY <1>2, <2>10
    <3> QED BY <1>1, <2>6, <2>9, <2>11, <2>13, <3>1, Replaced
  <2> QED BY <1>1, <2>6, <2>12, <2>13, <2>14, Goes
<1>7. CASE s.kind # "late"
  <2>1. PICK t \in Types : t = s.to
    BY <1>3, <1>5, <1>7, Targets
  <2>2. stack' = PushOn(g, Top(g), t) /\ UNCHANGED objs
    BY <1>1, <1>7, <2>1
  <2>3. Waits(Top(g), Frame(t))
    BY <1>2, <1>3, <1>7, <2>1 DEF Waits, Frame
  <2>4. PICK r : stack' = [stack EXCEPT ![g] = r] /\ r = Front(stack[g]) \o <<Top(g), Frame(t)>>
    BY <2>2 DEF PushOn
  <2>5. Typed'
    <3>1. r \in Seq(FrameType)
      <4>1. PICK w \in Seq(FrameType) : w = stack[g] /\ w # <<>>
        BY <1>1, TopFrame
      <4>2. PICK e \in FrameType : e = Frame(t)
        BY Begun
      <4>3. r = Front(w) \o <<Last(w), e>>
        BY <2>4, <4>1, <4>2 DEF Top
      <4> QED BY <4>1, <4>3, TopPush
    <3>2. stack' \in [Goroutines -> Seq(FrameType)]
      BY <2>4, <3>1 DEF CInv, Typed
    <3> QED BY <1>1, <2>2, <3>2 DEF CInv, Typed
  <2>6. Grows
    BY <1>1, <2>2 DEF Grows
  <2>7. Stacks' /\ Built'
    BY <1>1, <2>2, <2>3, <2>5, <2>6, Pushed
  <2>8. Cached' /\ Owned'
    BY <1>1, <2>2 DEF CInv, Cached, Owned
  <2> QED BY <1>1, <2>4, <2>5, <2>6, <2>7, <2>8, Goes
<1> QED BY <1>6, <1>7

\* The model struct returned is the cache's, or the one the call was building.
Returned(g, o) ==
  /\ Busy(g) /\ o \in DOMAIN objs /\ objs[o].type = Top(g).type /\ Published(o, Top(g).type)
  /\ \A p \in DOMAIN objs : Top(g).obj = p => p = o /\ Finished(p)
  /\ UNCHANGED <<cache, alone, twice>>

\* Return to the use.
LEMMA ReturnsToUse ==
  ASSUME CInv, NEW g \in Goroutines, NEW o, Returned(g, o), Returns(g, o), Len(stack[g]) = 1
  PROVE  CInv'
<1>1. /\ stack' = [stack EXCEPT ![g] = <<>>] /\ got' = [got EXCEPT ![g] = o]
      /\ IF job[g] = "handler" THEN SetsHandler(o) ELSE UNCHANGED objs
      /\ UNCHANGED copied
  BY DEF Returns
<1>2. Busy(g) /\ o \in DOMAIN objs /\ UNCHANGED <<cache, alone, twice>>
  BY DEF Returned
<1>3. objs \in Seq(ObjType) /\ \A p \in DOMAIN objs : objs[p].done \subseteq SlowOf[objs[p].type]
  BY DEF CInv, Typed, Owned
<1>4. PICK x : x = objs[o]
  OBVIOUS
<1>5. x \in ObjType
  BY <1>2, <1>3, <1>4
<1>6. x.type \in Types
  BY <1>5 DEF ObjType
<1>7. More(objs, objs')
  <2>1. CASE UNCHANGED objs
    BY <1>3, <2>1 DEF More
  <2>2. CASE objs' = [objs EXCEPT ![o].custom = Joins(objs[o].type)]
    <3>1. PICK J : J = Joins(x.type)
      OBVIOUS
    <3>2. J \subseteq Fields
      BY <1>6, <3>1, Parts
    <3>3. PICK y : y = [x EXCEPT !.custom = J]
      OBVIOUS
    <3>4. y \in ObjType /\ y.type = x.type /\ y.done = x.done /\ y.marks = x.marks
      BY <1>5, <3>2, <3>3 DEF ObjType
    <3>5. objs' = [objs EXCEPT ![o] = y]
      BY <1>4, <2>2, <3>1, <3>3
    <3>6. y.done \subseteq SlowOf[y.type]
      BY <1>2, <1>3, <1>4, <3>4
    <3> QED BY <1>2, <1>3, <1>4, <3>4, <3>5, <3>6, MoreObj
  <2> QED BY <1>1, <2>1, <2>2 DEF SetsHandler
<1>8. Grows /\ Owned' /\ DOMAIN objs' = DOMAIN objs /\ Len(objs') = Len(objs) /\ Cached'
  BY <1>1, <1>2, <1>7, MoreGrows
<1>9. Typed'
  <2>1. stack' \in [Goroutines -> Seq(FrameType)]
    <3>1. <<>> \in Seq(FrameType)
      OBVIOUS
    <3> QED BY <1>1, <3>1 DEF CInv, Typed
  <2>2. got' \in [Goroutines -> 0 .. Len(objs')]
    BY <1>1, <1>2, <1>3, <1>8 DEF CInv, Typed
  <2>3. objs' \in Seq(ObjType)
    BY <1>7 DEF More
  <2> QED BY <1>1, <1>2, <1>8, <2>1, <2>2, <2>3 DEF CInv, Typed
<1>10. Stacks' /\ Built'
  <2>1. \A p \in DOMAIN objs : Top(g).obj = p => Finished(p)
    BY DEF Returned
  <2> QED BY <1>1, <1>8, <1>9, <2>1, Emptied
<1>11. ASSUME alone[g]
       PROVE  Finished(o)
  <2> SUFFICES ASSUME ~Finished(o)
               PROVE  FALSE
    OBVIOUS
  <2>1. PICK h \in Goroutines : \E i \in DOMAIN stack[h] : stack[h][i].obj = o
    BY <1>2 DEF CInv, Built, Building
  <2>2. PICK i \in DOMAIN stack[h] : stack[h][i].obj = o
    BY <2>1
  <2>3. CASE h = g
    <3>1. stack[g] \in Seq(FrameType)
      BY DEF CInv, Typed
    <3>2. Top(g).obj = o
      BY <2>2, <2>3, <3>1 DEF Top, Last
    <3> QED BY <1>2, <3>2 DEF Returned
  <2>4. CASE h # g
    <3>1. ~Busy(h)
      BY <1>2, <1>11, <2>4 DEF CInv, Apart
    <3>2. DOMAIN stack[h] = {}
      BY <3>1 DEF Busy
    <3> QED BY <2>2, <3>2
  <2> QED BY <2>3, <2>4
<1>12. Gets'
  <2>1. \A h \in Goroutines : got'[h] \in {0} \cup DOMAIN objs
    BY <1>1, <1>2, <1>3 DEF CInv, Typed
  <2>2. ASSUME NEW h \in Goroutines, NEW p \in DOMAIN objs, got'[h] = p, alone'[h]
        PROVE  Finished(p) \/ (got[h] = p /\ alone[h])
    <3>1. CASE h = g
      <4>1. p = o /\ alone[g]
        BY <1>1, <1>2, <2>2, <3>1 DEF CInv, Typed
      <4> QED BY <1>11, <4>1
    <3>2. CASE h # g
      BY <1>1, <1>2, <2>2, <3>2 DEF CInv, Typed
    <3> QED BY <3>1, <3>2
  <2> QED BY <1>8, <2>1, <2>2, GetsKept
<1>13. Apart'
  <2>1. PICK r : r = <<>>
    OBVIOUS
  <2>2. stack' = [stack EXCEPT ![g] = r]
    BY <1>1, <2>1
  <2> QED BY <1>2, <2>2, ApartKept
<1> QED BY <1>8, <1>9, <1>10, <1>12, <1>13 DEF CInv

\* What is true of the frame below.
LEMMA Below ==
  ASSUME CInv, NEW g \in Goroutines, Busy(g), Len(stack[g]) # 1
  PROVE  /\ Len(stack[g]) > 1 /\ Len(stack[g]) - 1 \in DOMAIN stack[g]
         /\ stack[g][Len(stack[g]) - 1] \in FrameType /\ FrameOK(stack[g][Len(stack[g]) - 1])
         /\ Waits(stack[g][Len(stack[g]) - 1], Top(g))
<1>1. PICK n \in Nat \ {0} : n = Len(stack[g])
  BY TopFrame
<1>2. n > 1 /\ n - 1 \in DOMAIN stack[g] /\ n \in DOMAIN stack[g] /\ n - 1 + 1 = n /\ Top(g) = stack[g][n]
  <2>1. PICK s \in Seq(FrameType) : s = stack[g] /\ Top(g) = s[Len(s)]
    BY TopFrame
  <2>2. n = Len(s) /\ n # 1 /\ Top(g) = s[n]
    BY <1>1, <2>1
  <2>3. n > 1 /\ n - 1 \in DOMAIN s /\ n \in DOMAIN s /\ n - 1 + 1 = n
    BY <2>2
  <2> QED BY <2>1, <2>2, <2>3
<1>3. PICK k : k = n - 1
  OBVIOUS
<1>4. k \in DOMAIN stack[g] /\ k + 1 = n
  BY <1>2, <1>3
<1>5. stack[g][k] \in FrameType /\ FrameOK(stack[g][k])
  BY <1>4, FrameBelow
<1>6. Waits(stack[g][k], stack[g][k + 1])
  <2>1. k + 1 \in DOMAIN stack[g]
    BY <1>2, <1>4
  <2>2. Chain(stack[g])
    BY DEF CInv, Stacks
  <2> QED BY <1>4, <2>1, <2>2 DEF Chain
<1>7. Waits(stack[g][k], Top(g))
  BY <1>2, <1>4, <1>6
<1> QED BY <1>1, <1>2, <1>3, <1>5, <1>7

\* What the steps have in common that return to the frame f below, which becomes e.
LEMMA ReturnsBelow ==
  ASSUME CInv, NEW g \in Goroutines, NEW o, Returned(g, o), Len(stack[g]) # 1,
         NEW f \in FrameType, f = stack[g][Len(stack[g]) - 1],
         NEW e \in FrameType, e.type = f.type, e.obj = f.obj, FrameOK(e)',
         stack' = [stack EXCEPT ![g] = Popping(@, e)],
         Grows, Owned', Cached', objs' \in Seq(ObjType), Len(objs') = Len(objs),
         DOMAIN objs' = DOMAIN objs, copied' \subseteq Nat, UNCHANGED got
  PROVE  CInv'
<1>1. Busy(g) /\ UNCHANGED <<cache, alone, twice>>
  BY DEF Returned
<1>2. Len(stack[g]) > 1
  BY <1>1, Below
<1>3. PICK s \in Seq(FrameType) : s = stack[g]
  BY DEF CInv, Typed
<1>4. PICK r : r = Popping(s, e)
  OBVIOUS
<1>5. r \in Seq(FrameType)
  BY <1>2, <1>3, <1>4, TopPop
<1>6. stack' = [stack EXCEPT ![g] = r]
  BY <1>3, <1>4
<1>7. Typed'
  <2>1. stack' \in [Goroutines -> Seq(FrameType)]
    BY <1>5, <1>6 DEF CInv, Typed
  <2> QED BY <1>1, <2>1 DEF CInv, Typed
<1>8. Stacks' /\ Built'
  <2>1. \A p \in DOMAIN objs : Top(g).obj = p => Finished(p)
    BY DEF Returned
  <2>2. e.type = stack[g][Len(stack[g]) - 1].type /\ e.obj = stack[g][Len(stack[g]) - 1].obj
    OBVIOUS
  <2> QED BY <1>2, <1>7, <2>1, <2>2, Popped
<1> QED BY <1>1, <1>6, <1>7, <1>8, Goes

\* Return to a frame that copies the fields of an embedded struct.
LEMMA ReturnsToCopy ==
  ASSUME CInv, NEW g \in Goroutines, NEW o, Returned(g, o), Len(stack[g]) # 1,
         NEW f \in FrameType, f = stack[g][Len(stack[g]) - 1], f.at = "fields",
         Copies(g, f, o), UNCHANGED got
  PROVE  CInv'
<1>1. Busy(g) /\ o \in DOMAIN objs /\ objs[o].type = Top(g).type /\ UNCHANGED <<cache, alone, twice>>
  BY DEF Returned
<1>2. FrameOK(f) /\ Waits(f, Top(g)) /\ Len(stack[g]) > 1
  BY <1>1, Below
<1>3. f.embeds # <<>> /\ Head(f.embeds) = objs[o].type
  BY <1>1, <1>2 DEF Waits
<1>4. f.obj \in DOMAIN objs /\ objs[f.obj].type = f.type /\ Left(f) /\ f.type \in Types /\ f.obj \in Nat
  BY <1>2 DEF FrameOK, Done, FrameType
<1>5. PICK i \in DOMAIN Embeds[f.type] : Head(f.embeds) = Embeds[f.type][i]
  <2>1. PICK m \in Nat \ {0} : m = Len(f.embeds)
    BY <1>3 DEF FrameType
  <2>2. PICK n \in Nat : n = Len(Embeds[f.type])
    BY <1>4, Shapes
  <2>3. m <= n /\ \A j \in 1 .. m : f.embeds[j] = Embeds[f.type][n - m + j]
    BY <1>4, <2>1, <2>2 DEF Left
  <2>4. 1 \in 1 .. m /\ n - m + 1 \in 1 .. n
    BY <2>3
  <2>5. f.embeds[1] = Embeds[f.type][n - m + 1]
    BY <2>3, <2>4
  <2>6. Head(f.embeds) = f.embeds[1]
    BY <1>3 DEF FrameType
  <2>7. n - m + 1 \in DOMAIN Embeds[f.type]
    BY <1>4, <2>2, <2>4, Shapes
  <2> QED BY <2>5, <2>6, <2>7
<1>6. PICK u \in Types : u = Head(f.embeds) /\ OwnSlow(u) = SlowOf[u] /\ SlowOf[u] \subseteq SlowOf[f.type]
  BY <1>4, <1>5, PartsOf
<1>7. objs \in Seq(ObjType) /\ \A p \in DOMAIN objs : objs[p].done \subseteq SlowOf[objs[p].type]
  BY DEF CInv, Typed, Owned
<1>8. PICK a \in ObjType : a = objs[f.obj]
  BY <1>4, <1>7
<1>9. PICK b \in ObjType : b = objs[o]
  BY <1>1, <1>7
<1>10. PICK x : x = [a EXCEPT !.done = @ \cup b.done, !.custom = @ \cup b.custom]
  OBVIOUS
<1>11. x \in ObjType /\ x.type = a.type /\ x.done = a.done \cup b.done /\ x.marks = a.marks
  <2>1. PICK w : w = [a EXCEPT !.done = @ \cup b.done]
    OBVIOUS
  <2>2. w \in ObjType /\ w.type = a.type /\ w.done = a.done \cup b.done /\ w.marks = a.marks
    BY <2>1 DEF ObjType
  <2>3. x = [w EXCEPT !.custom = @ \cup b.custom]
    BY <1>10, <2>1
  <2> QED BY <2>2, <2>3 DEF ObjType
<1>12. /\ objs' = [objs EXCEPT ![f.obj] = x]
       /\ copied' = IF objs[o].done = SlowOf[objs[o].type] THEN copied ELSE copied \cup {f.obj}
       /\ stack' = [stack EXCEPT ![g] = SubSeq(@, 1, Len(@) - 2) \o <<[f EXCEPT !.embeds = Tail(@)]>>]
  BY <1>4, <1>7, <1>8, <1>9, <1>10 DEF Copies
<1>13. x.done \subseteq SlowOf[x.type]
  <2>1. b.done \subseteq SlowOf[u]
    BY <1>1, <1>3, <1>6, <1>7, <1>9
  <2>2. a.done \subseteq SlowOf[f.type] /\ x.type = f.type
    BY <1>4, <1>7, <1>8, <1>11
  <2> QED BY <1>6, <1>11, <2>1, <2>2
<1>14. More(objs, objs') /\ objs'[f.obj] = x
  BY <1>4, <1>7, <1>8, <1>11, <1>12, <1>13, MoreObj
<1>15. Grows /\ Owned' /\ DOMAIN objs' = DOMAIN objs /\ Len(objs') = Len(objs) /\ Cached'
  BY <1>1, <1>12, <1>14, MoreGrows
<1>16. PICK e : e = [f EXCEPT !.embeds = Tail(@)]
  OBVIOUS
<1>17. f.obj \in copied' \/ OwnSlow(Head(f.embeds)) \subseteq objs'[f.obj].done
  <2>1. CASE b.done = SlowOf[u]
    BY <1>6, <1>11, <1>14, <2>1
  <2>2. CASE b.done # SlowOf[u]
    BY <1>3, <1>6, <1>9, <1>12, <2>2
  <2> QED BY <2>1, <2>2
<1>18. e \in FrameType /\ FrameOK(e)'
  BY <1>2, <1>3, <1>15, <1>16, <1>17, StructCopied DEF CInv
<1>19. e.type = f.type /\ e.obj = f.obj
  BY <1>16 DEF FrameType
<1>20. stack' = [stack EXCEPT ![g] = Popping(@, e)]
  BY <1>12, <1>16 DEF Popping
<1>21. copied' \subseteq Nat /\ objs' \in Seq(ObjType)
  BY <1>4, <1>12, <1>14 DEF CInv, Typed, More
<1> QED BY <1>15, <1>18, <1>19, <1>20, <1>21, ReturnsBelow

\* Return to a deferred builder, which completes a relationship.
LEMMA ReturnsToRelate ==
  ASSUME CInv, NEW g \in Goroutines, NEW o, Returned(g, o), Len(stack[g]) # 1,
         NEW f \in FrameType, f = stack[g][Len(stack[g]) - 1], f.at # "fields",
         Relates(g, f, o), UNCHANGED got
  PROVE  CInv'
<1>1. PICK s : s = Head(f.slow)
  OBVIOUS
<1>2. PICK q : q = <<f.type, s.name>>
  OBVIOUS
<1>3. PICK p : p = IF s.kind = "has" THEN o ELSE f.obj
  OBVIOUS
<1>4. PICK d : d = [objs EXCEPT ![f.obj].done = @ \cup {q}]
  OBVIOUS
<1>5. /\ objs' = IF s.kind \in {"has", "belongs_to"} THEN [d EXCEPT ![p].marks = @ \cup {q}] ELSE d
      /\ stack' = [stack EXCEPT ![g] = SubSeq(@, 1, Len(@) - 2) \o <<[f EXCEPT !.slow = Tail(@)]>>]
      /\ UNCHANGED copied
  <2>1. /\ stack' = [stack EXCEPT ![g] = SubSeq(@, 1, Len(@) - 2) \o <<[f EXCEPT !.slow = Tail(@)]>>]
        /\ UNCHANGED copied
    BY DEF Relates
  <2>2. CASE s.kind = "has"
    <3>1. objs' = [[objs EXCEPT ![f.obj].done = @ \cup {<<f.type, Head(f.slow).name>>}]
                     EXCEPT ![o].marks = @ \cup {<<f.type, Head(f.slow).name>>}]
      BY <1>1, <2>2 DEF Relates
    <3>2. objs' = [d EXCEPT ![p].marks = @ \cup {q}]
      BY <1>1, <1>2, <1>3, <1>4, <2>2, <3>1
    <3> QED BY <2>1, <2>2, <3>2
  <2>3. CASE s.kind = "belongs_to"
    <3>1. objs' = [[objs EXCEPT ![f.obj].done = @ \cup {<<f.type, Head(f.slow).name>>}]
                     EXCEPT ![f.obj].marks = @ \cup {<<f.type, Head(f.slow).name>>}]
      BY <1>1, <2>3 DEF Relates
    <3>2. objs' = [d EXCEPT ![p].marks = @ \cup {q}]
      BY <1>1, <1>2, <1>3, <1>4, <2>3, <3>1
    <3> QED BY <2>1, <2>3, <3>2
  <2>4. CASE s.kind \notin {"has", "belongs_to"}
    <3>1. objs' = [objs EXCEPT ![f.obj].done = @ \cup {<<f.type, Head(f.slow).name>>}]
      BY <1>1, <2>4 DEF Relates
    <3> QED BY <1>1, <1>2, <1>4, <2>1, <2>4, <3>1
  <2> QED BY <2>2, <2>3, <2>4
<1>6. /\ Busy(g) /\ o \in DOMAIN objs /\ objs[o].type = Top(g).type
      /\ Published(o, Top(g).type) /\ UNCHANGED <<cache, alone, twice>>
  BY DEF Returned
<1>7. FrameOK(f) /\ Waits(f, Top(g)) /\ Len(stack[g]) > 1
  BY <1>6, Below
<1>8. f.at = "defer" /\ f.slow # <<>> /\ Head(f.slow).kind # "late" /\ objs[o].type = Head(f.slow).to
  BY <1>6, <1>7 DEF Waits
<1>9. f.obj \in DOMAIN objs /\ objs[f.obj].type = f.type /\ Left(f) /\ f.type \in Types
      /\ f.slow \in Seq(SlowFields)
  BY <1>7, <1>8 DEF FrameOK, Done, FrameType
<1>10. PICK i \in DOMAIN Slow[f.type] : s = Slow[f.type][i]
  <2>1. PICK m \in Nat \ {0} : m = Len(f.slow)
    BY <1>8, <1>9
  <2>2. m <= Len(Slow[f.type]) /\ \A j \in 1 .. m : f.slow[j] = Slow[f.type][m + 1 - j]
    BY <1>9, <2>1 DEF Left
  <2>3. 1 \in 1 .. m /\ m + 1 - 1 = m
    OBVIOUS
  <2>4. s = Slow[f.type][m]
    <3>1. f.slow[1] = Slow[f.type][m]
      BY <2>2, <2>3
    <3> QED BY <1>8, <1>9, <1>1, <3>1
  <2>5. m \in DOMAIN Slow[f.type]
    BY <1>9, <2>2, Shapes
  <2> QED BY <2>4, <2>5
<1>11. q \in SlowOf[objs[f.obj].type] /\ q \in Fields
  <2>1. q \in OwnSlow(f.type)
    BY <1>9, <1>10, <1>2, Parts
  <2> QED BY <1>9, <2>1, Parts
<1>12. objs \in Seq(ObjType) /\ \A j \in DOMAIN objs : objs[j].done \subseteq SlowOf[objs[j].type]
  BY DEF CInv, Typed, Owned
<1>13. More(objs, d) /\ q \in d[f.obj].done
  BY <1>9, <1>11, <1>4, <1>12, MoreDone
<1>14. p \in DOMAIN d
  BY <1>6, <1>9, <1>3, <1>13 DEF More
<1>15. /\ More(d, objs') /\ More(objs, objs')
       /\ s.kind \in {"has", "belongs_to"} => q \in objs'[p].marks
  <2>1. CASE s.kind \in {"has", "belongs_to"}
    <3>1. d \in Seq(ObjType) /\ \A j \in DOMAIN d : d[j].done \subseteq SlowOf[d[j].type]
      BY <1>13 DEF More
    <3>2. objs' = [d EXCEPT ![p].marks = @ \cup {q}]
      BY <1>5, <2>1
    <3>3. PICK b : b = objs'
      OBVIOUS
    <3>4. More(d, b) /\ q \in b[p].marks
      BY <1>11, <1>14, <3>1, <3>2, <3>3, MoreMarks
    <3>5. More(objs, b)
      BY <1>13, <3>4 DEF More
    <3> QED BY <3>3, <3>4, <3>5
  <2>2. CASE s.kind \notin {"has", "belongs_to"}
    <3>1. objs' = d
      BY <1>5, <2>2
    <3>2. More(d, d)
      BY <1>13 DEF More
    <3> QED BY <1>13, <2>2, <3>1, <3>2
  <2> QED BY <2>1, <2>2
<1>16. Grows /\ Owned' /\ DOMAIN objs' = DOMAIN objs /\ Len(objs') = Len(objs) /\ Cached'
  BY <1>6, <1>5, <1>15, MoreGrows
<1>17. q \in objs'[f.obj].done
  BY <1>9, <1>13, <1>15 DEF More
<1>18. Settled(f.obj, f.type, s)'
  <2>1. s.kind = "belongs_to" => q \in objs'[f.obj].marks
    BY <1>3, <1>15
  <2>2. s.kind = "has" => \/ s.to \in twice'
                          \/ cache'[s.to] # 0 /\ q \in objs'[cache'[s.to]].marks
    <3> SUFFICES ASSUME s.kind = "has", s.to \notin twice
                 PROVE  cache[s.to] # 0 /\ q \in objs'[cache[s.to]].marks
      BY <1>6
    <3>1. cache[s.to] # 0 /\ cache[s.to] = o
      BY <1>6, <1>8, <1>1 DEF Published
    <3> QED BY <1>3, <1>15, <3>1
  <2> QED BY <1>2, <1>17, <2>1, <2>2 DEF Settled
<1>19. PICK e : e = [f EXCEPT !.slow = Tail(@)]
  OBVIOUS
<1>20. e \in FrameType /\ FrameOK(e)'
  <2>1. Settled(f.obj, f.type, Head(f.slow))'
    BY <1>1, <1>18
  <2> QED BY <1>7, <1>8, <1>16, <1>19, <2>1, BuilderRan DEF CInv
<1>21. e.type = f.type /\ e.obj = f.obj
  BY <1>19 DEF FrameType
<1>22. stack' = [stack EXCEPT ![g] = Popping(@, e)]
  BY <1>5, <1>19 DEF Popping
<1>23. copied' \subseteq Nat /\ objs' \in Seq(ObjType)
  BY <1>5, <1>15 DEF CInv, Typed, More
<1> QED BY <1>16, <1>20, <1>21, <1>22, <1>23, ReturnsBelow

LEMMA ReturnStep ==
  ASSUME CInv, NEW g \in Goroutines, NEW o, Returned(g, o), Returns(g, o)
  PROVE  CInv'
<1>1. CASE Len(stack[g]) = 1
  BY <1>1, ReturnsToUse
<1>2. CASE Len(stack[g]) # 1
  <2>1. PICK f : f = stack[g][Len(stack[g]) - 1]
    OBVIOUS
  <2>2. f \in FrameType
    BY <1>2, <2>1, Below DEF Returned
  <2>3. (IF f.at = "fields" THEN Copies(g, f, o) ELSE Relates(g, f, o)) /\ UNCHANGED got
    BY <1>2, <2>1 DEF Returns
  <2> QED BY <1>2, <2>1, <2>2, <2>3, ReturnsToCopy, ReturnsToRelate
<1> QED BY <1>1, <1>2

\* The cache has the model.
LEMMA HitStep ==
  ASSUME CInv, NEW g \in Goroutines, Load(g), cache[Top(g).type] # 0
  PROVE  CInv'
<1>1. Busy(g) /\ Top(g).at = "load" /\ UNCHANGED <<cache, alone, twice>>
  BY DEF Load
<1>2. PICK o : o = cache[Top(g).type]
  OBVIOUS
<1>3. Returns(g, o)
  BY <1>2 DEF Load
<1>4. Top(g).type \in Types /\ Top(g).obj = 0
  BY <1>1, TopFrame DEF FrameOK, Left
<1>5. o \in DOMAIN objs /\ objs[o].type = Top(g).type /\ 0 \notin DOMAIN objs
  BY <1>2, <1>4 DEF CInv, Typed, Cached
<1>6. Returned(g, o)
  BY <1>1, <1>2, <1>4, <1>5 DEF Returned, Published
<1> QED BY <1>3, <1>6, ReturnStep

\* The last deferred builder has run.
LEMMA DeferEnd ==
  ASSUME CInv, NEW g \in Goroutines, Defer(g), Top(g).slow = <<>>
  PROVE  CInv'
<1>1. Busy(g) /\ Top(g).at = "defer" /\ Returns(g, Top(g).obj) /\ UNCHANGED <<cache, alone, twice>>
  BY DEF Defer
<1>2. PICK f \in FrameType : f = Top(g) /\ FrameOK(f)
  BY <1>1, TopFrame
<1>3. f.embeds = <<>> /\ f.slow = <<>> /\ Published(f.obj, f.type)
  BY <1>1, <1>2 DEF FrameOK, Left
<1>4. /\ f.obj \in DOMAIN objs /\ objs[f.obj].type = f.type
      /\ Through(f.obj, f.type, 0) /\ Embedded_(f.obj, f.type, 0)
  <2>1. Len(f.embeds) = 0 /\ Len(f.slow) = 0
    BY <1>3
  <2> QED BY <1>1, <1>2, <2>1 DEF FrameOK, Done
<1>5. PICK o : o = f.obj
  OBVIOUS
<1>6. Finished(o)
  BY <1>4, <1>5 DEF Finished
<1>7. Returned(g, o)
  BY <1>1, <1>2, <1>3, <1>4, <1>5, <1>6 DEF Returned
<1>8. Returns(g, o)
  BY <1>1, <1>2, <1>5
<1> QED BY <1>7, <1>8, ReturnStep

-----------------------------------------------------------------------------
(* The theorems.                                                           *)

LEMMA InitInv == Init => CInv
<1> SUFFICES ASSUME Init
             PROVE  CInv
  OBVIOUS
<1>0. objs = <<>> /\ Len(objs) = 0
  <2>1. objs = <<>>
    BY DEF Init
  <2> QED BY <2>1
<1>1. Typed
  <2>1. objs \in Seq(ObjType)
    BY <1>0
  <2>2. cache \in [Types -> 0 .. Len(objs)] /\ got \in [Goroutines -> 0 .. Len(objs)]
    <3>1. 0 .. Len(objs) = {0}
      BY <1>0
    <3> QED BY <3>1 DEF Init
  <2>3. stack \in [Goroutines -> Seq(FrameType)]
    <3>1. <<>> \in Seq(FrameType)
      OBVIOUS
    <3> QED BY <3>1 DEF Init
  <2>4. alone \in [Goroutines -> BOOLEAN] /\ copied \subseteq Nat /\ twice \subseteq Types
    BY DEF Init
  <2> QED BY <2>1, <2>2, <2>3, <2>4 DEF Typed
<1>2. DOMAIN objs = {}
  BY <1>0
<1>3. \A g \in Goroutines : stack[g] = <<>> /\ got[g] = 0 /\ alone[g] = FALSE
  BY DEF Init
<1>4. Cached
  BY DEF Init, Cached
<1>5. Owned /\ Built
  BY <1>2 DEF Owned, Built
<1>6. Stacks
  BY <1>3 DEF Stacks, Chain
<1>7. Apart /\ Gets
  BY <1>3 DEF Apart, Gets
<1> QED BY <1>1, <1>4, <1>5, <1>6, <1>7 DEF CInv

LEMMA StutterInv == CInv /\ UNCHANGED vars => CInv'
<1> SUFFICES ASSUME CInv, UNCHANGED vars
             PROVE  CInv'
  OBVIOUS
<1>1. UNCHANGED <<objs, cache, stack, got, alone, copied, twice>>
  BY DEF vars
<1>2. Typed' /\ Cached' /\ Owned' /\ Apart'
  BY <1>1 DEF CInv, Typed, Cached, Owned, Apart, Busy
<1>3. Grows
  BY <1>1 DEF Grows
<1>4. Gets'
  BY <1>1, <1>3, GetsKept DEF CInv, Typed
<1>5. Built'
  BY <1>1, <1>3, FinishedStays DEF CInv, Built, Building
<1>6. ASSUME NEW g \in Goroutines
      PROVE  Chain(stack[g])' /\ \A i \in DOMAIN stack'[g] : FrameOK(stack[g][i])'
  <2>1. Chain(stack[g])'
    BY <1>1 DEF CInv, Stacks, Chain
  <2>2. ASSUME NEW i \in DOMAIN stack[g]
        PROVE  FrameOK(stack[g][i])'
    <3>1. PICK f \in FrameType : f = stack[g][i] /\ FrameOK(f)
      BY FrameBelow
    <3>2. FrameOK(f)'
      BY <1>3, <3>1, FrameStays DEF CInv
    <3> QED BY <1>1, <3>1, <3>2
  <2> QED BY <1>1, <2>1, <2>2
<1>7. Stacks'
  BY <1>6 DEF Stacks
<1> QED BY <1>2, <1>4, <1>5, <1>7 DEF CInv

LEMMA NextInv == CInv /\ [Next]_vars => CInv'
<1> SUFFICES ASSUME CInv, [Next]_vars
             PROVE  CInv'
  OBVIOUS
<1>1. ASSUME NEW g \in Goroutines, Load(g)
      PROVE  CInv'
  BY <1>1, MissStep, HitStep
<1>2. ASSUME NEW g \in Goroutines, Embedded(g)
      PROVE  CInv'
  BY <1>2, EmbeddedStep
<1>3. ASSUME NEW g \in Goroutines, Store(g)
      PROVE  CInv'
  BY <1>3, StoreStep
<1>4. ASSUME NEW g \in Goroutines, Defer(g)
      PROVE  CInv'
  BY <1>4, DeferStep, DeferEnd
<1>5. ASSUME NEW g \in Goroutines, NEW t \in Types, NEW j, Use(g, t, j)
      PROVE  CInv'
  BY <1>5, UseStep
<1>6. CASE UNCHANGED vars
  BY <1>6, StutterInv
<1> QED BY <1>1, <1>2, <1>3, <1>4, <1>5, <1>6 DEF Next, Step

\* What the invariant says of a model struct no call is building.
LEMMA FinishedIsComplete ==
  ASSUME CInv, NEW o \in DOMAIN objs, Finished(o), o \notin copied
  PROVE  Complete(o)
<1>1. PICK t \in Types : t = objs[o].type
  BY ObjsTyped DEF CInv
<1>2. Through(o, t, 0) /\ Embedded_(o, t, 0)
  BY <1>1 DEF Finished
<1>3. \A i \in DOMAIN Slow[t] : Settled(o, t, Slow[t][i])
  BY <1>2, Shapes DEF Through
<1>4. OwnSlow(t) \subseteq objs[o].done
  BY <1>3 DEF OwnSlow, Settled
<1>5. \A i \in DOMAIN Embeds[t] : OwnSlow(Embeds[t][i]) \subseteq objs[o].done
  BY <1>2, Shapes DEF Embedded_
<1>6. SlowOf[t] = OwnSlow(t) \cup UNION {OwnSlow(Embeds[t][i]) : i \in DOMAIN Embeds[t]}
  BY DEF SlowOf
<1>7. SlowOf[t] \subseteq objs[o].done
  BY <1>4, <1>5, <1>6
<1>8. objs[o].done \subseteq SlowOf[t]
  BY <1>1 DEF CInv, Owned
<1>9. \A i \in DOMAIN Slow[t] : Slow[t][i].kind = "belongs_to" => <<t, Slow[t][i].name>> \in objs[o].marks
  BY <1>3 DEF Settled
<1> QED BY <1>1, <1>7, <1>8, <1>9 DEF Complete

\* The inductive invariant: of every call of getModelStruct, what it has built so far;
\* of every model struct, that it is finished or that a call is building it.
THEOREM CacheInvariance == Spec => []CInv
<1>1. Init => CInv
  BY InitInv
<1>2. CInv /\ [Next]_vars => CInv'
  BY NextInv
<1> QED BY <1>1, <1>2, PTL DEF Spec

\* A use during which no other goroutine builds models gets a complete one: the deferred
\* builders of getModelStruct have run, however the models refer to one another.
THEOREM FirstUsesComplete == Spec => []FirstUseIsComplete
<1>1. CInv => FirstUseIsComplete
  <2> SUFFICES ASSUME CInv, NEW g \in Goroutines, got[g] # 0, alone[g], copied = {}
               PROVE  Complete(got[g])
    BY DEF FirstUseIsComplete
  <2>1. PICK o : o = got[g]
    OBVIOUS
  <2>2. o \in DOMAIN objs /\ Finished(o)
    BY <2>1 DEF CInv, Typed, Gets
  <2> QED BY <2>1, <2>2, FinishedIsComplete
<1> QED BY <1>1, CacheInvariance, PTL

\* When no goroutine builds, the models of modelStructsMap are complete but for copies of
\* unfinished embedded structs, in whatever order they were stored over one another, and
\* the foreign keys of has_one and has_many are marked, unless in a model stored twice.
THEOREM CachesSettle == Spec => []CacheSettles
<1>1. CInv => CacheSettles
  <2> SUFFICES ASSUME CInv, \A g \in Goroutines : ~Busy(g), NEW t \in Types, cache[t] # 0
               PROVE  /\ Complete(cache[t]) \/ cache[t] \in copied
                      /\ \A i \in DOMAIN Slow[t] : LET s == Slow[t][i] IN
                           s.kind = "has" => s.to \in twice \/ <<t, s.name>> \in objs[cache[s.to]].marks
    BY DEF CacheSettles
  <2>1. PICK o : o = cache[t]
    OBVIOUS
  <2>2. o \in DOMAIN objs /\ objs[o].type = t
    BY <2>1 DEF CInv, Typed, Cached
  <2>3. ~Building(o)
    BY DEF Busy, Building
  <2>4. Finished(o)
    BY <2>2, <2>3 DEF CInv, Built
  <2>5. Complete(o) \/ o \in copied
    BY <2>2, <2>4, FinishedIsComplete
  <2>6. \A i \in DOMAIN Slow[t] : Settled(o, t, Slow[t][i])
    BY <2>2, <2>4, Shapes DEF Finished, Through
  <2> QED BY <2>1, <2>5, <2>6 DEF Settled
<1> QED BY <1>1, CacheInvariance, PTL

=============================================================================
