-------------------------- MODULE DmReadWrite_proofs --------------------------
(***************************************************************************)
(* Proofs about DmReadWrite and DmGroup, for any connections, servers and   *)
(* configurations, in any order of endpoints and with any number of faults. *)
(***************************************************************************)
EXTENDS DmReadWrite, FiniteSetTheorems, TLAPS

-----------------------------------------------------------------------------
(* The invariant.                                                          *)

Moods == {"normal", "primary", "standby", "down"}
SocketType == [srv : Servers, ok : BOOLEAN]
SocketOrNone == Sockets \cup {None}
Session ==
  [primary : SocketOrNone, standby : SocketOrNone, standbyHost : Servers \cup {None},
   closed : BOOLEAN, distribute : Sides, trx : [Sides -> BOOLEAN], auto : BOOLEAN, stale : BOOLEAN]
Writing == Conns \X Nat \X (0 .. 2)
Notes == {"standby", "stale", "switched"}
Words == Kinds \cup Sides \cup {"commit", "rollback"}
Places == {"out", "idle", "nobody", "chosen"} \cup Looking

\* The endpoints in some order: none is missing.
Orders == {s \in [1 .. Len(Listed) -> Servers] : \A x \in Servers : \E i \in DOMAIN s : s[i] = x}

Typed ==
  /\ conf \in Confs /\ mode \in [Servers -> Moods] /\ faults \in Nat
  /\ socket \in [Sockets -> SocketType \cup {None}]
  /\ list \in Orders /\ startPos \in Nat
  /\ at \in [Conns -> Places]
  /\ order \in [Conns -> Orders \cup {<<>>}]
  /\ pos \in [Conns -> Nat] /\ cycle \in [Conns -> Nat]
  /\ new \in [Conns -> SocketOrNone] /\ seen \in [Conns -> Moods]
  /\ steady \in [Conns -> SUBSET Servers] /\ raced \in [Conns -> BOOLEAN]
  /\ ses \in [Conns -> Session] /\ inTx \in [Conns -> BOOLEAN]
  /\ opens \in [Conns -> Nat] /\ made \in [Conns -> Nat]
  /\ pend \in [Conns -> [Sides -> SUBSET Writing]] /\ done \subseteq Writing
  /\ mine \in [Conns -> SUBSET Nat] /\ spoiled \in [Conns -> SUBSET Notes]
  /\ last \in [Conns -> Seq(Words)]

\* The sockets of a connection: open, and of no other connection.
Refs(c) == {ses[c].primary, ses[c].standby, new[c]} \ {None}
Held ==
  /\ \A c \in Conns : \A k \in Refs(c) : socket[k] # None
  /\ \A c \in Conns : ses[c].primary # None => ses[c].primary # ses[c].standby
  /\ \A c, d \in Conns : c # d => Refs(c) \cap Refs(d) = {}

\* What a connection has, by where it is.
Phase(c) ==
  /\ at[c] \notin {"check", "chosen"} => new[c] = None
  /\ at[c] # "idle" => ses[c].primary = None /\ ses[c].standby = None
  /\ mu = c => at[c] \notin {"idle", "out"}
  /\ mu = c \/ at[c] = "out" => ~inTx[c]
  /\ at[c] # "idle" /\ inTx[c] => "switched" \in spoiled[c]
  /\ ~conf.separate => ses[c].standby = None
  /\ ses[c].closed /\ ses[c].primary # None => "standby" \in spoiled[c]

\* With separation a primary's session that answers is that of a primary, and then
\* the standby's is not.
Hears(k, m) == k # None /\ socket[k].ok => mode[socket[k].srv] = m
Alive(c) == ses[c].primary # None /\ socket[ses[c].primary].ok
Roles(c) == conf.separate =>
  /\ at[c] = "chosen" \/ (at[c] = "check" /\ seen[c] = "primary") => Hears(new[c], "primary")
  /\ Hears(ses[c].primary, "primary")
  /\ Alive(c) => Hears(ses[c].standby, "standby")

\* What was written: one connection's, by calls so far, each once.
Wrote(c, n, k) == <<c, n, k>> \in done \cup pend[c]["primary"] \cup pend[c]["standby"]
Record(c) ==
  /\ \A side \in Sides : \A x \in pend[c][side] : x[1] = c
  /\ \A n \in Nat, k \in 0 .. 2 : Wrote(c, n, k) => n <= made[c]
  /\ \A n \in Nat, k, l \in 0 .. 2 : Wrote(c, n, k) /\ Wrote(c, n, l) /\ k # l => "stale" \in spoiled[c]

\* In a transaction: what its calls wrote is with the side that reads are sent to.
Has(c, side) == \A n \in mine[c] : \E k \in 0 .. 2 : <<c, n, k>> \in pend[c][side]
InPrimary(c) ==
  /\ ses[c].trx["primary"] /\ ses[c].distribute = "primary"
  /\ Alive(c) /\ ~ses[c].closed => Has(c, "primary")
InStandby(c) == ~(Alive(c) /\ ~ses[c].closed) /\ (ses[c].standby # None => Has(c, "standby"))
Tx(c) == inTx[c] /\ "switched" \notin spoiled[c] =>
  /\ ~ses[c].auto
  /\ mine[c] = {} \/ InPrimary(c) \/ InStandby(c)
  /\ ~ses[c].closed => \A side \in Sides : last[c] = <<"read", side>> => Has(c, side)

\* A walk that nobody disturbs has the steady servers before it.
Stands(c) ==
  /\ at[c] \in Looking => pos[c] \in 1 .. Len(Listed)
  /\ at[c] \in Looking /\ ~conf.headFirst => order[c] \in Orders
  /\ at[c] = "dialing" => host \in Servers
Walks(c) ==
  /\ steady[c] \subseteq {s \in Servers : mode[s] = Preferred}
  /\ ~raced[c] /\ at[c] \in Looking => \A d \in Conns \ {c} : at[d] \notin Looking
  /\ ~raced[c] /\ steady[c] # {} =>
       /\ at[c] # "nobody"
       /\ at[c] = "chosen" => seen[c] = Preferred
       /\ at[c] \in Looking => cycle[c] = 0
       /\ at[c] \in Looking => \A s \in steady[c] : \E i \in pos[c] .. Len(Listed) : Dbs(c)[i] = s
       /\ at[c] = "dialing" => host = Endpoint(c)
       /\ at[c] = "check" => seen[c] = Preferred \/ Endpoint(c) \notin steady[c]

RInv ==
  /\ Typed /\ Held /\ SocketsHeld
  /\ \A c \in Conns : Phase(c) /\ Roles(c) /\ Record(c) /\ Tx(c) /\ Stands(c) /\ Walks(c)

-----------------------------------------------------------------------------
(* What a statement does to a work record.                                 *)

WorkType ==
  [s : Session, pend : [Sides -> SUBSET Writing], done : SUBSET Writing, shut : SUBSET Sockets,
   cut : SUBSET Sockets, lost : Nat, notes : SUBSET Notes]

LEMMA WorkFields ==
  ASSUME NEW w \in WorkType
  PROVE  /\ w.s \in Session /\ w.pend \in [Sides -> SUBSET Writing] /\ w.done \in SUBSET Writing
         /\ w.shut \in SUBSET Sockets /\ w.cut \in SUBSET Sockets /\ w.lost \in Nat
         /\ w.notes \in SUBSET Notes
         /\ w.s.primary \in SocketOrNone /\ w.s.standby \in SocketOrNone /\ w.s.closed \in BOOLEAN
         /\ w.s.distribute \in Sides /\ w.s.trx \in [Sides -> BOOLEAN] /\ w.s.auto \in BOOLEAN
BY DEF WorkType, Session

\* What statements leave alone.
Still(w, v) ==
  /\ v.s.primary = w.s.primary /\ v.s.standby = w.s.standby /\ v.s.closed = w.s.closed
  /\ v.s.auto = w.s.auto /\ v.s.distribute = w.s.distribute
  /\ v.shut = w.shut /\ v.notes = w.notes

\* The record with one field changed.
TrxOn(w, side) == [w EXCEPT !.s.trx[side] = TRUE]
TrxOff(w, side) == [w EXCEPT !.s.trx[side] = FALSE]
WithStale(w, b) == [w EXCEPT !.s.stale = b]
WithDone(w, x) == [w EXCEPT !.done = x]
WithPend(w, side, x) == [w EXCEPT !.pend[side] = x]
WithCut(w, x, n) == [w EXCEPT !.cut = x, !.lost = n]

LEMMA TrxSet ==
  ASSUME NEW w \in WorkType, NEW side \in Sides, NEW v, v = TrxOn(w, side)
  PROVE  /\ v \in WorkType /\ Still(w, v) /\ v.cut = w.cut /\ v.lost = w.lost
         /\ v.pend = w.pend /\ v.done = w.done
         /\ v.s.trx[side] /\ \A x \in Sides : x # side => v.s.trx[x] = w.s.trx[x]
BY DEF WorkType, Session, Still, TrxOn

LEMMA TrxUnset ==
  ASSUME NEW w \in WorkType, NEW side \in Sides, NEW v, v = TrxOff(w, side)
  PROVE  /\ v \in WorkType /\ Still(w, v) /\ v.cut = w.cut /\ v.lost = w.lost
         /\ v.pend = w.pend /\ v.done = w.done
BY DEF WorkType, Session, Still, TrxOff

LEMMA StaleSet ==
  ASSUME NEW w \in WorkType, NEW b \in BOOLEAN, NEW v, v = WithStale(w, b)
  PROVE  /\ v \in WorkType /\ Still(w, v) /\ v.cut = w.cut /\ v.lost = w.lost
         /\ v.pend = w.pend /\ v.done = w.done /\ v.s.trx = w.s.trx
BY DEF WorkType, Session, Still, WithStale

LEMMA DoneSet ==
  ASSUME NEW w \in WorkType, NEW x \in SUBSET Writing, NEW v, v = WithDone(w, x)
  PROVE  /\ v \in WorkType /\ Still(w, v) /\ v.cut = w.cut /\ v.lost = w.lost
         /\ v.pend = w.pend /\ v.done = x /\ v.s = w.s
BY DEF WorkType, Session, Still, WithDone

LEMMA PendSet ==
  ASSUME NEW w \in WorkType, NEW side \in Sides, NEW x \in SUBSET Writing, NEW v, v = WithPend(w, side, x)
  PROVE  /\ v \in WorkType /\ Still(w, v) /\ v.cut = w.cut /\ v.lost = w.lost
         /\ v.pend = [w.pend EXCEPT ![side] = x] /\ v.done = w.done /\ v.s = w.s
BY DEF WorkType, Session, Still, WithPend

LEMMA CutSet ==
  ASSUME NEW w \in WorkType, NEW x \in SUBSET Sockets, NEW n \in Nat, NEW v, v = WithCut(w, x, n)
  PROVE  /\ v \in WorkType /\ Still(w, v) /\ v.cut = x /\ v.lost = n
         /\ v.pend = w.pend /\ v.done = w.done /\ v.s = w.s
BY DEF WorkType, Session, Still, WithCut

\* What is written between two records: executions, of those in K, of the call under way.
The(c, k) == <<c, made[c] + 1, k>>
Adds(c, K, w, v) ==
  /\ w.done \subseteq v.done /\ \A x \in v.done : x \in w.done \/ \E k \in K : x = The(c, k)
  /\ \A s \in Sides : \A x \in v.pend[s] : x \in w.pend[s] \/ \E k \in K : x = The(c, k)
Ones(kind, k) == IF kind \in Writes THEN {k} ELSE {}

\* What one execution leaves: nothing is taken back, and in a transaction it is noted.
Executes(c, kind, side, k, w, v) ==
  /\ v \in WorkType /\ Still(w, v) /\ Adds(c, Ones(kind, k), w, v)
  /\ \A s \in Sides : w.pend[s] \subseteq v.pend[s] /\ (s # side => v.pend[s] = w.pend[s])
  /\ ~w.s.auto => /\ \A s \in Sides : w.s.trx[s] => v.s.trx[s]
                  /\ kind \in Writes => v.s.trx[side] /\ The(c, k) \in v.pend[side]

LEMMA RanIs ==
  ASSUME Typed, NEW c \in Conns, NEW kind \in Kinds, NEW side \in Sides, NEW k \in 0 .. 2,
         NEW w \in WorkType, NEW v \in Ran(c, kind, side, k, w)
  PROVE  Executes(c, kind, side, k, w, v) /\ v.cut = w.cut /\ v.lost = w.lost
<1> DEFINE b == IF side = "standby" THEN kind = "set" ELSE w.s.stale
           written == IF kind \in Writes THEN {<<c, made[c] + 1, k>>} ELSE {}
<1>1. w.s.stale \in BOOLEAN /\ b \in BOOLEAN
  BY DEF WorkType, Session
<1>2. PICK u : u = WithStale(w, b)
  OBVIOUS
<1>3. /\ u \in WorkType /\ Still(w, u) /\ u.cut = w.cut /\ u.lost = w.lost
      /\ u.pend = w.pend /\ u.done = w.done /\ u.s.trx = w.s.trx
  BY <1>1, <1>2, StaleSet
<1>4. written \in SUBSET Writing
  <2>1. <<c, made[c] + 1, k>> \in Writing
    BY DEF Typed, Writing
  <2> QED BY <2>1
<1>5. written = {The(c, j) : j \in Ones(kind, k)}
  BY DEF The, Ones
<1>6. w.done \in SUBSET Writing /\ w.pend \in [Sides -> SUBSET Writing]
  BY WorkFields
<1>7. Ran(c, kind, side, k, w) =
        IF u.s.auto THEN {[u EXCEPT !.done = @ \cup written, !.s.trx[side] = FALSE]}
        ELSE {[u EXCEPT !.pend[side] = @ \cup written, !.s.trx[side] = TRUE]}
             \cup (IF kind \in Writes THEN {} ELSE {u})
  <2>1. u = [w EXCEPT !.s.stale = IF side = "standby" THEN kind = "set" ELSE @]
    BY <1>2 DEF WithStale
  <2> QED BY <2>1 DEF Ran
<1> HIDE DEF written, b
<1>8. CASE u.s.auto
  <2>1. PICK t : t = WithDone(u, u.done \cup written)
    OBVIOUS
  <2>2. /\ t \in WorkType /\ Still(u, t) /\ t.cut = u.cut /\ t.lost = u.lost
        /\ t.pend = u.pend /\ t.done = u.done \cup written /\ t.s = u.s
    <3>1. u.done \cup written \in SUBSET Writing
      BY <1>3, <1>4, <1>6
    <3> QED BY <1>3, <2>1, <3>1, DoneSet
  <2>3. v = TrxOff(t, side)
    BY <1>7, <1>8, <2>1 DEF WithDone, TrxOff
  <2>4. /\ v \in WorkType /\ Still(t, v) /\ v.cut = t.cut /\ v.lost = t.lost
        /\ v.pend = t.pend /\ v.done = t.done
    BY <2>2, <2>3, TrxUnset
  <2>5. Still(w, v) /\ w.s.auto
    BY <1>3, <1>8, <2>2, <2>4 DEF Still
  <2>6. v.pend = w.pend /\ v.done = w.done \cup written
    BY <1>3, <2>2, <2>4
  <2>7. Adds(c, Ones(kind, k), w, v)
    BY <1>5, <2>6 DEF Adds
  <2> QED BY <1>3, <2>2, <2>4, <2>5, <2>6, <2>7 DEF Executes
<1>9. CASE ~u.s.auto /\ v = [u EXCEPT !.pend[side] = @ \cup written, !.s.trx[side] = TRUE]
  <2>1. PICK t : t = WithPend(u, side, u.pend[side] \cup written)
    OBVIOUS
  <2>2. /\ t \in WorkType /\ Still(u, t) /\ t.cut = u.cut /\ t.lost = u.lost
        /\ t.pend = [u.pend EXCEPT ![side] = u.pend[side] \cup written]
        /\ t.done = u.done /\ t.s = u.s
    <3>1. PICK x : x = u.pend[side] \cup written
      OBVIOUS
    <3>2. x \in SUBSET Writing
      BY <1>3, <1>4, <1>6, <3>1
    <3>3. t = WithPend(u, side, x) /\ u \in WorkType
      BY <1>3, <2>1, <3>1
    <3>4. /\ t \in WorkType /\ Still(u, t) /\ t.cut = u.cut /\ t.lost = u.lost
          /\ t.pend = [u.pend EXCEPT ![side] = x]
          /\ t.done = u.done /\ t.s = u.s
      BY <3>2, <3>3, PendSet
    <3> QED BY <3>1, <3>4
  <2>3. v = TrxOn(t, side)
    BY <1>9, <2>1 DEF WithPend, TrxOn
  <2>4. /\ v \in WorkType /\ Still(t, v) /\ v.cut = t.cut /\ v.lost = t.lost
        /\ v.pend = t.pend /\ v.done = t.done
        /\ v.s.trx[side] /\ \A x \in Sides : x # side => v.s.trx[x] = t.s.trx[x]
    BY SMTT(30), <2>2, <2>3, TrxSet
  <2>5. Still(w, v)
    BY <1>3, <2>2, <2>4 DEF Still
  <2>6. v.pend = [w.pend EXCEPT ![side] = w.pend[side] \cup written] /\ v.done = w.done
    BY <1>3, <2>2, <2>4
  <2>7. v.pend[side] = w.pend[side] \cup written /\ \A s \in Sides : s # side => v.pend[s] = w.pend[s]
    BY <1>6, <2>6
  <2>8. Adds(c, Ones(kind, k), w, v)
    BY <1>5, <2>6, <2>7 DEF Adds
  <2>9. kind \in Writes => The(c, k) \in v.pend[side]
    BY <1>5, <2>7 DEF Ones
  <2>10. \A s \in Sides : w.s.trx[s] => v.s.trx[s]
    BY <1>3, <2>2, <2>4
  <2> QED BY <1>3, <2>2, <2>4, <2>5, <2>7, <2>8, <2>9, <2>10 DEF Executes
<1>10. CASE ~u.s.auto /\ kind \notin Writes /\ v = u
  BY <1>3, <1>10 DEF Executes, Adds
<1> QED BY <1>7, <1>8, <1>9, <1>10

\* The execution writes only if the server is there and takes it.
May(kind, side, w) ==
  /\ kind \in Writes /\ Live(w, side) /\ Takes(w, side, kind)
  /\ side = "primary" => ~w.s.closed
Some(kind, side, k, w) == IF May(kind, side, w) THEN {k} ELSE {}
Keeps(w, v, side) ==
  /\ \A s \in Sides : w.pend[s] \subseteq v.pend[s] /\ (s # side => v.pend[s] = w.pend[s])
  /\ ~w.s.auto => \A s \in Sides : w.s.trx[s] => v.s.trx[s]
Told == {"bad", "comm", "error", "ok"}

\* One statement on one session.
RunsSo(c, kind, side, k, w, v, a) ==
  /\ v \in WorkType /\ Still(w, v) /\ Adds(c, Some(kind, side, k, w), w, v) /\ Keeps(w, v, side)
  /\ v.cut = w.cut \/ (w.s[side] # None /\ v.cut = w.cut \cup {w.s[side]})
  /\ a \in Told /\ (a = "bad" => side = "primary")
  /\ a = "ok" =>
       /\ Live(w, side) /\ (side = "primary" => ~w.s.closed)
       /\ kind \in Writes => May(kind, side, w)
       /\ kind \in Writes /\ ~w.s.auto => v.s.trx[side] /\ The(c, k) \in v.pend[side]

LEMMA NothingRun ==
  ASSUME NEW c, NEW kind, NEW side \in Sides, NEW k, NEW w \in WorkType, NEW a \in Told \ {"ok"},
         a = "bad" => side = "primary"
  PROVE  RunsSo(c, kind, side, k, w, w, a)
BY DEF RunsSo, Still, Adds, Keeps, Told

LEMMA RunsIs ==
  ASSUME Typed, NEW c \in Conns, NEW kind \in Kinds, NEW side \in Sides, NEW k \in 0 .. 2,
         NEW w \in WorkType, NEW r \in Runs(c, kind, side, k, w)
  PROVE  r = <<r[1], r[2]>> /\ RunsSo(c, kind, side, k, w, r[1], r[2])
<1> DEFINE after == IF Takes(w, side, kind) THEN Ran(c, kind, side, k, w) ELSE {}
           Cut(v) == WithCut(v, v.cut \cup {w.s[side]}, v.lost + 1)
<1>1. CASE side = "primary" /\ w.s.closed
  <2>1. r = <<w, "bad">>
    BY <1>1 DEF Runs
  <2> QED BY <1>1, <2>1, NothingRun DEF Told
<1>2. CASE ~(side = "primary" /\ w.s.closed) /\ ~Live(w, side)
  <2>1. r = <<w, "comm">>
    BY <1>2 DEF Runs
  <2> QED BY <2>1, NothingRun DEF Told
<1>3. CASE ~(side = "primary" /\ w.s.closed) /\ Live(w, side)
  <2>1. \/ r = <<w, "error">>
        \/ \E v \in after : r = <<v, "ok">>
        \/ \E v \in after \cup {w} : r = <<Cut(v), "comm">>
    BY <1>3 DEF Runs, WithCut
  <2>2. w.s[side] \in SocketOrNone /\ w.s[side] # None
    <3>1. w.s[side] \in SocketOrNone
      BY WorkFields DEF Sides
    <3> QED BY <1>3, <3>1 DEF Live
  <2>3. ASSUME NEW v \in after
        PROVE  /\ Executes(c, kind, side, k, w, v) /\ v.cut = w.cut /\ v.lost = w.lost
               /\ Adds(c, Some(kind, side, k, w), w, v) /\ (kind \in Writes => May(kind, side, w))
    <3>1. v \in Ran(c, kind, side, k, w) /\ Takes(w, side, kind)
      BY <2>3
    <3>2. Executes(c, kind, side, k, w, v) /\ v.cut = w.cut /\ v.lost = w.lost
      BY <3>1, RanIs
    <3>3. Some(kind, side, k, w) = Ones(kind, k)
      BY <1>3, <3>1 DEF Some, May, Ones
    <3>4. kind \in Writes => May(kind, side, w)
      BY <1>3, <3>1 DEF May
    <3> QED BY <3>2, <3>3, <3>4 DEF Executes
  <2> HIDE DEF after, Cut
  <2>4. CASE r = <<w, "error">>
    BY <2>4, NothingRun DEF Told
  <2>5. ASSUME NEW v \in after, r = <<v, "ok">>
        PROVE  r = <<r[1], r[2]>> /\ RunsSo(c, kind, side, k, w, r[1], r[2])
    <3>1. r[1] = v /\ r[2] = "ok"
      BY <2>5
    <3>2. RunsSo(c, kind, side, k, w, v, "ok")
      BY <1>3, <2>3 DEF RunsSo, Executes, Keeps, Told
    <3> QED BY <3>1, <3>2, <2>5
  <2>6. ASSUME NEW v \in after \cup {w}, r = <<Cut(v), "comm">>
        PROVE  r = <<r[1], r[2]>> /\ RunsSo(c, kind, side, k, w, r[1], r[2])
    <3>1. PICK u : u = Cut(v)
      OBVIOUS
    <3>2. r[1] = u /\ r[2] = "comm"
      BY <2>6, <3>1
    <3>3. /\ v \in WorkType /\ Still(w, v) /\ v.cut = w.cut
          /\ Adds(c, Some(kind, side, k, w), w, v) /\ Keeps(w, v, side)
      <4>1. CASE v = w
        BY <4>1 DEF Still, Adds, Keeps
      <4>2. CASE v \in after
        BY <2>3, <4>2 DEF Executes, Keeps
      <4> QED BY <4>1, <4>2
    <3>4. PICK x : x = v.cut \cup {w.s[side]}
      OBVIOUS
    <3>5. PICK n : n = v.lost + 1
      OBVIOUS
    <3>6. x \in SUBSET Sockets /\ n \in Nat
      BY <2>2, <3>3, <3>4, <3>5, WorkFields DEF SocketOrNone
    <3>7. u = WithCut(v, x, n)
      BY <3>1, <3>4, <3>5 DEF Cut
    <3>8. /\ u \in WorkType /\ Still(v, u) /\ u.cut = x /\ u.pend = v.pend /\ u.done = v.done /\ u.s = v.s
      BY <3>3, <3>6, <3>7, CutSet
    <3>9. Still(w, u)
      BY <3>3, <3>8 DEF Still
    <3>10. Adds(c, Some(kind, side, k, w), w, u) /\ Keeps(w, u, side)
      BY <3>3, <3>8 DEF Adds, Keeps
    <3>11. RunsSo(c, kind, side, k, w, u, "comm")
      BY <2>2, <3>3, <3>4, <3>8, <3>9, <3>10 DEF RunsSo, Told
    <3> QED BY <2>6, <3>2, <3>11
  <2> QED BY <2>1, <2>4, <2>5, <2>6
<1> QED BY <1>1, <1>2, <1>3

\* What a part of a call does, whatever it consists of.
Effect(c, K, w, v) ==
  /\ v \in WorkType
  /\ v.s.primary = w.s.primary /\ v.s.closed = w.s.closed /\ v.s.auto = w.s.auto
  /\ \/ v.s.standby = w.s.standby /\ v.shut = w.shut
     \/ v.s.standby = None /\ v.shut = w.shut \cup ({w.s.standby} \ {None})
  /\ w.cut \subseteq v.cut /\ v.cut \subseteq w.cut \cup ({w.s.primary, w.s.standby} \ {None})
  /\ w.notes \subseteq v.notes /\ v.notes \subseteq w.notes \cup {"stale"}
  /\ Adds(c, K, w, v)
  /\ w.pend["primary"] \subseteq v.pend["primary"]
  /\ v.s.standby # None => w.pend["standby"] \subseteq v.pend["standby"]
  /\ ~w.s.auto /\ w.s.trx["primary"] => v.s.trx["primary"]

LEMMA SideOf ==
  ASSUME NEW w \in WorkType
  PROVE  w.s["primary"] = w.s.primary /\ w.s["standby"] = w.s.standby
OBVIOUS

LEMMA RunsEffect ==
  ASSUME NEW c, NEW kind, NEW side \in Sides, NEW k, NEW w \in WorkType, NEW v, NEW a,
         RunsSo(c, kind, side, k, w, v, a)
  PROVE  Effect(c, Some(kind, side, k, w), w, v)
<1>1. w.s[side] \in {w.s.primary, w.s.standby}
  BY SideOf DEF Sides
<1>2. w.cut \subseteq v.cut /\ v.cut \subseteq w.cut \cup ({w.s.primary, w.s.standby} \ {None})
  BY <1>1 DEF RunsSo
<1>3. /\ \A s \in Sides : w.pend[s] \subseteq v.pend[s]
      /\ ~w.s.auto /\ w.s.trx["primary"] => v.s.trx["primary"]
  BY DEF RunsSo, Keeps, Sides
<1> QED BY <1>2, <1>3 DEF RunsSo, Effect, Still, Sides

LEMMA AddsTwice ==
  ASSUME NEW c, NEW K, NEW L, NEW w, NEW u, NEW v, Adds(c, K, w, u), Adds(c, L, u, v)
  PROVE  Adds(c, K \cup L, w, v)
BY DEF Adds

LEMMA EffectTwice ==
  ASSUME NEW c, NEW K, NEW L, NEW w \in WorkType, NEW u, NEW v, Effect(c, K, w, u), Effect(c, L, u, v)
  PROVE  Effect(c, K \cup L, w, v)
<1>1. Adds(c, K \cup L, w, v)
  BY AddsTwice DEF Effect
<1>2. \/ v.s.standby = w.s.standby /\ v.shut = w.shut
      \/ v.s.standby = None /\ v.shut = w.shut \cup ({w.s.standby} \ {None})
  BY DEF Effect
<1>3. w.cut \subseteq v.cut /\ v.cut \subseteq w.cut \cup ({w.s.primary, w.s.standby} \ {None})
  BY DEF Effect
<1>4. v.s.standby # None => w.pend["standby"] \subseteq v.pend["standby"]
  BY DEF Effect
<1> QED BY <1>1, <1>2, <1>3, <1>4 DEF Effect

LEMMA EffectNone ==
  ASSUME NEW c, NEW w \in WorkType
  PROVE  Effect(c, {}, w, w)
BY DEF Effect, Adds

LEMMA DroppedIs ==
  ASSUME NEW c, NEW w \in WorkType, NEW v, v = Dropped(w)
  PROVE  Effect(c, {}, w, v) /\ v.s.standby = None /\ v.s.distribute = w.s.distribute
<1>1. v \in WorkType /\ v.s.standby = None /\ v.s.distribute = w.s.distribute
  BY DEF Dropped, WorkType, Session, SocketOrNone, Sides
<1>2. v.pend["standby"] = {} /\ v.pend["primary"] = w.pend["primary"]
  BY DEF Dropped, WorkType, Sides
<1>3. v.done = w.done /\ v.cut = w.cut /\ v.notes = w.notes /\ v.shut = w.shut \cup ({w.s.standby} \ {None})
  BY DEF Dropped, WorkType
<1>4. v.s.primary = w.s.primary /\ v.s.closed = w.s.closed /\ v.s.auto = w.s.auto /\ v.s.trx = w.s.trx
  BY DEF Dropped, WorkType, Session
<1>5. Adds(c, {}, w, v)
  BY <1>2, <1>3 DEF Adds, Sides
<1> QED BY <1>1, <1>2, <1>3, <1>4, <1>5 DEF Effect

LEMMA ToPrimaryIs ==
  ASSUME NEW c, NEW w \in WorkType, NEW v, v = ToPrimary(w)
  PROVE  /\ Effect(c, {}, w, v) /\ v.s.distribute = "primary" /\ v.s.standby = w.s.standby
         /\ v.cut = w.cut /\ v.notes = w.notes
<1>1. v \in WorkType /\ v.s.distribute = "primary" /\ v.s.standby = w.s.standby /\ v.shut = w.shut
  BY DEF ToPrimary, WorkType, Session, Sides
<1>2. v.pend = w.pend /\ v.done = w.done /\ v.cut = w.cut /\ v.notes = w.notes
  BY DEF ToPrimary, WorkType
<1>3. v.s.primary = w.s.primary /\ v.s.closed = w.s.closed /\ v.s.auto = w.s.auto /\ v.s.trx = w.s.trx
  BY DEF ToPrimary, WorkType, Session
<1>4. Adds(c, {}, w, v)
  BY <1>2 DEF Adds, Sides
<1> QED BY <1>1, <1>2, <1>3, <1>4 DEF Effect

WithNote(w) == [w EXCEPT !.notes = @ \cup {"stale"}]
LEMMA NoteIs ==
  ASSUME NEW c, NEW w \in WorkType, NEW v, v = WithNote(w)
  PROVE  /\ Effect(c, {}, w, v) /\ v.s = w.s /\ "stale" \in v.notes
<1>1. v \in WorkType /\ v.s = w.s /\ v.shut = w.shut
  <2>1. w.notes \cup {"stale"} \in SUBSET Notes
    BY WorkFields DEF Notes
  <2> QED BY <2>1 DEF WithNote, WorkType
<1>2. v.pend = w.pend /\ v.done = w.done /\ v.cut = w.cut /\ v.notes = w.notes \cup {"stale"}
  BY DEF WithNote, WorkType
<1>3. Adds(c, {}, w, v)
  BY <1>2 DEF Adds, Sides
<1> QED BY <1>1, <1>2, <1>3 DEF Effect

\* The session on the primary that a call can use.
Serves(w) == Live(w, "primary") /\ ~w.s.closed

LEMMA ServedBefore ==
  ASSUME NEW c, NEW K, NEW w \in WorkType, NEW v, Effect(c, K, w, v), Serves(v)
  PROVE  Serves(w)
<1>1. v.s["primary"] = w.s["primary"]
  BY SideOf DEF Effect
<1> QED BY <1>1 DEF Serves, Live, Effect

\* A statement that failed on the standby: at most one execution more, unless the last
\* statement there was a setting.
TurnedSo(c, kind, w, v, a) ==
  /\ \E K \in SUBSET {1, 2} :
       /\ Effect(c, K, w, v)
       /\ K # {} => kind \in Writes /\ Serves(w)
       /\ "stale" \in v.notes \/ K \subseteq {2}
  /\ v.s.standby = w.s.standby /\ v.s.distribute = "primary" /\ a \in Told
  /\ a = "ok" =>
       /\ Serves(w)
       /\ kind \in Writes /\ ~w.s.auto => v.s.trx["primary"] /\ The(c, 2) \in v.pend["primary"]

LEMMA TurnedOnce ==
  ASSUME Typed, NEW c \in Conns, NEW kind \in Kinds, NEW w \in WorkType, NEW r \in Runs(c, kind, "primary", 2, ToPrimary(w))
  PROVE  /\ r = <<r[1], r[2]>> /\ r[2] \in Told
         /\ \E K \in SUBSET {2} : Effect(c, K, w, r[1]) /\ (K # {} => kind \in Writes /\ Serves(w))
         /\ r[1].s.standby = w.s.standby /\ r[1].s.distribute = "primary"
         /\ r[2] = "ok" =>
              /\ Serves(w)
              /\ kind \in Writes /\ ~w.s.auto =>
                   r[1].s.trx["primary"] /\ The(c, 2) \in r[1].pend["primary"]
<1>1. PICK u : u = ToPrimary(w)
  OBVIOUS
<1>2. /\ Effect(c, {}, w, u) /\ u.s.distribute = "primary" /\ u.s.standby = w.s.standby
      /\ u.cut = w.cut /\ u.notes = w.notes
  BY <1>1, ToPrimaryIs
<1>3. PICK v : v = r[1]
  OBVIOUS
<1>4. PICK a : a = r[2]
  OBVIOUS
<1>5. u \in WorkType /\ "primary" \in Sides /\ 2 \in 0 .. 2
  BY <1>2 DEF Effect, Sides
<1>6. r = <<v, a>> /\ RunsSo(c, kind, "primary", 2, u, v, a)
  BY <1>1, <1>3, <1>4, <1>5, RunsIs
<1>7. Effect(c, Some(kind, "primary", 2, u), u, v)
  BY <1>5, <1>6, RunsEffect
<1>8. PICK K \in SUBSET {2} : K = {} \cup Some(kind, "primary", 2, u)
  BY DEF Some
<1>9. Effect(c, K, w, v)
  BY <1>2, <1>7, <1>8, EffectTwice
<1>10. Serves(u) => Serves(w)
  BY <1>2, ServedBefore
<1>11. K # {} => kind \in Writes /\ Serves(w)
  BY <1>8, <1>10 DEF Some, May, Serves
<1>12. v.s.standby = w.s.standby /\ v.s.distribute = "primary" /\ a \in Told
  BY <1>2, <1>6 DEF RunsSo, Still
<1>13. a = "ok" => Serves(u)
  BY <1>6 DEF RunsSo, Serves
<1>14. a = "ok" /\ kind \in Writes /\ ~w.s.auto => v.s.trx["primary"] /\ The(c, 2) \in v.pend["primary"]
  BY <1>2, <1>6 DEF RunsSo, Effect
<1> QED BY <1>3, <1>4, <1>6, <1>9, <1>10, <1>11, <1>12, <1>13, <1>14

LEMMA TurnedIs ==
  ASSUME Typed, NEW c \in Conns, NEW kind \in Kinds, NEW w \in WorkType, NEW plain,
         NEW r \in Turned(c, kind, w, plain)
  PROVE  r = <<r[1], r[2], "primary">> /\ TurnedSo(c, kind, w, r[1], r[2])
<1>1. CASE ~(plain /\ w.s.stale)
  <2>1. PICK q \in Runs(c, kind, "primary", 2, ToPrimary(w)) : r = <<q[1], q[2], "primary">>
    BY <1>1 DEF Turned
  <2>2. /\ q[2] \in Told
        /\ \E K \in SUBSET {2} : Effect(c, K, w, q[1]) /\ (K # {} => kind \in Writes /\ Serves(w))
        /\ q[1].s.standby = w.s.standby /\ q[1].s.distribute = "primary"
        /\ q[2] = "ok" =>
             /\ Serves(w)
             /\ kind \in Writes /\ ~w.s.auto =>
                  q[1].s.trx["primary"] /\ The(c, 2) \in q[1].pend["primary"]
    BY TurnedOnce
  <2>3. PICK v : v = q[1]
    OBVIOUS
  <2>4. TurnedSo(c, kind, w, v, q[2])
    BY <2>2, <2>3 DEF TurnedSo
  <2> QED BY <2>1, <2>3, <2>4
<1>2. CASE plain /\ w.s.stale
  <2>1. PICK p \in Runs(c, kind, "primary", 1, w) :
          \E q \in Runs(c, kind, "primary", 2, ToPrimary(WithNote(p[1]))) : r = <<q[1], q[2], "primary">>
    <3> DEFINE us == {WithNote(q[1]) : q \in Runs(c, kind, "primary", 1, w)}
    <3>1. us = {[q[1] EXCEPT !.notes = @ \cup {"stale"}] : q \in Runs(c, kind, "primary", 1, w)}
      BY DEF WithNote
    <3> HIDE DEF us
    <3>2. Turned(c, kind, w, plain) =
            UNION {{<<q[1], q[2], "primary">> : q \in Runs(c, kind, "primary", 2, ToPrimary(u))} : u \in us}
      BY <1>2, <3>1 DEF Turned
    <3>3. PICK u \in us : r \in {<<q[1], q[2], "primary">> : q \in Runs(c, kind, "primary", 2, ToPrimary(u))}
      BY <3>2
    <3>4. PICK p \in Runs(c, kind, "primary", 1, w) : u = WithNote(p[1])
      BY DEF us
    <3> QED BY <3>3, <3>4
  <2>2. PICK t : t = p[1]
    OBVIOUS
  <2>3. PICK u : u = WithNote(t)
    OBVIOUS
  <2>4. PICK q \in Runs(c, kind, "primary", 2, ToPrimary(u)) : r = <<q[1], q[2], "primary">>
    BY <2>1, <2>2, <2>3
  <2>5. "primary" \in Sides /\ 1 \in 0 .. 2
    BY DEF Sides
  <2>6. RunsSo(c, kind, "primary", 1, w, t, p[2])
    BY <2>2, <2>5, RunsIs
  <2>7. Effect(c, Some(kind, "primary", 1, w), w, t) /\ t \in WorkType /\ t.s.standby = w.s.standby
    BY <2>5, <2>6, RunsEffect DEF RunsSo, Still
  <2>8. Effect(c, {}, t, u) /\ u.s = t.s /\ "stale" \in u.notes /\ u \in WorkType
    BY <2>3, <2>7, NoteIs DEF Effect
  <2>9. PICK J \in SUBSET {1} : J = Some(kind, "primary", 1, w) \cup {}
    BY DEF Some
  <2>10. Effect(c, J, w, u)
    BY <2>7, <2>8, <2>9, EffectTwice
  <2>11. J # {} => kind \in Writes /\ Serves(w)
    BY <2>9 DEF Some, May, Serves
  <2>12. Serves(u) => Serves(w)
    BY <2>10, ServedBefore
  <2>13. PICK v : v = q[1]
    OBVIOUS
  <2>14. /\ q[2] \in Told
         /\ \E K \in SUBSET {2} : Effect(c, K, u, v) /\ (K # {} => kind \in Writes /\ Serves(u))
         /\ v.s.standby = u.s.standby /\ v.s.distribute = "primary"
         /\ q[2] = "ok" =>
              /\ Serves(u)
              /\ kind \in Writes /\ ~u.s.auto =>
                   v.s.trx["primary"] /\ The(c, 2) \in v.pend["primary"]
    BY <2>8, <2>13, TurnedOnce
  <2>15. PICK K \in SUBSET {2} : Effect(c, K, u, v) /\ (K # {} => kind \in Writes /\ Serves(u))
    BY <2>14
  <2>16. PICK L \in SUBSET {1, 2} : L = J \cup K
    OBVIOUS
  <2>17. Effect(c, L, w, v)
    BY <2>10, <2>15, <2>16, EffectTwice
  <2>18. L # {} => kind \in Writes /\ Serves(w)
    BY <2>11, <2>12, <2>15, <2>16
  <2>19. "stale" \in v.notes /\ u.s.auto = w.s.auto
    BY <2>8, <2>10, <2>15 DEF Effect
  <2>20. v.s.standby = w.s.standby
    BY <2>7, <2>8, <2>14
  <2>21. TurnedSo(c, kind, w, v, q[2])
    BY <2>12, <2>14, <2>17, <2>18, <2>19, <2>20 DEF TurnedSo
  <2> QED BY <2>4, <2>13, <2>21
<1> QED BY <1>1, <1>2

\* The record a call begins with, once its side is chosen.
Begins(c, side) == [Work(c) EXCEPT !.s.distribute = side]

LEMMA WorkIs ==
  ASSUME Typed, NEW c \in Conns
  PROVE  /\ Work(c) \in WorkType /\ Work(c).s = ses[c] /\ Work(c).pend = pend[c] /\ Work(c).done = done
         /\ Work(c).shut = {} /\ Work(c).cut = {} /\ Work(c).lost = 0 /\ Work(c).notes = spoiled[c]
BY DEF Typed, Work, WorkType

LEMMA BeginsIs ==
  ASSUME Typed, NEW c \in Conns, NEW side \in Sides, NEW w, w = Begins(c, side)
  PROVE  /\ w \in WorkType /\ Effect(c, {}, Work(c), w) /\ w.s.distribute = side
         /\ w.s.standby = ses[c].standby /\ (Live(w, "primary") <=> Alive(c))
<1>1. PICK b \in WorkType : b = Work(c)
  BY WorkIs
<1>2. w = [b EXCEPT !.s.distribute = side]
  BY <1>1 DEF Begins
<1>3. /\ w \in WorkType /\ w.s.distribute = side /\ w.s.standby = b.s.standby /\ w.s.primary = b.s.primary
      /\ w.s.closed = b.s.closed /\ w.s.auto = b.s.auto /\ w.s.trx = b.s.trx
  BY <1>2 DEF WorkType, Session
<1>4. /\ w.pend = b.pend /\ w.done = b.done /\ w.shut = b.shut /\ w.cut = b.cut /\ w.notes = b.notes
  BY <1>2 DEF WorkType
<1>5. Adds(c, {}, b, w)
  BY <1>4 DEF Adds
<1>6. Effect(c, {}, b, w)
  BY <1>3, <1>4, <1>5 DEF Effect
<1>7. w.s["primary"] = ses[c].primary /\ w.cut = {}
  BY <1>1, <1>3, <1>4, WorkIs, SideOf
<1>8. Live(w, "primary") <=> Alive(c)
  BY <1>7 DEF Live, Answers, Alive
<1> QED BY <1>1, <1>3, <1>6, <1>8, WorkIs

\* A standby takes no writes while the primary's session answers.
LEMMA StandbyRefuses ==
  ASSUME Typed, NEW c \in Conns, Phase(c), Roles(c), NEW kind, NEW w, w = Begins(c, "standby"),
         May(kind, "standby", w)
  PROVE  ~Alive(c)
<1> SUFFICES ASSUME Alive(c) PROVE FALSE
  OBVIOUS
<1>1. w.s["standby"] = ses[c].standby /\ w \in WorkType
  BY BeginsIs, SideOf DEF Sides
<1>2. PICK k : k = ses[c].standby
  OBVIOUS
<1>3. k # None /\ socket[k].ok /\ mode[socket[k].srv] \in {"primary", "normal"}
  BY <1>1, <1>2 DEF May, Live, Answers, Takes
<1>4. conf.separate
  BY <1>2, <1>3 DEF Phase, Typed
<1>5. Hears(k, "standby")
  BY <1>2, <1>4 DEF Roles
<1> QED BY <1>3, <1>5 DEF Hears

\* The call as a whole.
CallSo(c, kind, v, a, side) ==
  /\ side \in Sides /\ a \in Told
  /\ \E K \in SUBSET (0 .. 2) :
       /\ Effect(c, K, Work(c), v) /\ (K # {} => kind \in Writes)
       /\ "stale" \in v.notes \/ \E k \in 0 .. 2 : K \subseteq {k}
  /\ a = "ok" /\ side = "primary" =>
       /\ Alive(c) /\ ~ses[c].closed
       /\ kind \in Writes /\ ~ses[c].auto =>
            /\ v.s.trx["primary"] /\ v.s.distribute = "primary"
            /\ \E k \in 0 .. 2 : The(c, k) \in v.pend["primary"]
  /\ a = "ok" /\ side = "standby" =>
       /\ v.s.standby # None
       /\ kind \in Writes /\ ~ses[c].auto =>
            ~Alive(c) /\ \E k \in 0 .. 2 : The(c, k) \in v.pend["standby"]
  /\ ~ses[c].auto /\ ses[c].trx["primary"] /\ ses[c].distribute = "primary" =>
       side = "primary" /\ v.s.distribute = "primary"

LEMMA TurnedCall ==
  ASSUME Typed, NEW c \in Conns, NEW kind, NEW w, w = Begins(c, "standby"),
         NEW J \in SUBSET {0}, NEW u, Effect(c, J, w, u), J # {} => kind \in Writes /\ ~Alive(c),
         NEW v, NEW a, TurnedSo(c, kind, u, v, a)
  PROVE  CallSo(c, kind, v, a, "primary")
<1>1. /\ w \in WorkType /\ Effect(c, {}, Work(c), w) /\ (Live(w, "primary") <=> Alive(c))
  BY BeginsIs DEF Sides
<1>2. PICK b \in WorkType : b = Work(c) /\ b.s = ses[c]
  BY WorkIs
<1>3. PICK K \in SUBSET {1, 2} :
        /\ Effect(c, K, u, v)
        /\ K # {} => kind \in Writes /\ Serves(u)
        /\ "stale" \in v.notes \/ K \subseteq {2}
  BY DEF TurnedSo
<1>4. Effect(c, {} \cup J, b, u)
  BY <1>1, <1>2, EffectTwice
<1>5. PICK L \in SUBSET (0 .. 2) : L = ({} \cup J) \cup K
  <2>1. \A x \in J : x \in 0 .. 2
    OBVIOUS
  <2>2. \A x \in K : x \in 0 .. 2
    OBVIOUS
  <2>3. ({} \cup J) \cup K \in SUBSET (0 .. 2)
    BY <2>1, <2>2
  <2> QED BY <2>3
<1>6. Effect(c, L, b, v)
  BY <1>2, <1>3, <1>4, <1>5, EffectTwice
<1>7. Serves(u) => Alive(c) /\ ~ses[c].closed
  <2>1. Serves(u) => Serves(w)
    BY <1>1, ServedBefore
  <2>2. w.s.closed = b.s.closed
    BY <1>1, <1>2 DEF Effect
  <2> QED BY <1>1, <1>2, <2>1, <2>2 DEF Serves
<1>8. L # {} => kind \in Writes
  BY <1>3, <1>5
<1>9. "stale" \in v.notes \/ \E k \in 0 .. 2 : L \subseteq {k}
  <2>1. CASE J = {}
    <3>1. 2 \in 0 .. 2 /\ L = K
      BY <1>5, <2>1
    <3> QED BY <1>3, <3>1
  <2>2. CASE J # {}
    <3>1. K = {}
      BY <1>3, <1>7, <2>2
    <3>2. 0 \in 0 .. 2 /\ L \subseteq {0}
      BY <1>5, <3>1
    <3> QED BY <3>2
  <2> QED BY <2>1, <2>2
<1>10. u.s.auto = ses[c].auto
  BY <1>2, <1>4 DEF Effect
<1>11. v.s.distribute = "primary" /\ a \in Told
  BY DEF TurnedSo
<1>12. a = "ok" =>
         /\ Alive(c) /\ ~ses[c].closed
         /\ kind \in Writes /\ ~ses[c].auto =>
              /\ v.s.trx["primary"] /\ v.s.distribute = "primary"
              /\ \E k \in 0 .. 2 : The(c, k) \in v.pend["primary"]
  <2>1. 2 \in 0 .. 2
    OBVIOUS
  <2> QED BY <1>7, <1>10, <1>11, <2>1 DEF TurnedSo
<1> QED BY <1>2, <1>6, <1>8, <1>9, <1>11, <1>12 DEF CallSo, Sides

LEMMA OnPrimaryIs ==
  ASSUME Typed, NEW c \in Conns, NEW kind \in Kinds, NEW w, w = Begins(c, "primary"),
         NEW r \in OnPrimary(c, kind, w)
  PROVE  CallSo(c, kind, r[1], r[2], r[3])
<1>1. /\ w \in WorkType /\ Effect(c, {}, Work(c), w) /\ (Live(w, "primary") <=> Alive(c))
      /\ w.s.distribute = "primary"
  BY BeginsIs DEF Sides
<1>2. PICK b \in WorkType : b = Work(c) /\ b.s = ses[c]
  BY WorkIs
<1>3. PICK p \in Runs(c, kind, "primary", 0, w) :
        r \in IF p[2] = "ok" /\ kind = "set" /\ w.s.standby # None
              THEN {<<q[1], "ok", "primary">> : q \in Runs(c, kind, "standby", 0, p[1])}
              ELSE {<<p[1], p[2], "primary">>}
  BY DEF OnPrimary
<1>4. PICK u : u = p[1]
  OBVIOUS
<1>5. RunsSo(c, kind, "primary", 0, w, u, p[2])
  BY <1>1, <1>3, <1>4, RunsIs DEF Sides
<1>6. PICK K \in SUBSET {0} : K = Some(kind, "primary", 0, w)
  BY DEF Some
<1>7. Effect(c, K, w, u) /\ u \in WorkType /\ u.s.distribute = "primary"
  BY <1>1, <1>5, <1>6, RunsEffect DEF Sides, RunsSo, Still
<1>8. Effect(c, {} \cup K, b, u)
  BY <1>1, <1>2, <1>7, EffectTwice
<1>9. K # {} => kind \in Writes
  BY <1>6 DEF Some, May
<1>10. p[2] \in Told /\ (p[2] = "ok" => Alive(c) /\ ~ses[c].closed)
  BY <1>1, <1>2, <1>5 DEF RunsSo, Effect
<1>11. CASE p[2] = "ok" /\ kind = "set" /\ w.s.standby # None
  <2>1. PICK q \in Runs(c, kind, "standby", 0, u) : r = <<q[1], "ok", "primary">>
    BY <1>3, <1>4, <1>11
  <2>2. PICK v : v = q[1]
    OBVIOUS
  <2>3. RunsSo(c, kind, "standby", 0, u, v, q[2])
    BY <1>7, <2>1, <2>2, RunsIs DEF Sides
  <2>4. kind \notin Writes
    BY <1>11 DEF Writes
  <2>5. Some(kind, "standby", 0, u) = {} /\ K = {}
    BY <1>9, <2>4 DEF Some, May
  <2>6. Effect(c, {}, u, v) /\ v.s.distribute = "primary"
    <3>1. Effect(c, Some(kind, "standby", 0, u), u, v)
      BY <1>7, <2>3, RunsEffect DEF Sides
    <3>2. v.s.distribute = u.s.distribute
      BY <2>3 DEF RunsSo, Still
    <3> QED BY <1>7, <2>5, <3>1, <3>2
  <2>7. PICK L \in SUBSET (0 .. 2) : L = ({} \cup K) \cup {}
    OBVIOUS
  <2>8. Effect(c, L, b, v) /\ L = {}
    BY <1>2, <1>8, <2>5, <2>6, <2>7, EffectTwice
  <2>9. 0 \in 0 .. 2 /\ L \subseteq {0}
    BY <2>8
  <2>10. CallSo(c, kind, v, "ok", "primary")
    BY <1>2, <1>10, <1>11, <2>4, <2>6, <2>8, <2>9 DEF CallSo, Sides, Told
  <2> QED BY <2>1, <2>2, <2>10
<1>12. CASE ~(p[2] = "ok" /\ kind = "set" /\ w.s.standby # None)
  <2>1. r = <<u, p[2], "primary">>
    BY <1>3, <1>4, <1>12
  <2>2. PICK L \in SUBSET (0 .. 2) : L = {} \cup K
    OBVIOUS
  <2>3. 0 \in 0 .. 2 /\ L \subseteq {0} /\ (L # {} => kind \in Writes) /\ Effect(c, L, b, u)
    BY <1>8, <1>9, <2>2
  <2>4. w.s.auto = ses[c].auto
    BY <1>1, <1>2 DEF Effect
  <2>5. p[2] = "ok" /\ kind \in Writes /\ ~ses[c].auto => u.s.trx["primary"] /\ The(c, 0) \in u.pend["primary"]
    BY <1>5, <2>4 DEF RunsSo
  <2>6. CallSo(c, kind, u, p[2], "primary")
    BY <1>2, <1>7, <1>10, <2>3, <2>5 DEF CallSo, Sides
  <2> QED BY <2>1, <2>6
<1> QED BY <1>11, <1>12

LEMMA OnStandbyIs ==
  ASSUME Typed, NEW c \in Conns, Phase(c), Roles(c), NEW kind \in Kinds, NEW plain,
         ~(~ses[c].auto /\ ses[c].trx["primary"] /\ ses[c].distribute = "primary"),
         NEW w, w = Begins(c, "standby"), NEW r \in OnStandby(c, kind, w, plain)
  PROVE  CallSo(c, kind, r[1], r[2], r[3])
<1>1. /\ w \in WorkType /\ Effect(c, {}, Work(c), w) /\ w.s.standby = ses[c].standby
  BY BeginsIs DEF Sides
<1>2. PICK b \in WorkType : b = Work(c) /\ b.s = ses[c]
  BY WorkIs
<1>3. PICK p \in Runs(c, kind, "standby", 0, w) :
        r \in CASE p[2] = "comm" -> Turned(c, kind, Dropped(p[1]), plain)
                [] p[2] = "error" -> Turned(c, kind, p[1], plain)
                [] OTHER ->
                     IF kind = "set" THEN {<<q[1], "ok", "standby">> : q \in Runs(c, kind, "primary", 0, p[1])}
                     ELSE {<<p[1], "ok", "standby">>} \cup
                            (IF conf.rwHA /\ kind = "read" THEN Turned(c, kind, p[1], plain) ELSE {})
  BY DEF OnStandby
<1>4. PICK u : u = p[1]
  OBVIOUS
<1>5. RunsSo(c, kind, "standby", 0, w, u, p[2])
  BY <1>1, <1>3, <1>4, RunsIs DEF Sides
<1>6. PICK K \in SUBSET {0} : K = Some(kind, "standby", 0, w)
  BY DEF Some
<1>7. Effect(c, K, w, u) /\ u \in WorkType /\ u.s.standby = w.s.standby
  BY ZenonT(60), <1>1, <1>5, <1>6, RunsEffect DEF Sides, RunsSo, Still
<1>8. K # {} => kind \in Writes /\ ~Alive(c)
  <2>1. K # {} => May(kind, "standby", w)
    BY <1>6 DEF Some
  <2> QED BY <2>1, StandbyRefuses DEF May
<1>9. ASSUME NEW t \in WorkType, Effect(c, K, w, t), r \in Turned(c, kind, t, plain)
      PROVE  CallSo(c, kind, r[1], r[2], r[3])
  <2>1. r = <<r[1], r[2], "primary">> /\ TurnedSo(c, kind, t, r[1], r[2])
    BY <1>9, TurnedIs
  <2>2. PICK v : v = r[1]
    OBVIOUS
  <2>3. PICK a : a = r[2]
    OBVIOUS
  <2>4. r[3] = "primary" /\ TurnedSo(c, kind, t, v, a)
    BY <2>1, <2>2, <2>3
  <2>5. CallSo(c, kind, v, a, "primary")
    BY <1>8, <1>9, <2>4, TurnedCall
  <2> QED BY <2>2, <2>3, <2>4, <2>5
<1>10. CASE p[2] = "comm"
  <2>1. PICK t : t = Dropped(u)
    OBVIOUS
  <2>2. Effect(c, {}, u, t)
    BY <1>7, <2>1, DroppedIs
  <2>3. Effect(c, K \cup {}, w, t)
    BY <1>1, <1>7, <2>2, EffectTwice
  <2>4. Effect(c, K, w, t) /\ t \in WorkType
    <3>1. K \cup {} = K
      OBVIOUS
    <3> QED BY <2>2, <2>3, <3>1 DEF Effect
  <2>5. r \in Turned(c, kind, t, plain)
    BY <1>3, <1>4, <1>10, <2>1
  <2> QED BY <1>9, <2>4, <2>5
<1>11. CASE p[2] = "error"
  <2>1. r \in Turned(c, kind, u, plain)
    BY <1>3, <1>4, <1>11
  <2> QED BY <1>7, <1>9, <2>1
<1>12. CASE p[2] \notin {"comm", "error"}
  <2>1. p[2] = "ok"
    BY <1>5, <1>12 DEF RunsSo, Told
  <2>2. u.s.standby # None
    BY <1>1, <1>5, <1>7, <2>1, SideOf DEF RunsSo, Live, Answers
  <2>3. PICK L \in SUBSET (0 .. 2) : L = {} \cup K
    OBVIOUS
  <2>4. Effect(c, L, b, u) /\ (L # {} => kind \in Writes) /\ L \subseteq {0} /\ 0 \in 0 .. 2
    BY <1>1, <1>2, <1>7, <1>8, <2>3, EffectTwice
  <2>5. CASE kind = "set"
    <3>1. PICK q \in Runs(c, kind, "primary", 0, u) : r = <<q[1], "ok", "standby">>
      BY <1>3, <1>4, <2>1, <2>5
    <3>2. PICK v : v = q[1]
      OBVIOUS
    <3>3. RunsSo(c, kind, "primary", 0, u, v, q[2])
      BY <1>7, <3>1, <3>2, RunsIs DEF Sides
    <3>4. kind \notin Writes
      BY <2>5 DEF Writes
    <3>5. Some(kind, "primary", 0, u) = {} /\ L = {}
      BY <2>4, <3>4 DEF Some, May
    <3>6. Effect(c, Some(kind, "primary", 0, u), u, v) /\ v.s.standby = u.s.standby
      BY <1>7, <3>3, RunsEffect DEF RunsSo, Still, Sides
    <3>7. PICK M \in SUBSET (0 .. 2) : M = L \cup {}
      OBVIOUS
    <3>8. Effect(c, M, b, v) /\ M = {} /\ M \subseteq {0}
      <4>1. Effect(c, {}, u, v)
        BY <3>5, <3>6
      <4>2. Effect(c, M, b, v)
        BY <1>2, <2>4, <3>7, <4>1, EffectTwice
      <4> QED BY <3>5, <3>7, <4>2
    <3>9. CallSo(c, kind, v, "ok", "standby")
      BY <1>2, <2>2, <2>4, <3>4, <3>6, <3>8 DEF CallSo, Sides, Told
    <3> QED BY <3>1, <3>2, <3>9
  <2>6. CASE kind # "set" /\ r = <<u, "ok", "standby">>
    <3>1. w.s.auto = ses[c].auto
      BY <1>1, <1>2 DEF Effect
    <3>2. kind \in Writes => ~Alive(c)
      BY <1>5, <2>1, StandbyRefuses DEF RunsSo
    <3>3. kind \in Writes /\ ~ses[c].auto => The(c, 0) \in u.pend["standby"]
      BY <1>5, <2>1, <3>1 DEF RunsSo
    <3>4. CallSo(c, kind, u, "ok", "standby")
      BY <1>2, <2>2, <2>4, <3>2, <3>3 DEF CallSo, Sides, Told
    <3> QED BY <2>6, <3>4
  <2>7. CASE kind # "set" /\ r \in Turned(c, kind, u, plain)
    BY <1>7, <1>9, <2>7
  <2> QED BY <1>3, <1>4, <2>1, <2>5, <2>6, <2>7
<1> QED BY <1>10, <1>11, <1>12

LEMMA ExecutedIs ==
  ASSUME Typed, NEW c \in Conns, Phase(c), Roles(c), NEW kind \in Kinds, NEW plain,
         NEW r \in Executed(c, kind, plain)
  PROVE  CallSo(c, kind, r[1], r[2], r[3])
<1>1. PICK side \in Spread(ses[c], kind) :
        r \in IF side = "primary" THEN OnPrimary(c, kind, Begins(c, side))
              ELSE OnStandby(c, kind, Begins(c, side), plain)
  BY DEF Executed, Begins
<1>2. side \in Sides
  <2>1. ses[c].distribute \in Sides
    BY DEF Typed, Session
  <2> QED BY <2>1 DEF Spread, Sides
<1>3. PICK w : w = Begins(c, side)
  OBVIOUS
<1>4. CASE side = "primary"
  BY <1>1, <1>3, <1>4, OnPrimaryIs
<1>5. CASE side = "standby"
  <2>1. ~(ses[c].trx["primary"] /\ ses[c].distribute = "primary")
    BY <1>5 DEF Spread
  <2>2. r \in OnStandby(c, kind, w, plain)
    BY <1>1, <1>3, <1>5
  <2> QED BY <1>3, <1>5, <2>1, <2>2, OnStandbyIs
<1> QED BY <1>2, <1>4, <1>5 DEF Sides

-----------------------------------------------------------------------------
(* Orders of the endpoints.                                                *)

LEMMA Shapes ==
  /\ Len(Listed) \in Nat \ {0} /\ Listed \in Orders
  /\ \A s \in Orders : DOMAIN s = 1 .. Len(Listed) /\ Len(s) = Len(Listed) /\ s \in Seq(Servers)
<1>1. Len(Listed) \in Nat \ {0} /\ Listed \in [1 .. Len(Listed) -> Servers]
  BY GroupAssumption
<1>2. \A x \in Servers : \E i \in DOMAIN Listed : Listed[i] = x
  BY GroupAssumption DEF ToSet
<1>3. Listed \in Orders
  BY <1>1, <1>2 DEF Orders
<1>4. ASSUME NEW s \in Orders
      PROVE  DOMAIN s = 1 .. Len(Listed) /\ Len(s) = Len(Listed) /\ s \in Seq(Servers)
  <2>1. s \in [1 .. Len(Listed) -> Servers] /\ Len(Listed) \in Nat
    BY <1>1 DEF Orders
  <2> QED BY <2>1
<1> QED BY <1>1, <1>3, <1>4

\* Turning an order keeps all of it.
LEMMA Wraps ==
  ASSUME NEW n \in Nat \ {0}, NEW a \in 0 .. n - 1
  PROVE  a % n = a /\ (a + n) % n = a
OBVIOUS

LEMMA Turns ==
  ASSUME NEW s \in Orders, NEW p \in Nat, p < Len(Listed),
         NEW t, t = [k \in 1 .. Len(Listed) |-> s[((k - 1 + p) % Len(Listed)) + 1]]
  PROVE  t \in Orders
<1>1. PICK n \in Nat \ {0} : n = Len(Listed)
  BY Shapes
<1>2. s \in [1 .. n -> Servers] /\ \A x \in Servers : \E i \in 1 .. n : s[i] = x
  BY <1>1, Shapes DEF Orders
<1>3. ASSUME NEW k \in 1 .. n
      PROVE  ((k - 1 + p) % n) + 1 \in 1 .. n
  <2>1. (k - 1 + p) \in Nat
    OBVIOUS
  <2>2. (k - 1 + p) % n \in 0 .. n - 1
    BY <2>1
  <2> QED BY <2>2
<1>4. t \in [1 .. n -> Servers]
  BY <1>1, <1>2, <1>3
<1>5. ASSUME NEW x \in Servers
      PROVE  \E k \in 1 .. n : t[k] = x
  <2>1. PICK i \in 1 .. n : s[i] = x
    BY <1>2
  <2>2. CASE i - 1 >= p
    <3>1. PICK a \in 0 .. n - 1 : a = i - 1
      OBVIOUS
    <3>2. PICK k \in 1 .. n : k = i - p
      BY <2>2
    <3>3. a % n = a
      BY <3>1, Wraps
    <3>4. k - 1 + p = a /\ a + 1 = i
      BY <3>1, <3>2
    <3>5. ((k - 1 + p) % n) + 1 = i
      BY <3>3, <3>4
    <3>6. t[k] = s[((k - 1 + p) % n) + 1]
      BY <1>1
    <3> QED BY <2>1, <3>5, <3>6
  <2>3. CASE i - 1 < p
    <3>1. PICK a \in 0 .. n - 1 : a = i - 1
      OBVIOUS
    <3>2. PICK k \in 1 .. n : k = i - p + n
      <4>1. p < n
        BY <1>1
      <4>2. i - p + n \in 1 .. n
        BY <2>3, <4>1
      <4> QED BY <4>2
    <3>3. k - 1 + p = a + n /\ a + 1 = i
      BY <3>1, <3>2
    <3>4. (a + n) % n = a
      BY <3>1, Wraps
    <3>5. t[k] = s[((k - 1 + p) % n) + 1]
      BY <1>1
    <3>6. ((k - 1 + p) % n) + 1 = i
      BY <3>3, <3>4
    <3> QED BY <2>1, <3>5, <3>6
  <2> QED BY SMTT(30), <2>2, <2>3
<1> QED BY <1>1, <1>4, <1>5 DEF Orders

LEMMA Sorts ==
  ASSUME NEW s \in Orders, NEW t \in Sorted(s)
  PROVE  t \in Orders
<1>1. s \in [1 .. Len(Listed) -> Servers] /\ DOMAIN s = 1 .. Len(Listed)
  BY DEF Orders
<1>2. \A x \in Servers : x \in ToSet(s)
  BY <1>1 DEF Orders, ToSet
<1>3. ToSet(s) = Servers
  BY <1>1, <1>2 DEF ToSet
<1>4. t \in [1 .. Len(Listed) -> Servers] /\ Servers \subseteq ToSet(t)
  BY <1>1, <1>3 DEF Sorted
<1>5. \A x \in Servers : \E i \in DOMAIN t : t[i] = x
  BY <1>4 DEF ToSet
<1> QED BY <1>4, <1>5 DEF Orders

LEMMA ConfIs ==
  ASSUME Typed
  PROVE  /\ conf.headFirst \in BOOLEAN /\ conf.reconnects \in BOOLEAN /\ conf.separate \in BOOLEAN
         /\ conf.schema \in BOOLEAN /\ conf.loginMode \in LoginModes
         /\ conf.separate => conf.loginMode = "primaryOnly"
BY GroupAssumption DEF Typed

LEMMA DbsIs ==
  ASSUME Typed, NEW c \in Conns, Stands(c), at[c] \in Looking
  PROVE  Dbs(c) \in Orders
BY ConfIs DEF Typed, Stands, Dbs

\* What the beginning of an attempt sets.
Starts(c) ==
  /\ startPos' \in Nat /\ order' \in [Conns -> Orders \cup {<<>>}]
  /\ ~conf.headFirst => order'[c] \in Orders
  /\ pos' = [pos EXCEPT ![c] = 1] /\ cycle' = [cycle EXCEPT ![c] = 0]
  /\ \A d \in Conns \ {c} : order'[d] = order[d]
  /\ steady' = [steady EXCEPT ![c] = {s \in Servers : mode[s] = Preferred}]
  /\ raced' \in [Conns -> BOOLEAN]
  /\ raced'[c] = (\E o \in Conns \ {c} : at[o] \in Looking)
  /\ \A d \in Conns \ {c} : raced'[d] = (raced[d] \/ at[d] \in Looking)
  /\ UNCHANGED <<host, list, said, new, seen>>

LEMMA BeginIs ==
  ASSUME Typed, NEW c \in Conns, Begin(c)
  PROVE  Starts(c)
<1>1. list \in Orders /\ Len(list) = Len(Listed) /\ DOMAIN list = 1 .. Len(Listed) /\ Len(Listed) \in Nat \ {0}
  BY Shapes DEF Typed
<1>2. CASE conf.headFirst
  <2>1. startPos' \in Nat /\ order' = [order EXCEPT ![c] = <<>>]
    BY <1>2 DEF Begin, Typed
  <2>2. order' \in [Conns -> Orders \cup {<<>>}] /\ \A d \in Conns \ {c} : order'[d] = order[d]
    BY <2>1 DEF Typed
  <2> QED BY <1>2, <2>1, <2>2 DEF Begin, Starts
<1>3. CASE ~conf.headFirst
  <2>1. PICK n \in Nat \ {0} : n = Len(Listed)
    BY <1>1
  <2>2. PICK p : p = startPos'
    OBVIOUS
  <2>3. p = (startPos + 1) % n
    BY <1>1, <1>3, <2>1, <2>2 DEF Begin
  <2>4. p \in Nat /\ p < n
    BY <2>3 DEF Typed
  <2>5. PICK t : t = [k \in 1 .. Len(Listed) |-> list[((k - 1 + p) % Len(Listed)) + 1]]
    OBVIOUS
  <2>6. t \in Orders
    BY <1>1, <2>1, <2>4, <2>5, Turns
  <2>7. order' = [order EXCEPT ![c] = t]
    BY <1>1, <1>3, <2>2, <2>5 DEF Begin
  <2>8. order' \in [Conns -> Orders \cup {<<>>}] /\ order'[c] \in Orders
        /\ \A d \in Conns \ {c} : order'[d] = order[d]
    BY <2>6, <2>7 DEF Typed
  <2> QED BY <2>2, <2>4, <2>8 DEF Begin, Starts
<1> QED BY <1>2, <1>3

\* What the end of one sets.
LEMMA RestsIs ==
  ASSUME Typed, NEW c \in Conns, Rests(c)
  PROVE  /\ order' \in [Conns -> Orders \cup {<<>>}] /\ pos' \in [Conns -> Nat] /\ cycle' \in [Conns -> Nat]
         /\ seen' \in [Conns -> Moods] /\ steady' \in [Conns -> SUBSET Servers]
         /\ raced' \in [Conns -> BOOLEAN] /\ steady'[c] = {} /\ raced'[c] = FALSE
         /\ \A d \in Conns \ {c} :
              /\ order'[d] = order[d] /\ pos'[d] = pos[d] /\ cycle'[d] = cycle[d]
              /\ seen'[d] = seen[d] /\ steady'[d] = steady[d] /\ raced'[d] = raced[d]
BY DEF Typed, Rests, Moods

\* One endpoint further, or a walk more.
LEMMA AdvanceIs ==
  ASSUME Typed, NEW c \in Conns, Stands(c), at[c] \in {"dialing", "check"}, Advance(c)
  PROVE  /\ pos' \in [Conns -> Nat] /\ cycle' \in [Conns -> Nat] /\ list' \in Orders
         /\ order' \in [Conns -> Orders \cup {<<>>}] /\ at' \in [Conns -> Places]
         /\ at'[c] \in {"dial", "nobody"}
         /\ at'[c] = "dial" => pos'[c] \in 1 .. Len(Listed) /\ (~conf.headFirst => order'[c] \in Orders)
         /\ \A d \in Conns \ {c} :
              order'[d] = order[d] /\ pos'[d] = pos[d] /\ cycle'[d] = cycle[d] /\ at'[d] = at[d]
<1>1. list \in Orders /\ Len(list) = Len(Listed) /\ Len(Listed) \in Nat \ {0} /\ at[c] \in Looking
  BY Shapes DEF Typed, Looking
<1>2. ~conf.headFirst => order[c] \in Orders
  BY <1>1 DEF Stands
<1>3. CASE pos[c] < Len(list) /\ pos' = [pos EXCEPT ![c] = @ + 1] /\ at' = [at EXCEPT ![c] = "dial"]
           /\ UNCHANGED <<cycle, order, list>>
  BY <1>1, <1>2, <1>3 DEF Typed, Places, Looking
<1>4. CASE /\ pos' = [pos EXCEPT ![c] = 1] /\ cycle' = [cycle EXCEPT ![c] = @ + 1]
           /\ \E s \in Sorted(Dbs(c)) :
                IF conf.headFirst THEN list' = s /\ UNCHANGED order
                ELSE order' = [order EXCEPT ![c] = s] /\ UNCHANGED list
           /\ at' = [at EXCEPT ![c] = "dial"]
  <2>1. PICK s \in Sorted(Dbs(c)) :
          IF conf.headFirst THEN list' = s /\ UNCHANGED order
          ELSE order' = [order EXCEPT ![c] = s] /\ UNCHANGED list
    BY <1>4
  <2>2. s \in Orders
    BY <1>1, DbsIs, Sorts
  <2>3. list' \in Orders /\ order' \in [Conns -> Orders \cup {<<>>}]
        /\ (~conf.headFirst => order'[c] \in Orders) /\ \A d \in Conns \ {c} : order'[d] = order[d]
    BY <1>1, <2>1, <2>2, ConfIs DEF Typed
  <2>4. pos' \in [Conns -> Nat] /\ cycle' \in [Conns -> Nat] /\ at' \in [Conns -> Places]
        /\ at'[c] = "dial" /\ pos'[c] \in 1 .. Len(Listed)
        /\ \A d \in Conns \ {c} : pos'[d] = pos[d] /\ cycle'[d] = cycle[d] /\ at'[d] = at[d]
    BY <1>1, <1>4 DEF Typed, Places, Looking
  <2> QED BY <2>3, <2>4
<1>5. CASE at' = [at EXCEPT ![c] = "nobody"] /\ UNCHANGED <<pos, cycle, order, list>>
  BY <1>1, <1>5 DEF Typed, Places
<1> QED BY <1>3, <1>4, <1>5 DEF Advance

-----------------------------------------------------------------------------
(* What a connection at rest does to its sessions, and a record of it.      *)

\* A record that part of a call may leave.
Fits(c, w) ==
  /\ w \in WorkType /\ w.s.primary = ses[c].primary /\ w.s.closed = ses[c].closed
  /\ \/ w.s.standby = ses[c].standby /\ w.shut = {}
     \/ w.s.standby = None /\ w.shut = {ses[c].standby} \ {None}
  /\ w.cut \subseteq {ses[c].primary, ses[c].standby} \ {None}
  /\ spoiled[c] \ {"switched"} \subseteq w.notes
  /\ \A x \in w.done : x \in done \/ x[1] = c
  /\ \A side \in Sides : \A x \in w.pend[side] : x[1] = c

LEMMA EffectFits ==
  ASSUME Typed, NEW c \in Conns, Record(c), NEW K, NEW v, Effect(c, K, Work(c), v)
  PROVE  Fits(c, v)
<1>1. PICK b \in WorkType :
        /\ b = Work(c) /\ b.s = ses[c] /\ b.pend = pend[c] /\ b.done = done
        /\ b.shut = {} /\ b.cut = {} /\ b.notes = spoiled[c]
  BY WorkIs
<1>2. \A k : The(c, k)[1] = c
  BY DEF The
<1>3. /\ \A x \in v.done : x \in done \/ x[1] = c
      /\ \A side \in Sides : \A x \in v.pend[side] : x[1] = c
  BY <1>1, <1>2 DEF Effect, Adds, Record
<1> QED BY <1>1, <1>3 DEF Effect, Fits

LEMMA BrokenIs ==
  ASSUME Typed, NEW w \in WorkType, NEW v, v = Broken(w)
  PROVE  /\ v \in WorkType /\ v.s.primary = None /\ v.s.closed = ~conf.reconnects
         /\ v.s.standby = (IF conf.reconnects THEN None ELSE w.s.standby)
         /\ v.shut = w.shut \cup ({w.s.primary} \ {None})
                     \cup (IF conf.reconnects THEN {w.s.standby} \ {None} ELSE {})
         /\ v.cut = w.cut /\ v.done = w.done /\ v.notes = w.notes /\ v.lost = w.lost
         /\ v.pend["primary"] = {}
         /\ v.pend["standby"] = (IF conf.reconnects THEN {} ELSE w.pend["standby"])
         /\ v.s.auto = w.s.auto /\ v.s.trx = w.s.trx /\ v.s.distribute = w.s.distribute
<1>1. PICK u : u = IF conf.reconnects THEN Dropped(w) ELSE w
  OBVIOUS
<1>2. /\ u \in WorkType /\ u.s.primary = w.s.primary
      /\ u.s.standby = (IF conf.reconnects THEN None ELSE w.s.standby)
      /\ u.shut = w.shut \cup (IF conf.reconnects THEN {w.s.standby} \ {None} ELSE {})
      /\ u.cut = w.cut /\ u.done = w.done /\ u.notes = w.notes /\ u.lost = w.lost
      /\ u.pend["standby"] = (IF conf.reconnects THEN {} ELSE w.pend["standby"])
      /\ u.s.auto = w.s.auto /\ u.s.trx = w.s.trx /\ u.s.distribute = w.s.distribute
  <2>1. CASE ~conf.reconnects
    BY <1>1, <2>1
  <2>2. CASE conf.reconnects
    <3>1. u = Dropped(w)
      BY <1>1, <2>2
    <3>2. u \in WorkType /\ u.s.standby = None /\ u.shut = w.shut \cup ({w.s.standby} \ {None})
      BY <3>1 DEF Dropped, WorkType, Session, SocketOrNone, Sides
    <3>3. /\ u.cut = w.cut /\ u.done = w.done /\ u.notes = w.notes /\ u.lost = w.lost
          /\ u.pend["standby"] = {}
      BY <3>1 DEF Dropped, WorkType, Sides
    <3>4. u.s.primary = w.s.primary /\ u.s.auto = w.s.auto /\ u.s.trx = w.s.trx /\ u.s.distribute = w.s.distribute
      BY <3>1 DEF Dropped, WorkType, Session
    <3> QED BY <2>2, <3>2, <3>3, <3>4
  <2> QED BY <2>1, <2>2
<1>3. v = [u EXCEPT !.shut = @ \cup ({u.s.primary} \ {None}), !.s.primary = None, !.pend.primary = {},
                    !.s.closed = ~conf.reconnects]
  BY <1>1 DEF Broken
<1>4. PICK x : x = u.shut \cup ({u.s.primary} \ {None})
  OBVIOUS
<1>5. PICK b \in BOOLEAN : b = ~conf.reconnects
  OBVIOUS
<1>6. PICK t : t = [u EXCEPT !.shut = x, !.s.primary = None, !.s.closed = b]
  OBVIOUS
<1>7. x \in SUBSET Sockets
  <2>1. u.s.primary \in SocketOrNone /\ u.shut \in SUBSET Sockets
    BY <1>2, WorkFields
  <2> QED BY <1>4, <2>1 DEF SocketOrNone
<1>8. t \in WorkType /\ t.s.primary = None /\ t.s.closed = b /\ t.shut = x
  <2>1. None \in SocketOrNone
    BY DEF SocketOrNone
  <2> QED BY <1>2, <1>6, <1>7, <2>1 DEF WorkType, Session
<1>9. /\ t.s.standby = u.s.standby /\ t.s.auto = u.s.auto /\ t.s.trx = u.s.trx /\ t.s.distribute = u.s.distribute
      /\ t.cut = u.cut /\ t.done = u.done /\ t.notes = u.notes /\ t.lost = u.lost /\ t.pend = u.pend
  BY <1>2, <1>6 DEF WorkType, Session
<1>10. v = WithPend(t, "primary", {})
  BY <1>2, <1>3, <1>4, <1>5, <1>6 DEF WithPend, WorkType, Session
<1>11. /\ v \in WorkType /\ Still(t, v) /\ v.cut = t.cut /\ v.lost = t.lost
       /\ v.pend = [t.pend EXCEPT !["primary"] = {}] /\ v.done = t.done /\ v.s = t.s
  <2>1. PICK y \in SUBSET Writing : y = {}
    OBVIOUS
  <2>2. v = WithPend(t, "primary", y) /\ "primary" \in Sides
    BY <1>10, <2>1 DEF Sides
  <2>3. /\ v \in WorkType /\ Still(t, v) /\ v.cut = t.cut /\ v.lost = t.lost
        /\ v.pend = [t.pend EXCEPT !["primary"] = y] /\ v.done = t.done /\ v.s = t.s
    BY <1>8, <2>2, PendSet
  <2> QED BY <2>1, <2>3
<1>12. v.pend["primary"] = {} /\ v.pend["standby"] = u.pend["standby"]
  BY <1>2, <1>9, <1>11 DEF WorkType, Sides
<1> QED BY <1>2, <1>4, <1>5, <1>8, <1>9, <1>11, <1>12 DEF Still

After(w, a) == IF a = "comm" THEN Broken(w) ELSE w

\* A socket of the connection is closed or still one of its sessions'.
AfterSo(c, w, a, v) ==
  /\ v \in WorkType
  /\ v.s.primary \in {ses[c].primary, None} /\ v.s.standby \in {ses[c].standby, None}
  /\ v.shut \subseteq Refs(c) /\ v.cut \subseteq Refs(c)
  /\ \A k \in {ses[c].primary, ses[c].standby} \ {None} :
       k \in v.shut <=> k \notin {v.s.primary, v.s.standby}
  /\ v.s.closed /\ v.s.primary # None => ses[c].closed
  /\ spoiled[c] \ {"switched"} \subseteq v.notes /\ v.notes = w.notes
  /\ \A x \in v.done : x \in done \/ x[1] = c
  /\ \A side \in Sides : \A x \in v.pend[side] : x[1] = c
  /\ a = "comm" => v.s.primary = None
  /\ a = "comm" /\ conf.reconnects => v.s.standby = None /\ ~v.s.closed

LEMMA AfterIs ==
  ASSUME Typed, Held, NEW c \in Conns, NEW w, Fits(c, w), NEW a, NEW v, v = After(w, a)
  PROVE  AfterSo(c, w, a, v)
<1>1. /\ w \in WorkType /\ w.s.primary = ses[c].primary /\ w.s.closed = ses[c].closed
      /\ w.cut \subseteq {ses[c].primary, ses[c].standby} \ {None}
      /\ spoiled[c] \ {"switched"} \subseteq w.notes
      /\ \A x \in w.done : x \in done \/ x[1] = c
      /\ \A side \in Sides : \A x \in w.pend[side] : x[1] = c
  BY DEF Fits
<1>2. \/ w.s.standby = ses[c].standby /\ w.shut = {}
      \/ w.s.standby = None /\ w.shut = {ses[c].standby} \ {None}
  BY DEF Fits
<1>3. ses[c].primary # None => ses[c].primary # ses[c].standby
  BY DEF Held
<1>4. CASE a # "comm"
  <2>1. v = w
    BY <1>4 DEF After
  <2>2. w.shut \subseteq Refs(c) /\ w.cut \subseteq Refs(c)
    BY <1>1, <1>2 DEF Refs
  <2>3. \A k \in {ses[c].primary, ses[c].standby} \ {None} : k \in w.shut <=> k \notin {w.s.primary, w.s.standby}
    BY <1>1, <1>2, <1>3
  <2> QED BY <1>1, <1>2, <1>4, <2>1, <2>2, <2>3 DEF AfterSo
<1>5. CASE a = "comm"
  <2>1. v = Broken(w)
    BY <1>5 DEF After
  <2>2. /\ v \in WorkType /\ v.s.primary = None /\ v.s.closed = ~conf.reconnects
        /\ v.s.standby = (IF conf.reconnects THEN None ELSE w.s.standby)
        /\ v.shut = w.shut \cup ({w.s.primary} \ {None})
                    \cup (IF conf.reconnects THEN {w.s.standby} \ {None} ELSE {})
        /\ v.cut = w.cut /\ v.done = w.done /\ v.notes = w.notes
        /\ v.pend["primary"] = {}
        /\ v.pend["standby"] = (IF conf.reconnects THEN {} ELSE w.pend["standby"])
    BY <1>1, <2>1, BrokenIs
  <2>3. v.shut \subseteq Refs(c) /\ v.cut \subseteq Refs(c)
    BY <1>1, <1>2, <2>2 DEF Refs
  <2>4. \A k \in {ses[c].primary, ses[c].standby} \ {None} : k \in v.shut <=> k \notin {v.s.primary, v.s.standby}
    BY <1>1, <1>2, <1>3, <2>2
  <2>5. \A side \in Sides : \A x \in v.pend[side] : x[1] = c
    BY <1>1, <2>2 DEF Sides
  <2> QED BY <1>1, <1>2, <2>2, <2>3, <2>4, <2>5 DEF AfterSo
<1> QED BY <1>4, <1>5

\* What a step of a connection leaves to the others.
Beside(c) ==
  /\ conf' = conf /\ mode' = mode
  /\ \A d \in Conns \ {c} :
       /\ ses'[d] = ses[d] /\ new'[d] = new[d] /\ at'[d] = at[d] /\ seen'[d] = seen[d]
       /\ order'[d] = order[d] /\ pos'[d] = pos[d] /\ cycle'[d] = cycle[d] /\ steady'[d] = steady[d]
       /\ inTx'[d] = inTx[d] /\ made'[d] = made[d] /\ pend'[d] = pend[d] /\ mine'[d] = mine[d]
       /\ spoiled'[d] = spoiled[d] /\ last'[d] = last[d]
       /\ raced[d] => raced'[d]
       /\ at'[c] \in Looking /\ at[c] \notin Looking /\ at[d] \in Looking => raced'[d]
       /\ mu' = d => mu = d
  /\ host' = host \/ (at[c] = "dial" /\ host' \in Servers)
  /\ list' = list \/ at[c] \in Looking
  /\ \A x \in done' : x \in done \/ x[1] = c

\* What it does to the sockets.
Moves(c) ==
  /\ \A k \in Sockets : socket'[k] # socket[k] => k \in Refs(c) \cup Refs(c)'
  /\ \A k \in Refs(c)' : socket'[k] # None /\ (k \in Refs(c) \/ socket[k] = None)
  /\ ses'[c].primary # None => ses'[c].primary # ses'[c].standby
  /\ \A k \in Refs(c) : socket'[k] # None => k \in Refs(c)' \/ "standby" \in spoiled'[c]
  /\ "standby" \in spoiled[c] => "standby" \in spoiled'[c]

LEMMA SocketsMoved ==
  ASSUME Typed, Held, SocketsHeld, NEW c \in Conns, Beside(c), Moves(c)
  PROVE  /\ Held' /\ SocketsHeld'
         /\ \A d \in Conns \ {c} : Refs(d)' = Refs(d) /\ \A k \in Refs(d) : socket'[k] = socket[k]
<1>1. \A d \in Conns : Refs(d) \subseteq Sockets
  BY DEF Typed, Refs, Session, SocketOrNone
<1>2. \A d \in Conns \ {c} : Refs(d)' = Refs(d)
  BY DEF Refs, Beside
<1>3. ASSUME NEW d \in Conns \ {c}, NEW k \in Refs(d)
      PROVE  k \notin Refs(c) /\ k \notin Refs(c)' /\ socket'[k] = socket[k]
  <2>1. socket[k] # None /\ k \notin Refs(c) /\ k \in Sockets
    BY <1>1, <1>3 DEF Held
  <2>2. k \notin Refs(c)'
    BY <2>1 DEF Moves
  <2> QED BY <2>1, <2>2 DEF Moves
<1>4. Held'
  <2>1. ASSUME NEW d \in Conns, NEW k \in Refs(d)' PROVE socket'[k] # None
    <3>1. CASE d = c
      BY <2>1, <3>1 DEF Moves
    <3>2. CASE d # c
      BY <1>2, <1>3, <2>1, <3>2 DEF Held
    <3> QED BY <3>1, <3>2
  <2>2. ASSUME NEW d \in Conns PROVE ses'[d].primary # None => ses'[d].primary # ses'[d].standby
    BY DEF Held, Moves, Beside
  <2>3. ASSUME NEW d \in Conns, NEW e \in Conns, d # e PROVE Refs(d)' \cap Refs(e)' = {}
    <3>1. CASE d = c
      BY <1>2, <1>3, <2>3, <3>1
    <3>2. CASE e = c
      BY <1>2, <1>3, <2>3, <3>2
    <3>3. CASE d # c /\ e # c
      BY <1>2, <2>3, <3>3 DEF Held
    <3> QED BY <3>1, <3>2, <3>3
  <2> QED BY <2>1, <2>2, <2>3 DEF Held
<1>5. ASSUME NEW k \in Sockets, socket'[k] # None
      PROVE  \E d \in Conns : k \in Refs(d)' \/ "standby" \in spoiled'[d]
  <2>1. CASE socket[k] = None
    <3>1. k \in Refs(c) \cup Refs(c)'
      BY <1>5, <2>1 DEF Moves
    <3>2. k \notin Refs(c)
      BY <2>1 DEF Held
    <3> QED BY <3>1, <3>2
  <2>2. CASE socket[k] # None
    <3>1. None \notin Sockets
      BY GroupAssumption
    <3>2. PICK d \in Conns : k \in Refs(d) \/ "standby" \in spoiled[d]
      BY <2>2, <3>1 DEF SocketsHeld, Refs
    <3>3. CASE d = c
      BY <1>5, <3>2, <3>3 DEF Moves
    <3>4. CASE d # c
      BY <1>2, <3>2, <3>4 DEF Beside
    <3> QED BY <3>3, <3>4
  <2> QED BY <2>1, <2>2
<1>6. SocketsHeld'
  BY <1>5 DEF SocketsHeld, Refs
<1> QED BY <1>2, <1>3, <1>4, <1>6

\* What the invariant says of one connection.
Part(c) == Phase(c) /\ Roles(c) /\ Record(c) /\ Tx(c) /\ Stands(c) /\ Walks(c)

LEMMA OthersKeep ==
  ASSUME Typed, Held, SocketsHeld, NEW c \in Conns, Beside(c), Moves(c),
         NEW d \in Conns \ {c}, Part(d)
  PROVE  Part(d)'
<1>1. Refs(d)' = Refs(d) /\ \A k \in Refs(d) : socket'[k] = socket[k]
  BY SocketsMoved
<1>2. /\ ses'[d] = ses[d] /\ new'[d] = new[d] /\ at'[d] = at[d] /\ seen'[d] = seen[d]
      /\ order'[d] = order[d] /\ pos'[d] = pos[d] /\ cycle'[d] = cycle[d] /\ steady'[d] = steady[d]
      /\ inTx'[d] = inTx[d] /\ made'[d] = made[d] /\ pend'[d] = pend[d] /\ mine'[d] = mine[d]
      /\ spoiled'[d] = spoiled[d] /\ last'[d] = last[d] /\ conf' = conf /\ mode' = mode
      /\ (mu' = d => mu = d)
  BY DEF Beside
<1>3. Phase(d)'
  BY <1>2 DEF Part, Phase
<1>4. \A k \in {ses[d].primary, ses[d].standby, new[d]} : k # None => socket'[k] = socket[k]
  BY <1>1 DEF Refs
<1>5. Alive(d)' <=> Alive(d)
  BY <1>2, <1>4 DEF Alive
<1>6. Roles(d)'
  <2>1. ASSUME NEW k \in {ses[d].primary, ses[d].standby, new[d]}, NEW m, Hears(k, m)
        PROVE  Hears(k, m)'
    BY <1>2, <1>4, <2>1 DEF Hears
  <2>2. Roles(d)
    BY DEF Part
  <2> QED BY <1>2, <1>5, <2>1, <2>2 DEF Roles
<1>7. Record(d)'
  <2>1. ASSUME NEW n \in Nat, NEW k \in 0 .. 2, Wrote(d, n, k)'
        PROVE  Wrote(d, n, k)
    <3>1. <<d, n, k>>[1] = d
      OBVIOUS
    <3>2. <<d, n, k>> \in done' => <<d, n, k>> \in done
      BY <3>1 DEF Beside
    <3> QED BY <1>2, <2>1, <3>2 DEF Wrote
  <2> QED BY <1>2, <2>1 DEF Part, Record
<1>8. Tx(d)'
  <2>1. \A side : Has(d, side)' <=> Has(d, side)
    BY <1>2 DEF Has
  <2>2. (InPrimary(d) => InPrimary(d)') /\ (InStandby(d) => InStandby(d)')
    BY <1>2, <1>5, <2>1 DEF InPrimary, InStandby
  <2> QED BY <1>2, <2>1, <2>2 DEF Part, Tx
<1>9. Stands(d)'
  BY <1>2 DEF Part, Stands, Beside
<1>10. Walks(d)'
  <2>1. Walks(d) /\ (~raced'[d] => ~raced[d])
    BY DEF Part, Walks, Beside
  <2>2. ASSUME ~raced'[d], at'[d] \in Looking
        PROVE  at[c] \notin Looking /\ \A e \in Conns \ {d} : at'[e] \notin Looking
    <3>1. \A e \in Conns \ {d} : at[e] \notin Looking
      BY <1>2, <2>1, <2>2 DEF Walks
    <3>2. at'[c] \notin Looking
      BY <1>2, <2>2, <3>1 DEF Beside
    <3> QED BY <3>1, <3>2 DEF Beside
  <2>3. Preferred' = Preferred
    BY <1>2 DEF Preferred
  <2>4. ASSUME ~raced'[d], at'[d] \in Looking
        PROVE  host' = host /\ list' = list /\ Dbs(d)' = Dbs(d) /\ Endpoint(d)' = Endpoint(d)
    <3>1. host' = host /\ list' = list
      BY <2>2, <2>4 DEF Beside, Looking
    <3>2. Dbs(d)' = Dbs(d)
      BY <1>2, <3>1 DEF Dbs
    <3> QED BY <1>2, <3>1, <3>2 DEF Endpoint
  <2>5. /\ steady'[d] \subseteq {s \in Servers : mode'[s] = Preferred'}
        /\ ~raced'[d] /\ at'[d] \in Looking => \A e \in Conns \ {d} : at'[e] \notin Looking
    BY <1>2, <2>1, <2>2, <2>3 DEF Walks
  <2>6. ASSUME ~raced'[d], steady'[d] # {}
        PROVE  /\ at'[d] # "nobody"
               /\ at'[d] = "chosen" => seen'[d] = Preferred'
               /\ at'[d] \in Looking => cycle'[d] = 0
               /\ at'[d] \in Looking => \A s \in steady'[d] : \E i \in pos'[d] .. Len(Listed) : Dbs(d)'[i] = s
               /\ at'[d] = "dialing" => host' = Endpoint(d)'
               /\ at'[d] = "check" => seen'[d] = Preferred' \/ Endpoint(d)' \notin steady'[d]
    <3>1. ~raced[d] /\ steady[d] # {}
      BY <1>2, <2>1, <2>6
    <3>2. at'[d] \in {"dialing", "check"} => at'[d] \in Looking
      BY DEF Looking
    <3> QED BY <1>2, <2>1, <2>3, <2>4, <2>6, <3>1, <3>2 DEF Walks
  <2> QED BY <2>5, <2>6 DEF Walks
<1> QED BY <1>3, <1>6, <1>7, <1>8, <1>9, <1>10 DEF Part

\* A walk that begins has every endpoint before it.
LEMMA BeginWalks ==
  ASSUME Typed, NEW c \in Conns, Starts(c), at' = [at EXCEPT ![c] = "dial"], conf' = conf, mode' = mode
  PROVE  Stands(c)' /\ Walks(c)'
<1>1. at'[c] = "dial" /\ pos'[c] = 1 /\ cycle'[c] = 0
      /\ \A d \in Conns \ {c} : at'[d] = at[d]
  BY DEF Typed, Starts
<1>2. Len(Listed) \in Nat \ {0} /\ list' \in Orders
  BY Shapes DEF Typed, Starts
<1>3. Dbs(c)' \in Orders
  BY <1>2 DEF Dbs, Starts
<1>4. Stands(c)'
  BY <1>1, <1>2 DEF Stands, Starts
<1>5. steady'[c] = {s \in Servers : mode'[s] = Preferred'}
  BY DEF Starts, Preferred, Typed
<1>6. \A s \in steady'[c] : \E i \in pos'[c] .. Len(Listed) : Dbs(c)'[i] = s
  BY <1>1, <1>3, <1>5 DEF Orders
<1>7. ~raced'[c] => \A d \in Conns \ {c} : at'[d] \notin Looking
  BY <1>1 DEF Starts
<1> QED BY <1>1, <1>4, <1>5, <1>6, <1>7 DEF Walks

\* What becomes of the rest of the connection in a call.
Tells(c) ==
  /\ inTx' \in [Conns -> BOOLEAN] /\ opens' \in [Conns -> Nat] /\ made' \in [Conns -> Nat]
  /\ mine' \in [Conns -> SUBSET Nat] /\ last' \in [Conns -> Seq(Words)]
  /\ \A d \in Conns \ {c} :
       inTx'[d] = inTx[d] /\ made'[d] = made[d] /\ mine'[d] = mine[d] /\ last'[d] = last[d]

LEMMA BecomesIs ==
  ASSUME Typed, Held, NEW c \in Conns, Part(c), at[c] = "idle",
         NEW w, Fits(c, w), NEW a, Becomes(c, w, a), Tells(c)
  PROVE  /\ Typed' /\ Beside(c) /\ Moves(c) /\ Phase(c)' /\ Roles(c)' /\ Stands(c)' /\ Walks(c)'
         /\ Alive(c)' => Alive(c)
<1>1. PICK v : v = After(w, a)
  OBVIOUS
<1>2. AfterSo(c, w, a, v)
  BY <1>1, AfterIs
<1>3. /\ ses' = [ses EXCEPT ![c] = v.s] /\ pend' = [pend EXCEPT ![c] = v.pend] /\ done' = v.done
      /\ faults' = faults + v.lost
      /\ socket' = [k \in Sockets |-> IF k \in v.shut THEN None
                      ELSE IF k \in v.cut THEN [socket[k] EXCEPT !.ok = FALSE] ELSE socket[k]]
      /\ conf' = conf /\ mode' = mode /\ mu' = mu
      /\ IF a = "comm" /\ conf.reconnects
         THEN /\ Begin(c) /\ at' = [at EXCEPT ![c] = "dial"]
              /\ spoiled' = [spoiled EXCEPT ![c] = v.notes \cup {"switched"}]
         ELSE /\ spoiled' = [spoiled EXCEPT ![c] = v.notes]
              /\ UNCHANGED <<at, host, list, startPos, said, order, pos, cycle, new, seen, steady, raced>>
  BY <1>1 DEF Becomes, After
<1>4. /\ v.s \in Session /\ v.pend \in [Sides -> SUBSET Writing] /\ v.done \in SUBSET Writing
      /\ v.lost \in Nat /\ v.notes \in SUBSET Notes
  <2>1. v \in WorkType
    BY <1>2 DEF AfterSo
  <2> QED BY <2>1, WorkFields
<1>5. Refs(c) \subseteq Sockets /\ None \notin Sockets /\ \A k \in Refs(c) : socket[k] \in SocketType /\ socket[k] # None
  <2>1. Refs(c) \subseteq Sockets
    BY DEF Typed, Refs, Session, SocketOrNone
  <2>2. \A k \in Refs(c) : socket[k] # None
    BY DEF Held
  <2> QED BY <2>1, <2>2, GroupAssumption DEF Typed
<1>6. socket' \in [Sockets -> SocketType \cup {None}]
  BY ZenonT(60), <1>2, <1>3, <1>5 DEF Typed, AfterSo, SocketType
<1>7. ses'[c] = v.s /\ pend'[c] = v.pend /\ \A d \in Conns \ {c} : ses'[d] = ses[d] /\ pend'[d] = pend[d]
  BY <1>3 DEF Typed
<1>8. ses' \in [Conns -> Session] /\ pend' \in [Conns -> [Sides -> SUBSET Writing]]
      /\ done' \subseteq Writing /\ faults' \in Nat
  BY <1>3, <1>4 DEF Typed
<1>9. /\ new[c] = None /\ mu # c
  BY DEF Part, Phase, Looking
<1> DEFINE G ==
      /\ Typed' /\ Beside(c) /\ Stands(c)' /\ Walks(c)'
      /\ new'[c] = None /\ at'[c] \in {"idle", "dial"} /\ v.notes \subseteq spoiled'[c]
      /\ at'[c] = "dial" => a = "comm" /\ conf.reconnects /\ "switched" \in spoiled'[c]
<1>10. ASSUME a = "comm" /\ conf.reconnects
       PROVE  G
  <2>1. Starts(c) /\ at' = [at EXCEPT ![c] = "dial"] /\ spoiled' = [spoiled EXCEPT ![c] = v.notes \cup {"switched"}]
    BY <1>3, <1>10, BeginIs
  <2>2. at'[c] = "dial" /\ spoiled'[c] = v.notes \cup {"switched"}
        /\ \A d \in Conns \ {c} : at'[d] = at[d] /\ spoiled'[d] = spoiled[d]
    BY <2>1 DEF Typed
  <2>3. at' \in [Conns -> Places] /\ spoiled' \in [Conns -> SUBSET Notes]
    <3>1. v.notes \cup {"switched"} \in SUBSET Notes
      BY <1>4 DEF Notes
    <3> QED BY <2>1, <3>1 DEF Typed, Places, Looking
  <2>4. Stands(c)' /\ Walks(c)'
    BY <1>3, <2>1, BeginWalks
  <2>5. /\ startPos' \in Nat /\ order' \in [Conns -> Orders \cup {<<>>}] /\ pos' \in [Conns -> Nat]
        /\ cycle' \in [Conns -> Nat] /\ steady' \in [Conns -> SUBSET Servers] /\ raced' \in [Conns -> BOOLEAN]
        /\ list' \in Orders /\ new' = new /\ seen' \in [Conns -> Moods]
    BY <2>1 DEF Starts, Typed
  <2>6. Typed'
    BY <1>3, <1>6, <1>8, <2>3, <2>5 DEF Typed, Tells
  <2>7. \A d \in Conns \ {c} :
          /\ order'[d] = order[d] /\ pos'[d] = pos[d] /\ cycle'[d] = cycle[d] /\ steady'[d] = steady[d]
          /\ raced'[d] = (raced[d] \/ at[d] \in Looking) /\ new'[d] = new[d] /\ seen'[d] = seen[d]
    BY <2>1 DEF Starts, Typed
  <2>8. host' = host /\ list' = list
    BY <2>1 DEF Starts
  <2>9. Beside(c)
    BY ZenonT(60), <1>2, <1>3, <1>7, <2>2, <2>7, <2>8 DEF Beside, Tells, AfterSo
  <2> QED BY <1>9, <1>10, <2>2, <2>4, <2>5, <2>6, <2>9
<1>11. ASSUME ~(a = "comm" /\ conf.reconnects)
       PROVE  G
  <2>1. /\ spoiled' = [spoiled EXCEPT ![c] = v.notes]
        /\ UNCHANGED <<at, host, list, startPos, said, order, pos, cycle, new, seen, steady, raced>>
    BY <1>3, <1>11
  <2>2. spoiled' \in [Conns -> SUBSET Notes] /\ spoiled'[c] = v.notes
        /\ \A d \in Conns \ {c} : spoiled'[d] = spoiled[d]
    BY <1>4, <2>1 DEF Typed
  <2>3. Typed'
    BY <1>3, <1>6, <1>8, <2>1, <2>2 DEF Typed, Tells
  <2>4. Beside(c)
    BY <1>2, <1>3, <1>7, <2>1, <2>2 DEF Beside, Tells, AfterSo
  <2>5. Stands(c)'
    BY <1>3, <2>1 DEF Part, Stands
  <2>6. Walks(c)'
    <3>1. steady'[c] \subseteq {s \in Servers : mode'[s] = Preferred'}
      BY <1>3, <2>1 DEF Part, Walks, Preferred
    <3>2. at'[c] = "idle"
      BY <2>1
    <3> QED BY <3>1, <3>2 DEF Walks, Looking
  <2> QED BY <1>9, <2>1, <2>2, <2>3, <2>4, <2>5, <2>6
<1>12. G
  BY <1>10, <1>11
<1> HIDE DEF G
<1>13. /\ Typed' /\ Beside(c) /\ Stands(c)' /\ Walks(c)'
       /\ new'[c] = None /\ at'[c] \in {"idle", "dial"} /\ v.notes \subseteq spoiled'[c]
       /\ at'[c] = "dial" => a = "comm" /\ conf.reconnects /\ "switched" \in spoiled'[c]
  BY <1>12 DEF G
<1>14. /\ \A k \in Sockets \ Refs(c) : socket'[k] = socket[k]
       /\ \A k \in {v.s.primary, v.s.standby} \ {None} :
            /\ k \in Refs(c) /\ socket'[k] # None /\ socket'[k].srv = socket[k].srv
            /\ socket'[k].ok => socket[k].ok
       /\ \A k \in Refs(c) : socket'[k] # None => k \in {v.s.primary, v.s.standby}
  <2>1. ASSUME NEW k \in Sockets \ Refs(c)
        PROVE  socket'[k] = socket[k]
    BY <1>2, <1>3 DEF AfterSo
  <2>2. ASSUME NEW k \in {v.s.primary, v.s.standby} \ {None}
        PROVE  /\ k \in Refs(c) /\ socket'[k] # None /\ socket'[k].srv = socket[k].srv
               /\ socket'[k].ok => socket[k].ok
    <3>1. k \in {ses[c].primary, ses[c].standby} \ {None} /\ k \notin v.shut
      BY <1>2 DEF AfterSo
    <3>2. k \in Refs(c) /\ k \in Sockets /\ socket[k] \in SocketType /\ None \notin SocketType
      BY <1>5, <3>1, GroupAssumption DEF Refs, SocketType
    <3>3. socket'[k] = (IF k \in v.cut THEN [socket[k] EXCEPT !.ok = FALSE] ELSE socket[k])
      BY <1>3, <3>1, <3>2
    <3>4. socket'[k] \in SocketType /\ socket'[k].srv = socket[k].srv /\ (socket'[k].ok => socket[k].ok)
      BY <3>2, <3>3 DEF SocketType
    <3> QED BY <3>2, <3>4
  <2>3. ASSUME NEW k \in Refs(c), socket'[k] # None
        PROVE  k \in {v.s.primary, v.s.standby}
    <3>1. k \in Sockets /\ k \notin v.shut
      BY <1>3, <1>5, <2>3
    <3>2. k \in {ses[c].primary, ses[c].standby} \ {None}
      BY <1>9, <2>3 DEF Refs
    <3> QED BY <1>2, <3>1, <3>2 DEF AfterSo
  <2> QED BY <2>1, <2>2, <2>3
<1>15. Refs(c)' = {v.s.primary, v.s.standby} \ {None}
  BY <1>7, <1>13 DEF Refs
<1>16. Moves(c)
  <2>1. "standby" \in spoiled[c] => "standby" \in spoiled'[c]
    BY <1>2, <1>13 DEF AfterSo
  <2>2. ses'[c].primary # None => ses'[c].primary # ses'[c].standby
    BY <1>2, <1>7 DEF AfterSo, Held
  <2>3. \A k \in Refs(c) : socket'[k] # None => k \in Refs(c)'
    BY <1>5, <1>14, <1>15
  <2>4. \A k \in Refs(c)' : socket'[k] # None /\ k \in Refs(c)
    BY <1>14, <1>15
  <2> QED BY <1>14, <2>1, <2>2, <2>3, <2>4 DEF Moves
<1>17. Phase(c)'
  <2>1. at'[c] = "dial" => v.s.primary = None /\ v.s.standby = None
    BY <1>2, <1>13 DEF AfterSo
  <2>2. ~conf.separate => v.s.standby = None
    BY <1>2 DEF AfterSo, Part, Phase
  <2>3. v.s.closed /\ v.s.primary # None => "standby" \in spoiled'[c]
    <3>1. v.s.closed /\ v.s.primary # None => "standby" \in spoiled[c]
      BY <1>2 DEF AfterSo, Part, Phase
    <3> QED BY <1>2, <1>13, <3>1 DEF AfterSo
  <2> QED BY <1>3, <1>7, <1>9, <1>13, <2>1, <2>2, <2>3 DEF Phase
<1>18. Alive(c)' => Alive(c) /\ v.s.primary = ses[c].primary
  BY <1>2, <1>7, <1>14 DEF Alive, AfterSo
<1>19. Roles(c)'
  <2>1. ASSUME NEW k \in {v.s.primary, v.s.standby}, NEW m, Hears(k, m)
        PROVE  Hears(k, m)'
    BY <1>3, <1>14, <2>1 DEF Hears
  <2>2. ASSUME conf.separate
        PROVE  Hears(ses[c].primary, "primary")' /\ (Alive(c)' => Hears(ses[c].standby, "standby")')
    <3>1. Hears(ses[c].primary, "primary") /\ (Alive(c) => Hears(ses[c].standby, "standby"))
      BY <2>2 DEF Part, Roles
    <3>2. \A m : Hears(None, m)
      BY DEF Hears
    <3>3. v.s.primary = ses[c].primary \/ v.s.primary = None
      BY <1>2 DEF AfterSo
    <3>4. v.s.standby = ses[c].standby \/ v.s.standby = None
      BY <1>2 DEF AfterSo
    <3>5. Hears(v.s.primary, "primary") /\ (Alive(c) => Hears(v.s.standby, "standby"))
      BY <3>1, <3>2, <3>3, <3>4
    <3>6. Hears(v.s.primary, "primary")' /\ (Alive(c) => Hears(v.s.standby, "standby")')
      BY <2>1, <3>5
    <3> QED BY <1>7, <1>18, <3>6
  <2>3. at'[c] \notin {"check", "chosen"}
    BY <1>13
  <2> QED BY <1>3, <2>2, <2>3 DEF Roles
<1> QED BY <1>13, <1>16, <1>17, <1>18, <1>19

\* Messages of the transaction.
LEMMA FitsEffect ==
  ASSUME NEW c, NEW w, Fits(c, w), NEW v, Effect(c, {}, w, v)
  PROVE  Fits(c, v)
<1>1. /\ \A x \in v.done : x \in w.done
      /\ \A side \in Sides : \A x \in v.pend[side] : x \in w.pend[side]
  BY DEF Effect, Adds
<1>2. /\ \A x \in v.done : x \in done \/ x[1] = c
      /\ \A side \in Sides : \A x \in v.pend[side] : x[1] = c
  BY <1>1 DEF Fits
<1> QED BY <1>2 DEF Fits, Effect

LEMMA MessageIs ==
  ASSUME Typed, NEW c, NEW w \in WorkType, NEW side \in Sides, NEW r \in Message(w, side)
  PROVE  /\ r = <<r[1], r[2]>> /\ Effect(c, {}, w, r[1]) /\ Still(w, r[1]) /\ r[1].s = w.s
         /\ r[1].pend = w.pend /\ r[1].done = w.done /\ r[2] \in Told
         /\ r[2] = "ok" => Live(w, side) /\ (side = "primary" => ~w.s.closed)
         /\ r[2] \in {"ok", "bad", "error"} => r[1] = w
<1>1. \/ r = <<w, "bad">>
      \/ r = <<w, "comm">>
      \/ r = <<w, "error">>
      \/ r = <<w, "ok">> /\ Live(w, side) /\ (side = "primary" => ~w.s.closed)
      \/ r = <<WithCut(w, w.cut \cup {w.s[side]}, w.lost + 1), "comm">> /\ Live(w, side)
  BY DEF Message, WithCut
<1>2. Effect(c, {}, w, w) /\ Still(w, w)
  BY EffectNone DEF Still
<1>3. CASE r = <<WithCut(w, w.cut \cup {w.s[side]}, w.lost + 1), "comm">> /\ Live(w, side)
  <2>1. PICK x : x = w.cut \cup {w.s[side]}
    OBVIOUS
  <2>2. PICK n : n = w.lost + 1
    OBVIOUS
  <2>3. PICK v : v = r[1]
    OBVIOUS
  <2>4. w.s[side] \in SocketOrNone /\ w.s[side] # None /\ w.s[side] \in {w.s.primary, w.s.standby}
    <3>1. w.s[side] \in SocketOrNone /\ w.s[side] \in {w.s.primary, w.s.standby}
      BY WorkFields DEF Sides
    <3> QED BY <1>3, <3>1 DEF Live
  <2>5. x \in SUBSET Sockets /\ n \in Nat
    BY <2>1, <2>2, <2>4, WorkFields DEF SocketOrNone
  <2>6. v = WithCut(w, x, n) /\ r[2] = "comm" /\ r = <<v, "comm">>
    BY <1>3, <2>1, <2>2, <2>3
  <2>7. /\ v \in WorkType /\ Still(w, v) /\ v.cut = x /\ v.pend = w.pend /\ v.done = w.done /\ v.s = w.s
    BY <2>5, <2>6, CutSet
  <2>8. w.cut \subseteq v.cut /\ v.cut \subseteq w.cut \cup ({w.s.primary, w.s.standby} \ {None})
    BY <2>1, <2>4, <2>7
  <2>9. Adds(c, {}, w, v)
    BY <2>7 DEF Adds
  <2>10. Effect(c, {}, w, v)
    BY <2>7, <2>8, <2>9 DEF Effect, Still
  <2> QED BY <2>3, <2>6, <2>7, <2>10 DEF Told
<1>4. CASE r \in {<<w, "bad">>, <<w, "comm">>, <<w, "error">>}
  BY <1>2, <1>4 DEF Told
<1>5. CASE r = <<w, "ok">> /\ Live(w, side) /\ (side = "primary" => ~w.s.closed)
  BY <1>2, <1>5 DEF Told
<1> QED BY <1>1, <1>3, <1>4, <1>5

\* What moves from pending to committed, or is dropped.
Holds(w) == w.done \cup w.pend["primary"] \cup w.pend["standby"]
Ending(c, w, v) ==
  /\ v \in WorkType /\ v.s.primary = w.s.primary /\ v.s.closed = w.s.closed /\ v.s.auto = w.s.auto
  /\ \/ v.s.standby = w.s.standby /\ v.shut = w.shut
     \/ v.s.standby = None /\ v.shut = w.shut \cup ({w.s.standby} \ {None})
  /\ w.cut \subseteq v.cut /\ v.cut \subseteq w.cut \cup ({w.s.primary, w.s.standby} \ {None})
  /\ w.notes \subseteq v.notes /\ v.notes \subseteq w.notes \cup {"stale"}
  /\ Holds(v) \subseteq Holds(w)
  /\ \A side \in Sides : v.pend[side] \subseteq w.pend[side]

LEMMA EffectEnding ==
  ASSUME NEW c, NEW w \in WorkType, NEW v, Effect(c, {}, w, v)
  PROVE  Ending(c, w, v)
<1>1. /\ \A x \in v.done : x \in w.done
      /\ \A side \in Sides : \A x \in v.pend[side] : x \in w.pend[side]
  BY DEF Effect, Adds
<1>2. Holds(v) \subseteq Holds(w)
  BY <1>1 DEF Holds, Sides
<1> QED BY <1>1, <1>2 DEF Effect, Ending

LEMMA FitsEnding ==
  ASSUME NEW c, NEW w, Fits(c, w), NEW v, Ending(c, w, v)
  PROVE  Fits(c, v)
<1>1. \A x \in Holds(w) : x \in done \/ x[1] = c
  BY DEF Fits, Holds, Sides
<1>2. /\ \A x \in v.done : x \in done \/ x[1] = c
      /\ \A side \in Sides : \A x \in v.pend[side] : x[1] = c
  BY <1>1 DEF Ending, Fits, Holds
<1> QED BY <1>2 DEF Fits, Ending

LEMMA EndingTwice ==
  ASSUME NEW c, NEW w, NEW u, NEW v, Ending(c, w, u), Ending(c, u, v)
  PROVE  Ending(c, w, v)
<1>1. \A side \in Sides : v.pend[side] \subseteq w.pend[side]
  BY DEF Ending
<1>2. Holds(v) \subseteq Holds(w)
  BY DEF Ending
<1> QED BY <1>1, <1>2 DEF Ending

\* The transaction of a session over, by what it wrote or without.
Ended(w, side) == TrxOff(WithPend(w, side, {}), side)
Kept(w, side) == WithDone(Ended(w, side), w.done \cup w.pend[side])
Over(w, side, m) ==
  /\ m \in WorkType /\ Still(w, m) /\ m.cut = w.cut /\ m.lost = w.lost
  /\ m.pend[side] = {} /\ \A x \in Sides \ {side} : m.pend[x] = w.pend[x]
  /\ w.done \subseteq m.done /\ m.done \subseteq w.done \cup w.pend[side]

LEMMA EndedIs ==
  ASSUME NEW w \in WorkType, NEW side \in Sides, NEW m, m = Ended(w, side)
  PROVE  Over(w, side, m) /\ m.done = w.done
<1>1. PICK y \in SUBSET Writing : y = {}
  OBVIOUS
<1>2. PICK t : t = WithPend(w, side, y)
  OBVIOUS
<1>3. /\ t \in WorkType /\ Still(w, t) /\ t.cut = w.cut /\ t.lost = w.lost
      /\ t.pend = [w.pend EXCEPT ![side] = y] /\ t.done = w.done
  BY <1>2, PendSet
<1>4. m = TrxOff(t, side)
  BY <1>1, <1>2 DEF Ended
<1>5. /\ m \in WorkType /\ Still(t, m) /\ m.cut = t.cut /\ m.lost = t.lost /\ m.pend = t.pend /\ m.done = t.done
  BY <1>3, <1>4, TrxUnset
<1>6. m.pend[side] = {} /\ \A x \in Sides \ {side} : m.pend[x] = w.pend[x]
  BY <1>1, <1>3, <1>5, WorkFields
<1> QED BY <1>3, <1>5, <1>6 DEF Over, Still

LEMMA KeptIs ==
  ASSUME NEW w \in WorkType, NEW side \in Sides, NEW m, m = Kept(w, side)
  PROVE  Over(w, side, m) /\ w.pend[side] \subseteq m.done
<1>1. PICK e : e = Ended(w, side)
  OBVIOUS
<1>2. Over(w, side, e)
  BY <1>1, EndedIs
<1>3. PICK y : y = w.done \cup w.pend[side]
  OBVIOUS
<1>4. y \in SUBSET Writing
  BY <1>3, WorkFields
<1>5. m = WithDone(e, y)
  BY <1>1, <1>3 DEF Kept
<1>6. /\ m \in WorkType /\ Still(e, m) /\ m.cut = e.cut /\ m.lost = e.lost /\ m.pend = e.pend /\ m.done = y
  BY <1>2, <1>4, <1>5, DoneSet DEF Over
<1> QED BY <1>2, <1>3, <1>6 DEF Over, Still

\* What commit or rollback of a session answers.
EndsSo(c, w, side, commits, v, a) ==
  /\ Ending(c, w, v) /\ a \in Told /\ v.s.standby = w.s.standby
  /\ w.done \subseteq v.done /\ \A x \in Sides \ {side} : v.pend[x] = w.pend[x]
  /\ a = "ok" /\ ~w.s.auto =>
       /\ Live(w, side) /\ (side = "primary" => ~w.s.closed)
       /\ commits => w.pend[side] \subseteq v.done

LEMMA OverEnds ==
  ASSUME NEW c, NEW w \in WorkType, NEW side \in Sides, NEW m, Over(w, side, m),
         NEW commits, NEW a \in Told,
         a = "ok" => /\ Live(w, side) /\ (side = "primary" => ~w.s.closed)
                     /\ commits => w.pend[side] \subseteq m.done
  PROVE  EndsSo(c, w, side, commits, m, a)
<1>1. Holds(m) \subseteq Holds(w)
  BY DEF Over, Holds, Sides
<1>2. \A x \in Sides : m.pend[x] \subseteq w.pend[x]
  BY DEF Over, Sides
<1>3. Ending(c, w, m)
  BY <1>1, <1>2 DEF Over, Ending, Still
<1> QED BY <1>3 DEF EndsSo, Over, Still

LEMMA EndsIs ==
  ASSUME Typed, NEW c, NEW w \in WorkType, NEW side \in Sides, NEW commits, NEW r \in Ends(c, w, side, commits)
  PROVE  r = <<r[1], r[2]>> /\ EndsSo(c, w, side, commits, r[1], r[2])
<1>1. PICK e : e = Ended(w, side)
  OBVIOUS
<1>2. PICK k : k = Kept(w, side)
  OBVIOUS
<1>3. PICK meant : meant = IF commits THEN k ELSE e
  OBVIOUS
<1>4. Over(w, side, e) /\ e.done = w.done
  BY <1>1, EndedIs
<1>5. Over(w, side, k) /\ w.pend[side] \subseteq k.done
  BY <1>2, KeptIs
<1>6. e = [w EXCEPT !.pend[side] = {}, !.s.trx[side] = FALSE]
  BY <1>1 DEF Ended, TrxOff, WithPend
<1>7. k = [e EXCEPT !.done = @ \cup w.pend[side]]
  BY <1>1, <1>2, <1>4 DEF Kept, WithDone
<1>8. Effect(c, {}, w, w)
  BY EffectNone
<1>9. CASE w.s.auto /\ ~(commits /\ w.s.trx[side]) /\ ~w.s.closed
  <2>1. r = <<w, "ok">>
    BY <1>9 DEF Ends
  <2>2. Ending(c, w, w)
    BY <1>8, EffectEnding
  <2> QED BY <1>9, <2>1, <2>2 DEF EndsSo, Told
<1>10. ASSUME ~(w.s.auto /\ ~(commits /\ w.s.trx[side]) /\ ~w.s.closed)
       PROVE  \E q \in Message(w, side) :
                \/ q[2] = "ok" /\ r = <<meant, "ok">>
                \/ q[2] = "error" /\ r = <<e, "error">>
                \/ q[2] = "comm" /\ \E v \in {meant, e} : r = <<WithCut(v, q[1].cut, q[1].lost), "comm">>
                \/ q[2] \notin {"ok", "error", "comm"} /\ r = q
  <2>1. Ends(c, w, side, commits) =
          UNION {CASE q[2] = "ok" -> {<<meant, "ok">>}
                   [] q[2] = "error" -> {<<e, "error">>}
                   [] q[2] = "comm" -> {<<WithCut(v, q[1].cut, q[1].lost), "comm">> :
                        v \in IF q[1].lost > w.lost THEN {meant, e} ELSE {e}}
                   [] OTHER -> {q}
                 : q \in Message(w, side)}
    BY <1>3, <1>6, <1>7, <1>10 DEF Ends, WithCut
  <2>2. PICK q \in Message(w, side) :
          r \in CASE q[2] = "ok" -> {<<meant, "ok">>}
                  [] q[2] = "error" -> {<<e, "error">>}
                  [] q[2] = "comm" -> {<<WithCut(v, q[1].cut, q[1].lost), "comm">> :
                       v \in IF q[1].lost > w.lost THEN {meant, e} ELSE {e}}
                  [] OTHER -> {q}
    BY <2>1
  <2> QED BY <2>2
<1>11. ASSUME NEW q \in Message(w, side),
              \/ q[2] = "ok" /\ r = <<meant, "ok">>
              \/ q[2] = "error" /\ r = <<e, "error">>
              \/ q[2] = "comm" /\ \E v \in {meant, e} : r = <<WithCut(v, q[1].cut, q[1].lost), "comm">>
              \/ q[2] \notin {"ok", "error", "comm"} /\ r = q
       PROVE  r = <<r[1], r[2]>> /\ EndsSo(c, w, side, commits, r[1], r[2])
  <2>1. /\ q = <<q[1], q[2]>> /\ Effect(c, {}, w, q[1]) /\ Still(w, q[1])
        /\ q[1].pend = w.pend /\ q[1].done = w.done /\ q[2] \in Told
        /\ q[2] = "ok" => Live(w, side) /\ (side = "primary" => ~w.s.closed)
    BY MessageIs
  <2>2. Over(w, side, meant) /\ (commits => w.pend[side] \subseteq meant.done)
    BY <1>3, <1>4, <1>5
  <2>3. CASE q[2] = "ok" /\ r = <<meant, "ok">>
    <3>1. PICK a \in Told : a = "ok"
      BY DEF Told
    <3>2. Over(w, side, meant) /\ Live(w, side) /\ (side = "primary" => ~w.s.closed)
      BY <2>1, <2>2, <2>3
    <3>3. EndsSo(c, w, side, commits, meant, a)
      BY <2>2, <3>2, OverEnds
    <3> QED BY <2>3, <3>1, <3>3
  <2>4. CASE q[2] = "error" /\ r = <<e, "error">>
    <3>1. PICK a \in Told : a = "error"
      BY DEF Told
    <3>2. EndsSo(c, w, side, commits, e, a)
      BY <1>4, <3>1, OverEnds
    <3> QED BY <2>4, <3>1, <3>2
  <2>5. ASSUME NEW m \in {meant, e}, q[2] = "comm", r = <<WithCut(m, q[1].cut, q[1].lost), "comm">>
        PROVE  r = <<r[1], r[2]>> /\ EndsSo(c, w, side, commits, r[1], r[2])
    <3>1. Over(w, side, m)
      BY <1>4, <2>2, <2>5
    <3>2. PICK x : x = q[1].cut
      OBVIOUS
    <3>3. PICK n : n = q[1].lost
      OBVIOUS
    <3>4. PICK v : v = WithCut(m, x, n)
      OBVIOUS
    <3>5. x \in SUBSET Sockets /\ n \in Nat
      <4>1. q[1] \in WorkType
        BY <2>1 DEF Effect
      <4> QED BY <3>2, <3>3, <4>1, WorkFields
    <3>6. m \in WorkType
      BY <3>1 DEF Over
    <3>7. v \in WorkType /\ Still(m, v) /\ v.cut = x /\ v.pend = m.pend /\ v.done = m.done /\ v.s = m.s
      BY <3>4, <3>5, <3>6, CutSet
    <3>8. PICK a \in Told : a = "comm"
      BY DEF Told
    <3>9. EndsSo(c, w, side, commits, m, a)
      BY <3>1, <3>8, OverEnds
    <3>10. w.cut \subseteq v.cut /\ v.cut \subseteq w.cut \cup ({w.s.primary, w.s.standby} \ {None})
      BY <2>1, <3>2, <3>7 DEF Effect
    <3>11. Holds(v) \subseteq Holds(w)
      BY <3>7, <3>9 DEF EndsSo, Ending, Holds
    <3>12. Ending(c, w, v)
      BY <3>7, <3>9, <3>10, <3>11 DEF EndsSo, Ending, Still
    <3>13. EndsSo(c, w, side, commits, v, a)
      BY <3>7, <3>8, <3>9, <3>12 DEF EndsSo
    <3> QED BY <2>5, <3>2, <3>3, <3>4, <3>8, <3>13
  <2>6. CASE q[2] \notin {"ok", "error", "comm"} /\ r = q
    <3>1. Ending(c, w, q[1])
      BY <2>1, EffectEnding
    <3> QED BY <2>1, <2>6, <3>1 DEF EndsSo, Still
  <2> QED BY <2>3, <2>4, <2>5, <2>6, <1>11
<1> QED BY <1>9, <1>10, <1>11

-----------------------------------------------------------------------------
(* The steps of a connection at rest.                                      *)

Whole(c) == Typed' /\ Beside(c) /\ Moves(c) /\ Part(c)'

LEMMA RecordKeeps ==
  ASSUME Typed, NEW c \in Conns, Record(c), made'[c] \in Nat, made[c] <= made'[c],
         \A n \in Nat, k \in 0 .. 2 : Wrote(c, n, k)' => Wrote(c, n, k),
         "stale" \in spoiled[c] => "stale" \in spoiled'[c],
         \A side \in Sides : \A x \in pend'[c][side] : x[1] = c
  PROVE  Record(c)'
<1>1. made[c] \in Nat
  BY DEF Typed
<1>2. ASSUME NEW n \in Nat, NEW k \in 0 .. 2, Wrote(c, n, k)'
      PROVE  n <= made'[c]
  <2>1. n <= made[c]
    BY <1>2 DEF Record
  <2> QED BY <1>1, <2>1
<1>3. \A n \in Nat, k, l \in 0 .. 2 : Wrote(c, n, k)' /\ Wrote(c, n, l)' /\ k # l => "stale" \in spoiled'[c]
  BY DEF Record
<1> QED BY <1>2, <1>3 DEF Record

LEMMA AfterHolds ==
  ASSUME Typed, NEW w \in WorkType, NEW a, NEW v, v = After(w, a)
  PROVE  /\ v \in WorkType /\ v.done = w.done /\ \A side \in Sides : v.pend[side] \subseteq w.pend[side]
         /\ a = "comm" => v.s.primary = None /\ v.s.closed = ~conf.reconnects
         /\ a = "comm" /\ ~conf.reconnects => v.s.standby = w.s.standby /\ v.pend["standby"] = w.pend["standby"]
         /\ v.s.auto = w.s.auto /\ v.s.trx = w.s.trx /\ v.s.distribute = w.s.distribute
         /\ v.notes = w.notes
         /\ a # "comm" => v = w
<1>1. CASE a # "comm"
  BY <1>1 DEF After
<1>2. CASE a = "comm"
  <2>1. v = Broken(w)
    BY <1>2 DEF After
  <2>2. /\ v \in WorkType /\ v.s.primary = None /\ v.s.closed = ~conf.reconnects
        /\ v.s.standby = (IF conf.reconnects THEN None ELSE w.s.standby)
        /\ v.done = w.done /\ v.notes = w.notes
        /\ v.pend["primary"] = {}
        /\ v.pend["standby"] = (IF conf.reconnects THEN {} ELSE w.pend["standby"])
        /\ v.s.auto = w.s.auto /\ v.s.trx = w.s.trx /\ v.s.distribute = w.s.distribute
    BY <2>1, BrokenIs
  <2>3. \A side \in Sides : v.pend[side] \subseteq w.pend[side]
    BY <2>2 DEF Sides
  <2> QED BY <1>2, <2>2, <2>3
<1> QED BY <1>1, <1>2

\* What the state shows of the record afterwards.
Shows(c, a, v) ==
  /\ ses'[c] = v.s /\ pend'[c] = v.pend /\ done' = v.done /\ v.notes \subseteq spoiled'[c]
  /\ a = "comm" /\ conf.reconnects => "switched" \in spoiled'[c]
  /\ ~(a = "comm" /\ conf.reconnects) => spoiled'[c] = v.notes

LEMMA BecomesShows ==
  ASSUME Typed, NEW c \in Conns, NEW w, NEW a, Becomes(c, w, a), NEW v, v = After(w, a)
  PROVE  Shows(c, a, v)
<1>1. /\ ses' = [ses EXCEPT ![c] = v.s] /\ pend' = [pend EXCEPT ![c] = v.pend] /\ done' = v.done
      /\ IF a = "comm" /\ conf.reconnects
         THEN spoiled' = [spoiled EXCEPT ![c] = v.notes \cup {"switched"}]
         ELSE spoiled' = [spoiled EXCEPT ![c] = v.notes]
  BY DEF Becomes, After
<1>2. ses'[c] = v.s /\ pend'[c] = v.pend
  BY <1>1 DEF Typed
<1>3. CASE a = "comm" /\ conf.reconnects
  BY <1>1, <1>2, <1>3 DEF Typed, Shows
<1>4. CASE ~(a = "comm" /\ conf.reconnects)
  BY <1>1, <1>2, <1>4 DEF Typed, Shows
<1> QED BY <1>3, <1>4

\* No statement was run: nothing is written that was not before.
LEMMA RecordEnding ==
  ASSUME Typed, NEW c \in Conns, Record(c), NEW w, Fits(c, w), Holds(w) \subseteq Holds(Work(c)),
         NEW a, Becomes(c, w, a), made'[c] \in Nat, made[c] <= made'[c]
  PROVE  Record(c)'
<1>1. PICK v : v = After(w, a)
  OBVIOUS
<1>2. w \in WorkType
  BY DEF Fits
<1>3. v.done = w.done /\ (\A side \in Sides : v.pend[side] \subseteq w.pend[side]) /\ v.notes = w.notes
  BY <1>1, <1>2, AfterHolds
<1>4. Shows(c, a, v)
  BY <1>1, BecomesShows
<1>5. Holds(v) \subseteq Holds(w)
  BY <1>3 DEF Holds, Sides
<1>6. Holds(Work(c)) = done \cup pend[c]["primary"] \cup pend[c]["standby"]
  BY WorkIs DEF Holds
<1>7. \A n \in Nat, k \in 0 .. 2 : Wrote(c, n, k)' => Wrote(c, n, k)
  BY <1>4, <1>5, <1>6 DEF Wrote, Shows, Holds
<1>8. "stale" \in spoiled[c] => "stale" \in spoiled'[c]
  BY <1>3, <1>4 DEF Shows, Fits
<1>9. \A side \in Sides : \A x \in pend'[c][side] : x[1] = c
  BY <1>3, <1>4 DEF Shows, Fits
<1> QED BY <1>7, <1>8, <1>9, RecordKeeps

LEMMA StandbyNotRecoveredStep ==
  ASSUME Typed, Held, NEW c \in Conns, Part(c), StandbyNotRecovered(c)
  PROVE  Whole(c)
<1>1. /\ at[c] = "idle" /\ ses[c].standby = None /\ ~ses[c].closed
      /\ Becomes(c, Work(c), "comm") /\ made' = [made EXCEPT ![c] = @ + 1]
      /\ UNCHANGED <<inTx, opens, mine, last>>
  BY DEF StandbyNotRecovered
<1>2. PICK b \in WorkType :
        /\ b = Work(c) /\ b.s = ses[c] /\ b.pend = pend[c] /\ b.done = done
        /\ b.shut = {} /\ b.cut = {} /\ b.notes = spoiled[c]
  BY WorkIs
<1>3. Fits(c, b)
  BY <1>2, EffectNone, EffectFits DEF Part
<1>4. Tells(c) /\ made'[c] = made[c] + 1
  BY <1>1 DEF Tells, Typed
<1>5. /\ Typed' /\ Beside(c) /\ Moves(c) /\ Phase(c)' /\ Roles(c)' /\ Stands(c)' /\ Walks(c)'
      /\ Alive(c)' => Alive(c)
  BY <1>1, <1>2, <1>3, <1>4, BecomesIs
<1>6. Record(c)'
  <2>1. made[c] \in Nat
    BY DEF Typed
  <2>2. made'[c] \in Nat /\ made[c] <= made'[c]
    BY <1>4, <2>1
  <2> QED BY <1>1, <1>2, <1>3, <2>2, RecordEnding DEF Part
<1>7. Tx(c)'
  <2> SUFFICES ASSUME inTx'[c], "switched" \notin spoiled'[c]
               PROVE  /\ ~ses'[c].auto /\ ses'[c].closed
                      /\ mine'[c] = {} \/ InPrimary(c)' \/ InStandby(c)'
    BY DEF Tx
  <2>1. PICK a : a = "comm"
    OBVIOUS
  <2>2. PICK v : v = After(b, a)
    OBVIOUS
  <2>3. Shows(c, a, v) /\ ~conf.reconnects
    <3>1. Shows(c, a, v)
      BY <1>1, <1>2, <2>1, <2>2, BecomesShows
    <3> QED BY <2>1, <3>1 DEF Shows
  <2>4. /\ v.s.primary = None /\ v.s.closed = ~conf.reconnects /\ v.s.standby = b.s.standby
        /\ v.s.auto = b.s.auto /\ v.s.trx = b.s.trx /\ v.s.distribute = b.s.distribute /\ v.notes = b.notes
    BY <2>1, <2>2, <2>3, AfterHolds
  <2>5. Tx(c) /\ inTx[c] /\ "switched" \notin spoiled[c] /\ mine' = mine
    BY <1>1, <1>2, <2>1, <2>3, <2>4 DEF Part, Shows
  <2>6. ses'[c].closed /\ ses'[c].primary = None /\ ses'[c].standby = None
        /\ ses'[c].auto = ses[c].auto /\ ses'[c].trx = ses[c].trx /\ ses'[c].distribute = ses[c].distribute
    BY <1>1, <1>2, <2>3, <2>4 DEF Shows
  <2> QED BY <2>5, <2>6 DEF Tx, InPrimary, InStandby
<1> QED BY <1>5, <1>6, <1>7 DEF Whole, Part

LEMMA AfterStandbyIs ==
  ASSUME Typed, NEW c, NEW w \in WorkType, NEW v \in AfterStandby(w)
  PROVE  Effect(c, {}, w, v)
<1>1. CASE w.s.standby = None
  <2>1. v = w
    BY <1>1 DEF AfterStandby
  <2> QED BY <2>1, EffectNone
<1>2. CASE w.s.standby # None
  <2>1. PICK r \in Message(w, "standby") : v = IF r[2] = "comm" THEN Dropped(r[1]) ELSE r[1]
    BY <1>2 DEF AfterStandby
  <2>2. PICK u : u = r[1]
    OBVIOUS
  <2>3. Effect(c, {}, w, u) /\ u \in WorkType
    BY <2>2, MessageIs DEF Sides, Effect
  <2>4. CASE r[2] # "comm"
    BY <2>1, <2>2, <2>3, <2>4
  <2>5. CASE r[2] = "comm"
    <3>1. v = Dropped(u)
      BY <2>1, <2>2, <2>5
    <3>2. Effect(c, {}, u, v)
      BY <2>3, <3>1, DroppedIs
    <3>3. PICK K : K = {}
      OBVIOUS
    <3>4. Effect(c, K \cup K, w, v)
      BY <2>3, <3>2, <3>3, EffectTwice
    <3>5. K \cup K = K
      OBVIOUS
    <3> QED BY <3>3, <3>4, <3>5
  <2> QED BY <2>4, <2>5
<1> QED BY <1>1, <1>2

LEMMA BeginTxStep ==
  ASSUME Typed, Held, NEW c \in Conns, Part(c), BeginTx(c)
  PROVE  Whole(c)
<1>1. PICK b \in WorkType :
        /\ b = Work(c) /\ b.s = ses[c] /\ b.pend = pend[c] /\ b.done = done
        /\ b.shut = {} /\ b.cut = {} /\ b.notes = spoiled[c]
  BY WorkIs
<1>2. PICK w0 : w0 = [b EXCEPT !.notes = @ \ {"switched"}, !.s.auto = FALSE]
  OBVIOUS
<1>3. PICK v \in AfterStandby(w0) : \E r \in Message(v, "primary") :
        Becomes(c, r[1], r[2]) /\ inTx' = [inTx EXCEPT ![c] = r[2] = "ok"]
  BY <1>1, <1>2 DEF BeginTx
<1> PICK r \in Message(v, "primary") :
      Becomes(c, r[1], r[2]) /\ inTx' = [inTx EXCEPT ![c] = r[2] = "ok"]
  BY <1>3
<1>4. /\ at[c] = "idle" /\ mine' = [mine EXCEPT ![c] = {}] /\ UNCHANGED <<opens, made, last>>
  BY DEF BeginTx
<1>5. /\ w0 \in WorkType /\ w0.s.primary = b.s.primary /\ w0.s.standby = b.s.standby /\ w0.s.closed = b.s.closed
      /\ w0.s.auto = FALSE
  <2>1. b.notes \ {"switched"} \in SUBSET Notes
    BY WorkFields
  <2> QED BY <1>2, <2>1 DEF WorkType, Session
<1>6. /\ w0.pend = b.pend /\ w0.done = b.done /\ w0.shut = {} /\ w0.cut = {}
      /\ w0.notes = spoiled[c] \ {"switched"}
  BY <1>1, <1>2 DEF WorkType
<1>7. Fits(c, w0) /\ Holds(w0) = Holds(b)
  <2>1. \A side \in Sides : \A x \in w0.pend[side] : x[1] = c
    BY <1>1, <1>6 DEF Part, Record
  <2> QED BY <1>1, <1>5, <1>6, <2>1 DEF Fits, Holds
<1>8. Effect(c, {}, w0, v)
  BY <1>3, <1>5, AfterStandbyIs
<1>9. PICK w : w = r[1]
  OBVIOUS
<1>10. PICK a : a = r[2]
  OBVIOUS
<1>11. Effect(c, {}, v, w) /\ w.s = v.s
  <2>1. v \in WorkType
    BY <1>8 DEF Effect
  <2>2. PICK side \in Sides : side = "primary"
    BY DEF Sides
  <2>3. r \in Message(v, side)
    BY <2>2
  <2>4. Effect(c, {}, v, r[1]) /\ r[1].s = v.s
    BY <2>1, <2>3, MessageIs
  <2> QED BY <1>9, <2>4
<1>12. Fits(c, w) /\ Holds(w) \subseteq Holds(b)
  <2>1. Fits(c, v) /\ Ending(c, w0, v) /\ v \in WorkType
    BY <1>5, <1>7, <1>8, FitsEffect, EffectEnding DEF Effect
  <2>2. Fits(c, w) /\ Ending(c, v, w)
    BY <1>11, <2>1, FitsEffect, EffectEnding
  <2> QED BY <1>7, <2>1, <2>2 DEF Ending
<1>13. Becomes(c, w, a) /\ inTx' = [inTx EXCEPT ![c] = (a = "ok")]
  BY <1>3, <1>9, <1>10
<1>14. Tells(c) /\ inTx'[c] = (a = "ok") /\ mine'[c] = {} /\ made' = made
  <2>1. (a = "ok") \in BOOLEAN
    OBVIOUS
  <2> QED BY <1>4, <1>13, <2>1 DEF Tells, Typed
<1>15. Typed' /\ Beside(c) /\ Moves(c) /\ Phase(c)' /\ Roles(c)' /\ Stands(c)' /\ Walks(c)'
  BY <1>4, <1>12, <1>13, <1>14, BecomesIs
<1>16. Record(c)'
  <2>1. made'[c] \in Nat /\ made[c] <= made'[c]
    BY <1>14 DEF Typed
  <2> QED BY <1>1, <1>12, <1>13, <2>1, RecordEnding DEF Part
<1>17. Tx(c)'
  <2> SUFFICES ASSUME inTx'[c]
               PROVE  ~ses'[c].auto
    BY <1>14 DEF Tx, Has
  <2>1. a = "ok"
    BY <1>14
  <2>2. PICK u : u = After(w, a)
    OBVIOUS
  <2>3. u = w /\ Shows(c, a, u)
    BY <1>13, <2>1, <2>2, BecomesShows DEF After
  <2>4. w.s.auto = FALSE
    BY <1>5, <1>8, <1>11 DEF Effect
  <2> QED BY <2>3, <2>4 DEF Shows
<1> QED BY <1>15, <1>16, <1>17 DEF Whole, Part

LEMMA EndTxStep ==
  ASSUME Typed, Held, NEW c \in Conns, Part(c), NEW commits \in BOOLEAN, EndTx(c, commits)
  PROVE  /\ Whole(c)
         /\ last'[c] = <<"commit", "primary">> /\ ~ses[c].auto =>
              Alive(c) /\ ~ses[c].closed /\ pend[c]["primary"] \subseteq done'
<1>1. PICK b \in WorkType :
        /\ b = Work(c) /\ b.s = ses[c] /\ b.pend = pend[c] /\ b.done = done
        /\ b.shut = {} /\ b.cut = {} /\ b.notes = spoiled[c]
  BY WorkIs
<1>2. PICK v \in IF ses[c].standby = None THEN {b}
                 ELSE {IF q[2] = "comm" THEN Dropped(q[1]) ELSE q[1] : q \in Ends(c, b, "standby", commits)} :
        \E r \in Ends(c, v, "primary", commits) :
          /\ Becomes(c, [r[1] EXCEPT !.s.auto = TRUE], r[2])
          /\ Answered(c, IF commits THEN "commit" ELSE "rollback", "primary", r[2])
  BY <1>1 DEF EndTx
<1>3. PICK r \in Ends(c, v, "primary", commits) :
        /\ Becomes(c, [r[1] EXCEPT !.s.auto = TRUE], r[2])
        /\ Answered(c, IF commits THEN "commit" ELSE "rollback", "primary", r[2])
  BY <1>2
<1>4. /\ at[c] = "idle" /\ inTx' = [inTx EXCEPT ![c] = FALSE] /\ UNCHANGED <<opens, made, mine>>
  BY DEF EndTx
<1>5. Fits(c, b)
  BY <1>1, EffectNone, EffectFits DEF Part
<1>6. Ending(c, b, v) /\ b.pend["primary"] \subseteq v.pend["primary"]
  <2>1. CASE ses[c].standby = None
    <3>1. v = b
      BY <1>2, <2>1
    <3> QED BY <3>1, EffectNone, EffectEnding
  <2>2. CASE ses[c].standby # None
    <3>1. PICK q \in Ends(c, b, "standby", commits) : v = IF q[2] = "comm" THEN Dropped(q[1]) ELSE q[1]
      BY <1>2, <2>2
    <3>2. PICK u : u = q[1]
      OBVIOUS
    <3>3. EndsSo(c, b, "standby", commits, u, q[2])
      BY <3>1, <3>2, EndsIs DEF Sides
    <3>4. Ending(c, b, u) /\ u.pend["primary"] = b.pend["primary"] /\ u \in WorkType
      BY <3>3 DEF EndsSo, Ending, Sides
    <3>5. CASE q[2] # "comm"
      BY <3>1, <3>2, <3>4, <3>5
    <3>6. CASE q[2] = "comm"
      <4>1. v = Dropped(u)
        BY <3>1, <3>2, <3>6
      <4>2. Effect(c, {}, u, v)
        BY <3>4, <4>1, DroppedIs
      <4>3. Ending(c, u, v)
        BY <3>4, <4>2, EffectEnding
      <4> QED BY <3>4, <4>2, <4>3, EndingTwice DEF Effect
    <3> QED BY <3>5, <3>6
  <2> QED BY <2>1, <2>2
<1>7. PICK u : u = r[1]
  OBVIOUS
<1>8. PICK a : a = r[2]
  OBVIOUS
<1>9. EndsSo(c, v, "primary", commits, u, a)
  <2>1. v \in WorkType
    BY <1>6 DEF Ending
  <2> QED BY <1>7, <1>8, <2>1, EndsIs DEF Sides
<1>10. PICK w : w = [u EXCEPT !.s.auto = TRUE]
  OBVIOUS
<1>11. Ending(c, b, u) /\ Fits(c, u) /\ u \in WorkType
  BY <1>5, <1>6, <1>9, EndingTwice, FitsEnding DEF EndsSo, Ending
<1>12. /\ w \in WorkType /\ w.s.primary = u.s.primary /\ w.s.standby = u.s.standby /\ w.s.closed = u.s.closed
       /\ w.pend = u.pend /\ w.done = u.done /\ w.shut = u.shut /\ w.cut = u.cut /\ w.notes = u.notes
  BY <1>10, <1>11 DEF WorkType, Session
<1>13. Fits(c, w) /\ Holds(w) \subseteq Holds(b)
  BY <1>11, <1>12 DEF Fits, Ending, Holds
<1>14. Becomes(c, w, a) /\ Answered(c, IF commits THEN "commit" ELSE "rollback", "primary", a)
  BY <1>3, <1>7, <1>8, <1>10
<1>15. Tells(c) /\ inTx'[c] = FALSE /\ made' = made
  <2>1. last' \in [Conns -> Seq(Words)] /\ \A d \in Conns \ {c} : last'[d] = last[d]
    <3>1. PICK x \in Words : x = IF commits THEN "commit" ELSE "rollback"
      BY DEF Words
    <3>2. "primary" \in Words
      BY DEF Words, Sides
    <3>3. last' = [last EXCEPT ![c] = IF a = "ok" THEN <<x, "primary">> ELSE <<>>]
      BY <1>14, <3>1 DEF Answered
    <3>4. (IF a = "ok" THEN <<x, "primary">> ELSE <<>>) \in Seq(Words)
      BY <3>2
    <3> QED BY <3>3, <3>4 DEF Typed
  <2> QED BY <1>4, <2>1 DEF Tells, Typed
<1>16. Typed' /\ Beside(c) /\ Moves(c) /\ Phase(c)' /\ Roles(c)' /\ Stands(c)' /\ Walks(c)'
  BY <1>4, <1>13, <1>14, <1>15, BecomesIs
<1>17. Record(c)'
  <2>1. made'[c] \in Nat /\ made[c] <= made'[c]
    BY <1>15 DEF Typed
  <2> QED BY <1>1, <1>13, <1>14, <2>1, RecordEnding DEF Part
<1>18. Tx(c)'
  BY <1>15 DEF Tx
<1>19. ASSUME last'[c] = <<"commit", "primary">>, ~ses[c].auto
       PROVE  Alive(c) /\ ~ses[c].closed /\ pend[c]["primary"] \subseteq done'
  <2>1. a = "ok" /\ commits
    BY <1>14, <1>19 DEF Answered, Typed
  <2>2. v.s.auto = FALSE /\ v.s.closed = ses[c].closed /\ v.s["primary"] = ses[c].primary /\ b.cut \subseteq v.cut
    <3>1. v \in WorkType /\ v.s.auto = b.s.auto /\ v.s.primary = b.s.primary
      BY <1>6 DEF Ending
    <3>2. v.s.auto \in BOOLEAN
      BY <3>1, WorkFields
    <3> QED BY <1>1, <1>6, <1>19, <3>1, <3>2, SideOf DEF Ending
  <2>3. Live(v, "primary") /\ ~v.s.closed /\ v.pend["primary"] \subseteq u.done
    BY <1>9, <2>1, <2>2 DEF EndsSo
  <2>4. Alive(c) /\ ~ses[c].closed
    BY <2>2, <2>3 DEF Live, Answers, Alive
  <2>5. PICK z : z = After(w, a)
    OBVIOUS
  <2>6. z = w /\ Shows(c, a, z)
    BY <1>14, <2>1, <2>5, BecomesShows DEF After
  <2>7. done' = u.done
    BY <1>12, <2>6 DEF Shows
  <2> QED BY <1>1, <1>6, <2>3, <2>4, <2>7
<1> QED BY <1>16, <1>17, <1>18, <1>19 DEF Whole, Part

\* The writes of the transaction are where the answer came from.
LEMMA AnsweredWhere ==
  ASSUME Typed, NEW c \in Conns, Tx(c), inTx[c], "switched" \notin spoiled[c],
         NEW kind \in Kinds, NEW v, NEW side, CallSo(c, kind, v, "ok", side), Fits(c, v)
  PROVE  /\ Has(c, side) /\ (side = "primary" => mine[c] = {} \/ InPrimary(c))
         /\ side = "standby" => mine[c] = {} \/ InStandby(c)
<1>1. ~ses[c].auto /\ (mine[c] = {} \/ InPrimary(c) \/ InStandby(c))
  BY DEF Tx
<1>2. side \in Sides
  BY DEF CallSo
<1>3. CASE side = "primary"
  <2>1. Alive(c) /\ ~ses[c].closed
    BY <1>3 DEF CallSo
  <2>2. mine[c] = {} \/ InPrimary(c)
    BY <1>1, <2>1 DEF InStandby
  <2> QED BY <1>3, <2>1, <2>2 DEF InPrimary, Has
<1>4. CASE side = "standby"
  <2>1. v.s.standby # None /\ ~InPrimary(c)
    BY <1>1, <1>4 DEF CallSo, InPrimary
  <2>2. ses[c].standby # None
    BY <2>1 DEF Fits
  <2>3. mine[c] = {} \/ InStandby(c)
    BY <1>1, <2>1
  <2> QED BY <1>4, <2>2, <2>3 DEF InStandby, Has
<1> QED BY <1>2, <1>3, <1>4 DEF Sides

LEMMA CallRecord ==
  ASSUME Typed, NEW c \in Conns, Record(c), NEW kind, NEW w, NEW a, NEW side,
         CallSo(c, kind, w, a, side), Fits(c, w), Becomes(c, w, a), made'[c] = made[c] + 1
  PROVE  Record(c)'
<1>1. PICK b \in WorkType :
        /\ b = Work(c) /\ b.s = ses[c] /\ b.pend = pend[c] /\ b.done = done
        /\ b.shut = {} /\ b.cut = {} /\ b.notes = spoiled[c]
  BY WorkIs
<1>2. PICK K \in SUBSET (0 .. 2) :
        Effect(c, K, b, w) /\ ("stale" \in w.notes \/ \E k \in 0 .. 2 : K \subseteq {k})
  BY <1>1 DEF CallSo
<1>3. PICK v : v = After(w, a)
  OBVIOUS
<1>4. v.done = w.done /\ (\A s \in Sides : v.pend[s] \subseteq w.pend[s]) /\ v.notes = w.notes
  BY <1>3, AfterHolds DEF Fits
<1>5. Shows(c, a, v)
  BY <1>3, BecomesShows
<1>6. made[c] \in Nat /\ made'[c] = made[c] + 1
  BY DEF Typed
<1>7. ASSUME NEW n \in Nat, NEW k \in 0 .. 2, Wrote(c, n, k)'
      PROVE  Wrote(c, n, k) \/ (n = made[c] + 1 /\ k \in K)
  <2>1. PICK x : x = <<c, n, k>>
    OBVIOUS
  <2>2. x \in w.done \cup w.pend["primary"] \cup w.pend["standby"]
    BY <1>4, <1>5, <1>7, <2>1 DEF Wrote, Shows, Sides
  <2>3. x \in done \cup pend[c]["primary"] \cup pend[c]["standby"] \/ \E j \in K : x = The(c, j)
    BY <1>1, <1>2, <2>2 DEF Effect, Adds, Sides
  <2> QED BY <2>1, <2>3 DEF Wrote, The
<1>8. \A n \in Nat, k \in 0 .. 2 : Wrote(c, n, k)' => n <= made'[c]
  <2> SUFFICES ASSUME NEW n \in Nat, NEW k \in 0 .. 2, Wrote(c, n, k)' PROVE n <= made'[c]
    OBVIOUS
  <2>1. CASE Wrote(c, n, k)
    <3>1. n <= made[c]
      BY <2>1 DEF Record
    <3> QED BY <1>6, <3>1
  <2>2. CASE n = made[c] + 1
    BY <1>6, <2>2
  <2> QED BY <1>7, <2>1, <2>2
<1>9. "stale" \in w.notes => "stale" \in spoiled'[c]
  BY <1>4, <1>5 DEF Shows
<1>10. "stale" \in spoiled[c] => "stale" \in w.notes
  BY DEF Fits
<1>11. \A n \in Nat, k, l \in 0 .. 2 : Wrote(c, n, k)' /\ Wrote(c, n, l)' /\ k # l => "stale" \in spoiled'[c]
  <2> SUFFICES ASSUME NEW n \in Nat, NEW k \in 0 .. 2, NEW l \in 0 .. 2,
                      Wrote(c, n, k)', Wrote(c, n, l)', k # l, "stale" \notin w.notes
               PROVE  FALSE
    BY <1>9
  <2>1. Wrote(c, n, k) \/ (n = made[c] + 1 /\ k \in K)
    BY <1>7
  <2>2. Wrote(c, n, l) \/ (n = made[c] + 1 /\ l \in K)
    BY <1>7
  <2>3. ~(k \in K /\ l \in K)
    BY <1>2
  <2>4. ~(Wrote(c, n, k) /\ Wrote(c, n, l))
    BY <1>10 DEF Record
  <2>5. \A j \in 0 .. 2 : Wrote(c, n, j) => n # made[c] + 1
    <3>1. \A j \in 0 .. 2 : Wrote(c, n, j) => n <= made[c]
      BY DEF Record
    <3> QED BY <1>6, <3>1
  <2> QED BY <2>1, <2>2, <2>3, <2>4, <2>5
<1>12. \A s \in Sides : \A x \in pend'[c][s] : x[1] = c
  BY <1>4, <1>5 DEF Shows, Fits
<1> QED BY <1>8, <1>11, <1>12 DEF Record

LEMMA CallTx ==
  ASSUME Typed, NEW c \in Conns, Tx(c), NEW kind \in Kinds, NEW w, NEW a, NEW side,
         CallSo(c, kind, w, a, side), Fits(c, w), Becomes(c, w, a), Answered(c, kind, side, a),
         mine' = [mine EXCEPT ![c] = IF a = "ok" /\ kind \in Writes THEN @ \cup {made[c] + 1} ELSE @],
         inTx' = inTx, Alive(c)' => Alive(c)
  PROVE  Tx(c)'
<1> SUFFICES ASSUME inTx[c], "switched" \notin spoiled'[c]
             PROVE  /\ ~ses'[c].auto
                    /\ mine'[c] = {} \/ InPrimary(c)' \/ InStandby(c)'
                    /\ ~ses'[c].closed => \A x \in Sides : last'[c] = <<"read", x>> => Has(c, x)'
  BY DEF Tx
<1>1. PICK b \in WorkType :
        /\ b = Work(c) /\ b.s = ses[c] /\ b.pend = pend[c] /\ b.done = done
        /\ b.shut = {} /\ b.cut = {} /\ b.notes = spoiled[c]
  BY WorkIs
<1>2. PICK K \in SUBSET (0 .. 2) : Effect(c, K, b, w)
  BY <1>1 DEF CallSo
<1>3. PICK v : v = After(w, a)
  OBVIOUS
<1>4. w \in WorkType
  BY DEF Fits
<1>5. /\ a = "comm" => v.s.primary = None /\ v.s.closed = ~conf.reconnects
      /\ a = "comm" /\ ~conf.reconnects => v.s.standby = w.s.standby /\ v.pend["standby"] = w.pend["standby"]
      /\ v.s.auto = w.s.auto /\ v.s.trx = w.s.trx /\ v.s.distribute = w.s.distribute
      /\ v.notes = w.notes
      /\ a # "comm" => v = w
  BY <1>3, <1>4, AfterHolds
<1>6. Shows(c, a, v)
  BY <1>3, BecomesShows
<1>7. ~(a = "comm" /\ conf.reconnects) /\ "switched" \notin spoiled[c]
  BY <1>1, <1>2, <1>5, <1>6 DEF Shows, Effect
<1>8. ~ses[c].auto /\ (mine[c] = {} \/ InPrimary(c) \/ InStandby(c))
  BY <1>7 DEF Tx
<1>9. w.s.auto = ses[c].auto /\ w.s.closed = ses[c].closed /\ pend[c]["primary"] \subseteq w.pend["primary"]
      /\ (w.s.standby # None => w.s.standby = ses[c].standby /\ pend[c]["standby"] \subseteq w.pend["standby"])
  BY <1>1, <1>2 DEF Effect
<1>10. ses'[c].auto = w.s.auto /\ ses'[c].trx = w.s.trx /\ ses'[c].distribute = w.s.distribute
  BY <1>5, <1>6 DEF Shows
<1>11. ~ses'[c].auto
  BY <1>8, <1>9, <1>10
<1>12. mine'[c] = IF a = "ok" /\ kind \in Writes THEN mine[c] \cup {made[c] + 1} ELSE mine[c]
  BY DEF Typed
<1>13. InPrimary(c) => w.s.trx["primary"] /\ w.s.distribute = "primary"
  <2>1. InPrimary(c) => w.s.trx["primary"]
    BY <1>1, <1>2, <1>8 DEF InPrimary, Effect
  <2>2. InPrimary(c) => w.s.distribute = "primary"
    BY <1>8 DEF InPrimary, CallSo
  <2> QED BY <2>1, <2>2
<1>14. a # "comm" =>
         /\ ses'[c] = w.s /\ pend'[c] = w.pend
         /\ \A x \in Sides : mine'[c] = mine[c] /\ (x = "standby" => w.s.standby # None) /\ Has(c, x) => Has(c, x)'
  BY <1>5, <1>6, <1>9 DEF Shows, Has, Sides
<1>15. a = "ok" => /\ Has(c, side) /\ (side = "primary" => mine[c] = {} \/ InPrimary(c))
                   /\ side = "standby" => mine[c] = {} \/ InStandby(c)
  BY <1>7, AnsweredWhere
<1>16. ASSUME a # "ok" \/ kind \notin Writes
       PROVE  mine'[c] = {} \/ InPrimary(c)' \/ InStandby(c)'
  <2>1. mine'[c] = mine[c]
    BY <1>12, <1>16
  <2>2. CASE a = "comm"
    <3>1. ses'[c].closed /\ (ses'[c].standby # None => pend'[c]["standby"] = w.pend["standby"] /\ w.s.standby # None)
      BY <1>5, <1>6, <1>7, <2>2 DEF Shows
    <3>2. InPrimary(c) => InPrimary(c)'
      BY <1>10, <1>13, <3>1 DEF InPrimary
    <3>3. InStandby(c) => InStandby(c)'
      BY <1>9, <2>1, <3>1 DEF InStandby, Has
    <3> QED BY <1>8, <2>1, <3>2, <3>3
  <2>3. CASE a # "comm"
    <3>1. ses'[c].closed = ses[c].closed
      BY <1>9, <1>14, <2>3
    <3>2. InPrimary(c) => InPrimary(c)'
      BY <1>9, <1>10, <1>13, <1>14, <2>1, <2>3, <3>1 DEF InPrimary, Has
    <3>3. InStandby(c) => InStandby(c)'
      BY <1>9, <1>14, <2>1, <2>3, <3>1 DEF InStandby, Has
    <3> QED BY <1>8, <2>1, <3>2, <3>3
  <2> QED BY <2>2, <2>3
<1>17. ASSUME a = "ok", kind \in Writes
       PROVE  mine'[c] = {} \/ InPrimary(c)' \/ InStandby(c)'
  <2>1. mine'[c] = mine[c] \cup {made[c] + 1} /\ ses'[c] = w.s /\ pend'[c] = w.pend
    BY <1>12, <1>14, <1>17
  <2>2. CASE side = "primary"
    <3>1. w.s.trx["primary"] /\ w.s.distribute = "primary" /\ \E k \in 0 .. 2 : The(c, k) \in w.pend["primary"]
      BY <1>8, <1>17, <2>2 DEF CallSo
    <3>2. Has(c, "primary")'
      BY <1>9, <1>15, <1>17, <2>1, <2>2, <3>1 DEF Has, The
    <3> QED BY <2>1, <3>1, <3>2 DEF InPrimary
  <2>3. CASE side = "standby"
    <3>1. ~Alive(c) /\ w.s.standby # None /\ \E k \in 0 .. 2 : The(c, k) \in w.pend["standby"]
      BY <1>8, <1>17, <2>3 DEF CallSo
    <3>2. Has(c, "standby")'
      BY <1>9, <1>15, <1>17, <2>1, <2>3, <3>1 DEF Has, The
    <3> QED BY <3>1, <3>2 DEF InStandby
  <2> QED BY <2>2, <2>3 DEF CallSo, Sides
<1>18. ASSUME NEW x \in Sides, last'[c] = <<"read", x>>
       PROVE  Has(c, x)'
  <2>1. a = "ok" /\ kind = "read" /\ x = side
    BY <1>18 DEF Answered, Typed
  <2>2. mine'[c] = mine[c]
    BY <1>12, <2>1 DEF Writes
  <2>3. side = "standby" => w.s.standby # None
    BY <2>1 DEF CallSo
  <2> QED BY <1>14, <1>15, <2>1, <2>2, <2>3
<1> QED BY <1>11, <1>16, <1>17, <1>18

LEMMA CallStep ==
  ASSUME Typed, Held, NEW c \in Conns, Part(c), NEW kind \in Kinds, Call(c, kind)
  PROVE  /\ Whole(c)
         /\ inTx[c] /\ "switched" \notin spoiled[c] =>
              \A x \in Sides : last'[c] = <<"read", x>> => Has(c, x)
<1>1. PICK plain \in BOOLEAN : \E r \in Executed(c, kind, plain) :
        /\ Becomes(c, r[1], r[2])
        /\ Answered(c, kind, r[3], r[2])
        /\ mine' = [mine EXCEPT ![c] = IF r[2] = "ok" /\ kind \in Writes THEN @ \cup {made[c] + 1} ELSE @]
  BY DEF Call
<1>2. PICK r \in Executed(c, kind, plain) :
        /\ Becomes(c, r[1], r[2])
        /\ Answered(c, kind, r[3], r[2])
        /\ mine' = [mine EXCEPT ![c] = IF r[2] = "ok" /\ kind \in Writes THEN @ \cup {made[c] + 1} ELSE @]
  BY <1>1
<1>3. at[c] = "idle" /\ made' = [made EXCEPT ![c] = @ + 1] /\ UNCHANGED <<inTx, opens>>
  BY DEF Call
<1>4. CallSo(c, kind, r[1], r[2], r[3])
  BY ExecutedIs DEF Part
<1>5. PICK w : w = r[1]
  OBVIOUS
<1>6. PICK a : a = r[2]
  OBVIOUS
<1>7. PICK side : side = r[3]
  OBVIOUS
<1>8. /\ CallSo(c, kind, w, a, side) /\ Becomes(c, w, a) /\ Answered(c, kind, side, a)
      /\ mine' = [mine EXCEPT ![c] = IF a = "ok" /\ kind \in Writes THEN @ \cup {made[c] + 1} ELSE @]
  BY <1>2, <1>4, <1>5, <1>6, <1>7
<1>9. Fits(c, w)
  <2>1. PICK K : Effect(c, K, Work(c), w)
    BY <1>8 DEF CallSo
  <2> QED BY <2>1, EffectFits DEF Part
<1>10. Tells(c) /\ made'[c] = made[c] + 1
  <2>1. side \in Sides
    BY <1>8 DEF CallSo
  <2>2. last' \in [Conns -> Seq(Words)] /\ \A d \in Conns \ {c} : last'[d] = last[d]
    <3>1. kind \in Words /\ side \in Words
      BY <2>1 DEF Words
    <3>2. (IF a = "ok" THEN <<kind, side>> ELSE <<>>) \in Seq(Words)
      BY <3>1
    <3> QED BY <1>8, <3>2 DEF Answered, Typed
  <2>3. mine' \in [Conns -> SUBSET Nat] /\ \A d \in Conns \ {c} : mine'[d] = mine[d]
    BY <1>8 DEF Typed
  <2>4. inTx' \in [Conns -> BOOLEAN] /\ opens' \in [Conns -> Nat] /\ inTx' = inTx
    BY <1>3 DEF Typed
  <2>5. made' \in [Conns -> Nat] /\ made'[c] = made[c] + 1 /\ \A d \in Conns \ {c} : made'[d] = made[d]
    BY <1>3 DEF Typed
  <2> QED BY <2>2, <2>3, <2>4, <2>5 DEF Tells
<1>11. /\ Typed' /\ Beside(c) /\ Moves(c) /\ Phase(c)' /\ Roles(c)' /\ Stands(c)' /\ Walks(c)'
       /\ Alive(c)' => Alive(c)
  BY <1>3, <1>8, <1>9, <1>10, BecomesIs
<1>12. Record(c)'
  BY <1>8, <1>9, <1>10, CallRecord DEF Part
<1>13. Tx(c)'
  BY <1>3, <1>8, <1>9, <1>11, CallTx DEF Part
<1>14. ASSUME inTx[c], "switched" \notin spoiled[c], NEW x \in Sides, last'[c] = <<"read", x>>
       PROVE  Has(c, x)
  <2>1. a = "ok" /\ x = side
    BY <1>8, <1>14 DEF Answered, Typed
  <2> QED BY <1>8, <1>9, <1>14, <2>1, AnsweredWhere DEF Part
<1> QED BY <1>11, <1>12, <1>13, <1>14 DEF Whole, Part

LEMMA NewSessionIs ==
  ASSUME Typed, NEW p \in SocketOrNone, NEW q \in SocketOrNone, NEW t \in Servers \cup {None}
  PROVE  /\ NewSession(p, q, t) \in Session
         /\ NewSession(p, q, t).primary = p /\ NewSession(p, q, t).standby = q
         /\ ~NewSession(p, q, t).closed
<1>1. conf.schema \in BOOLEAN
  BY ConfIs
<1>2. [primary |-> FALSE, standby |-> FALSE] \in [Sides -> BOOLEAN]
  <2>1. PICK b \in BOOLEAN : b = FALSE
    OBVIOUS
  <2>2. [primary |-> b, standby |-> b] \in [Sides -> BOOLEAN]
    BY DEF Sides
  <2> QED BY <2>1, <2>2
<1>3. "primary" \in Sides
  BY DEF Sides
<1> QED BY <1>1, <1>2, <1>3 DEF NewSession, Session

LEMMA CloseConnStep ==
  ASSUME Typed, Held, NEW c \in Conns, Part(c), CloseConn(c)
  PROVE  Whole(c)
<1>1. /\ at[c] = "idle" /\ ~inTx[c]
      /\ socket' = Without({ses[c].standby} \cup IF ses[c].closed THEN {} ELSE {ses[c].primary})
      /\ ses' = [ses EXCEPT ![c] = NewSession(None, None, None)]
      /\ pend' = [pend EXCEPT ![c] = NoWrites] /\ mine' = [mine EXCEPT ![c] = {}]
      /\ at' = [at EXCEPT ![c] = "out"]
      /\ UNCHANGED <<conf, mode, faults, inTx, opens, made, done, spoiled, last>>
      /\ UNCHANGED <<mu, host, list, startPos, said, order, pos, cycle, new, seen, steady, raced>>
  BY DEF CloseConn, groupVars
<1>2. PICK s \in Session :
        s = NewSession(None, None, None) /\ s.primary = None /\ s.standby = None /\ ~s.closed
  BY NewSessionIs DEF SocketOrNone
<1>3. NoWrites \in [Sides -> SUBSET Writing] /\ \A x \in Sides : NoWrites[x] = {}
  BY DEF NoWrites, Sides
<1>4. /\ ses'[c] = s /\ pend'[c] = NoWrites /\ mine'[c] = {} /\ at'[c] = "out" /\ new'[c] = None
      /\ \A d \in Conns \ {c} : ses'[d] = ses[d] /\ pend'[d] = pend[d] /\ mine'[d] = mine[d] /\ at'[d] = at[d]
  BY <1>1, <1>2 DEF Typed, Part, Phase, Looking
<1>5. Typed'
  <2>1. socket' \in [Sockets -> SocketType \cup {None}]
    BY <1>1 DEF Typed, Without
  <2>2. /\ ses' \in [Conns -> Session] /\ pend' \in [Conns -> [Sides -> SUBSET Writing]]
        /\ mine' \in [Conns -> SUBSET Nat] /\ at' \in [Conns -> Places]
    BY <1>1, <1>2, <1>3 DEF Typed, Places
  <2> QED BY <1>1, <2>1, <2>2 DEF Typed
<1>6. Beside(c)
  BY <1>1, <1>4 DEF Beside, Looking
<1>7. Refs(c)' = {}
  BY <1>2, <1>4 DEF Refs
<1>8. Moves(c)
  <2>1. Refs(c) \subseteq Sockets /\ new[c] = None
    <3>1. Refs(c) \subseteq Sockets
      BY DEF Typed, Refs, Session, SocketOrNone
    <3> QED BY <1>1, <3>1 DEF Part, Phase, Looking
  <2>9. None \notin Sockets
    BY GroupAssumption
  <2>2. ASSUME NEW k \in Sockets, socket'[k] # socket[k]
        PROVE  k \in Refs(c)
    BY <1>1, <2>1, <2>2, <2>9 DEF Without, Refs
  <2>3. ASSUME NEW k \in Refs(c), socket'[k] # None
        PROVE  "standby" \in spoiled'[c]
    <3>1. k \in {ses[c].primary, ses[c].standby} \ {None} /\ k \in Sockets
      BY <2>1, <2>3 DEF Refs
    <3>2. ses[c].closed /\ ses[c].primary # None
      BY <1>1, <2>3, <3>1 DEF Without
    <3> QED BY <1>1, <3>2 DEF Part, Phase
  <2> QED BY <1>1, <1>2, <1>4, <1>7, <2>2, <2>3 DEF Moves
<1>9. Phase(c)'
  BY <1>1, <1>2, <1>4 DEF Phase, Part, Looking
<1>10. Roles(c)'
  BY <1>2, <1>4 DEF Roles, Hears, Alive
<1>11. Record(c)'
  <2>1. \A n \in Nat, k \in 0 .. 2 : Wrote(c, n, k)' => Wrote(c, n, k)
    BY <1>1, <1>3, <1>4 DEF Wrote, Sides
  <2>2. made'[c] \in Nat /\ made[c] <= made'[c]
    BY <1>1 DEF Typed
  <2>3. \A x \in Sides : \A y \in pend'[c][x] : y[1] = c
    BY <1>3, <1>4
  <2> QED BY <1>1, <2>1, <2>2, <2>3, RecordKeeps DEF Part
<1>12. Tx(c)' /\ Stands(c)'
  BY <1>1, <1>4 DEF Tx, Stands, Looking
<1>13. Walks(c)'
  BY <1>1, <1>4 DEF Walks, Looking, Part, Preferred
<1> QED BY <1>5, <1>6, <1>8, <1>9, <1>10, <1>11, <1>12, <1>13 DEF Whole, Part

-----------------------------------------------------------------------------
(* The steps of a connection that looks for a server.                      *)

\* Nothing that calls have written changes, and there is no session.
LEMMA WithoutSession ==
  ASSUME Typed, NEW c \in Conns, Part(c), at[c] # "idle",
         ses'[c] = ses[c], pend'[c] = pend[c], done' = done, mine'[c] = mine[c], made'[c] = made[c],
         spoiled'[c] = spoiled[c], last'[c] = last[c], inTx'[c] = inTx[c]
  PROVE  Record(c)' /\ Tx(c)'
<1>1. Record(c)'
  <2>1. \A n \in Nat, k \in 0 .. 2 : Wrote(c, n, k)' => Wrote(c, n, k)
    BY DEF Wrote
  <2>2. made'[c] \in Nat /\ made[c] <= made'[c]
    BY DEF Typed
  <2>3. \A x \in Sides : \A y \in pend'[c][x] : y[1] = c
    BY DEF Part, Record
  <2> QED BY <2>1, <2>2, <2>3, RecordKeeps DEF Part
<1>2. Tx(c)'
  BY DEF Tx, Part, Phase
<1> QED BY <1>1, <1>2

\* A walk goes on, past an endpoint that is not one of the steady servers.
LEMMA WalksOn ==
  ASSUME Typed, NEW c \in Conns, Stands(c), Walks(c), at[c] \in {"dialing", "check"}, Advance(c),
         steady'[c] \subseteq steady[c], raced' = raced, mode' = mode, conf' = conf,
         ~raced[c] /\ steady'[c] # {} => Endpoint(c) \notin steady'[c]
  PROVE  Walks(c)'
<1>1. /\ at'[c] \in {"dial", "nobody"} /\ at[c] \in Looking
      /\ \A d \in Conns \ {c} : at'[d] = at[d]
  BY AdvanceIs DEF Looking
<1>2. Preferred' = Preferred
  BY DEF Preferred
<1>3. /\ steady'[c] \subseteq {s \in Servers : mode'[s] = Preferred'}
      /\ ~raced'[c] /\ at'[c] \in Looking => \A d \in Conns \ {c} : at'[d] \notin Looking
  BY <1>1, <1>2 DEF Walks
<1>4. ASSUME ~raced'[c], steady'[c] # {}
      PROVE  /\ at'[c] = "dial" /\ cycle'[c] = 0
             /\ \A s \in steady'[c] : \E i \in pos'[c] .. Len(Listed) : Dbs(c)'[i] = s
  <2>1. /\ cycle[c] = 0 /\ Endpoint(c) \notin steady'[c]
        /\ \A s \in steady[c] : \E i \in pos[c] .. Len(Listed) : Dbs(c)[i] = s
    BY <1>1, <1>4 DEF Walks
  <2>2. pos[c] \in 1 .. Len(Listed) /\ Len(Listed) \in Nat /\ Len(list) = Len(Listed)
    BY <1>1, Shapes DEF Stands, Typed
  <2>3. \A s \in steady'[c] : \E i \in pos[c] + 1 .. Len(Listed) : Dbs(c)[i] = s
    <3> SUFFICES ASSUME NEW s \in steady'[c]
                 PROVE  \E i \in pos[c] + 1 .. Len(Listed) : Dbs(c)[i] = s
      OBVIOUS
    <3>1. PICK i \in pos[c] .. Len(Listed) : Dbs(c)[i] = s
      BY <2>1
    <3>2. i # pos[c]
      BY <2>1, <3>1 DEF Endpoint
    <3>3. i \in pos[c] + 1 .. Len(Listed)
      BY <2>2, <3>2
    <3> QED BY <3>1, <3>3
  <2>4. pos[c] < Len(list)
    BY <1>4, <2>2, <2>3
  <2>5. pos' = [pos EXCEPT ![c] = @ + 1] /\ at' = [at EXCEPT ![c] = "dial"] /\ UNCHANGED <<cycle, order, list>>
    BY <2>2, <2>4 DEF Advance
  <2>6. at'[c] = "dial" /\ cycle'[c] = 0 /\ pos'[c] = pos[c] + 1 /\ Dbs(c)' = Dbs(c)
    BY <2>1, <2>5 DEF Typed, Dbs
  <2> QED BY <2>3, <2>6
<1> QED BY <1>3, <1>4 DEF Walks

\* What a walk leaves alone.
Looks(c) ==
  /\ conf' = conf /\ mode' = mode /\ mu' = mu
  /\ UNCHANGED <<ses, inTx, opens, made, pend, done, mine, spoiled, last>>

LEMMA SetHostStep ==
  ASSUME Typed, Held, NEW c \in Conns, Part(c), SetHost(c), UNCHANGED callVars
  PROVE  Whole(c)
<1>1. /\ at[c] = "dial" /\ at' = [at EXCEPT ![c] = "dialing"] /\ host' = Endpoint(c) /\ Looks(c)
      /\ UNCHANGED <<faults, socket, list, startPos, said, order, pos, cycle, new, seen, steady, raced>>
  BY DEF SetHost, worldVars, callVars, Looks
<1>2. at'[c] = "dialing" /\ \A d \in Conns \ {c} : at'[d] = at[d]
  BY <1>1 DEF Typed
<1>3. Endpoint(c) \in Servers
  <2>1. Dbs(c) \in Orders /\ pos[c] \in 1 .. Len(Listed)
    BY <1>1, DbsIs DEF Part, Stands, Looking
  <2> QED BY <2>1 DEF Endpoint, Orders
<1>4. Typed'
  BY <1>1 DEF Typed, Looks, Places, Looking
<1>5. Beside(c)
  BY <1>1, <1>2, <1>3 DEF Beside, Looks, Looking
<1>6. Moves(c)
  <2>1. Refs(c)' = Refs(c)
    BY <1>1 DEF Refs, Looks
  <2> QED BY <1>1, <2>1 DEF Moves, Looks, Held
<1>7. Phase(c)' /\ Roles(c)'
  BY <1>1, <1>2 DEF Phase, Roles, Part, Looks, Hears, Alive
<1>8. Record(c)' /\ Tx(c)'
  BY <1>1, WithoutSession DEF Looks
<1>9. Stands(c)'
  BY <1>1, <1>2, <1>3 DEF Stands, Part, Looks, Looking
<1>10. Walks(c)'
  <2>1. Dbs(c)' = Dbs(c) /\ Endpoint(c)' = Endpoint(c) /\ Preferred' = Preferred /\ at[c] \in Looking
    BY <1>1 DEF Dbs, Endpoint, Preferred, Looks, Looking
  <2> QED BY <1>1, <1>2, <2>1 DEF Walks, Part, Looks
<1> QED BY <1>4, <1>5, <1>6, <1>7, <1>8, <1>9, <1>10 DEF Whole, Part

\* A socket that is free, and what opening it for a server of a mode does.
LEMMA OpenedIs ==
  ASSUME Typed, NEW k \in Free, NEW s \in Servers
  PROVE  /\ Opened(k, s) \in [Sockets -> SocketType \cup {None}] /\ k \in Sockets /\ k # None
         /\ socket[k] = None /\ Opened(k, s)[k] # None /\ Opened(k, s)[k].srv = s
         /\ \A j \in Sockets \ {k} : Opened(k, s)[j] = socket[j]
<1>1. k \in Sockets /\ socket[k] = None /\ k # None
  BY GroupAssumption DEF Free
<1>2. PICK x \in SocketType : x = [srv |-> s, ok |-> TRUE]
  BY DEF SocketType
<1>3. x # None /\ x.srv = s
  BY <1>2, GroupAssumption DEF SocketType
<1>4. Opened(k, s) = [socket EXCEPT ![k] = x]
  BY <1>2 DEF Opened
<1> QED BY <1>1, <1>3, <1>4 DEF Typed

LEMMA LoginStep ==
  ASSUME Typed, Held, NEW c \in Conns, Part(c), Login(c), UNCHANGED callVars
  PROVE  Whole(c)
<1>1. PICK k : k = CHOOSE j \in Free : TRUE
  OBVIOUS
<1>2. PICK s : s = host
  OBVIOUS
<1>3. /\ at[c] = "dialing" /\ mode[host] # "down" /\ Free # {}
      /\ socket' = Opened(k, s) /\ new' = [new EXCEPT ![c] = k]
      /\ seen' = [seen EXCEPT ![c] = mode[host]] /\ at' = [at EXCEPT ![c] = "check"] /\ Looks(c)
      /\ UNCHANGED <<faults, host, list, startPos, order, pos, cycle, steady, raced>>
  BY <1>1, <1>2 DEF Login, callVars, Looks
<1>4. s \in Servers /\ k \in Free
  <2>1. s \in Servers
    BY <1>2, <1>3 DEF Part, Stands
  <2> QED BY <1>1, <1>3, <2>1
<1>5. /\ socket' \in [Sockets -> SocketType \cup {None}] /\ k \in Sockets /\ k # None
      /\ socket[k] = None /\ socket'[k] # None /\ socket'[k].srv = s
      /\ \A j \in Sockets \ {k} : socket'[j] = socket[j]
  BY <1>3, <1>4, OpenedIs
<1>6. /\ new'[c] = k /\ seen'[c] = mode[host] /\ at'[c] = "check"
      /\ \A d \in Conns \ {c} : new'[d] = new[d] /\ seen'[d] = seen[d] /\ at'[d] = at[d]
  BY <1>3 DEF Typed
<1>7. Typed'
  <2>1. new' \in [Conns -> SocketOrNone] /\ seen' \in [Conns -> Moods] /\ at' \in [Conns -> Places]
    BY <1>2, <1>3, <1>4, <1>5 DEF Typed, SocketOrNone, Places, Looking
  <2> QED BY <1>3, <1>5, <2>1 DEF Typed, Looks
<1>8. Beside(c)
  BY <1>3, <1>6 DEF Beside, Looks, Looking
<1>9. ses[c].primary = None /\ ses[c].standby = None /\ new[c] = None /\ ses' = ses
  BY <1>3 DEF Part, Phase, Looks
<1>10. Refs(c) = {} /\ Refs(c)' = {k}
  BY <1>5, <1>6, <1>9 DEF Refs
<1>11. Moves(c)
  BY <1>3, <1>5, <1>9, <1>10 DEF Moves, Looks
<1>12. Phase(c)'
  BY <1>3, <1>6 DEF Phase, Part, Looks
<1>13. Roles(c)'
  <2>1. conf.separate /\ seen'[c] = "primary" => Hears(new[c], "primary")'
    <3>1. mode'[socket'[k].srv] = seen'[c]
      BY <1>2, <1>3, <1>5, <1>6 DEF Looks
    <3> QED BY <1>6, <3>1 DEF Hears
  <2>2. Hears(ses[c].primary, "primary")' /\ ~Alive(c)'
    BY <1>9 DEF Hears, Alive
  <2> QED BY <1>3, <1>6, <2>1, <2>2 DEF Roles, Looks
<1>14. Record(c)' /\ Tx(c)'
  BY <1>3, WithoutSession DEF Looks
<1>15. Stands(c)'
  BY <1>3, <1>6 DEF Stands, Part, Looks, Looking
<1>16. Walks(c)'
  <2>1. Dbs(c)' = Dbs(c) /\ Endpoint(c)' = Endpoint(c) /\ Preferred' = Preferred /\ at[c] \in Looking
    BY <1>3 DEF Dbs, Endpoint, Preferred, Looks, Looking
  <2>2. Walks(c)
    BY DEF Part
  <2>3. ~raced[c] /\ steady[c] # {} => seen'[c] = Preferred \/ Endpoint(c) \notin steady[c]
    <3> SUFFICES ASSUME ~raced[c], steady[c] # {}, Endpoint(c) \in steady[c]
                 PROVE  seen'[c] = Preferred
      OBVIOUS
    <3>1. host = Endpoint(c)
      BY <1>3, <2>2 DEF Walks
    <3> QED BY <1>6, <2>2, <3>1 DEF Walks
  <2> QED BY <1>3, <1>6, <2>1, <2>2, <2>3 DEF Walks, Looks
<1> QED BY <1>7, <1>8, <1>11, <1>12, <1>13, <1>14, <1>15, <1>16 DEF Whole, Part

LEMMA LoginFailsStep ==
  ASSUME Typed, Held, NEW c \in Conns, Part(c), LoginFails(c), UNCHANGED callVars
  PROVE  Whole(c)
<1>1. /\ at[c] = "dialing" /\ Advance(c) /\ Looks(c)
      /\ UNCHANGED <<socket, host, startPos, new, seen, raced>>
      /\ \/ mode[host] = "down" /\ UNCHANGED <<faults, steady>>
         \/ faults' = faults + 1 /\ steady' = [steady EXCEPT ![c] = @ \ {host}]
  BY DEF LoginFails, callVars, Looks
<1>2. /\ pos' \in [Conns -> Nat] /\ cycle' \in [Conns -> Nat] /\ list' \in Orders
      /\ order' \in [Conns -> Orders \cup {<<>>}] /\ at' \in [Conns -> Places]
      /\ at'[c] \in {"dial", "nobody"}
      /\ at'[c] = "dial" => pos'[c] \in 1 .. Len(Listed) /\ (~conf.headFirst => order'[c] \in Orders)
      /\ \A d \in Conns \ {c} :
           order'[d] = order[d] /\ pos'[d] = pos[d] /\ cycle'[d] = cycle[d] /\ at'[d] = at[d]
  BY <1>1, AdvanceIs DEF Part
<1>3. steady' \in [Conns -> SUBSET Servers] /\ steady'[c] \subseteq steady[c] /\ faults' \in Nat
      /\ \A d \in Conns \ {c} : steady'[d] = steady[d]
  <2>1. CASE UNCHANGED <<faults, steady>>
    BY <2>1 DEF Typed
  <2>2. CASE faults' = faults + 1 /\ steady' = [steady EXCEPT ![c] = @ \ {host}]
    <3>1. faults' \in Nat /\ steady[c] \ {host} \in SUBSET Servers
      BY <2>2 DEF Typed
    <3> QED BY <2>2, <3>1 DEF Typed
  <2> QED BY <1>1, <2>1, <2>2
<1>4. Typed'
  BY <1>1, <1>2, <1>3 DEF Typed, Looks
<1>5. Beside(c)
  BY <1>1, <1>2, <1>3 DEF Beside, Looks, Looking
<1>6. Moves(c)
  <2>1. Refs(c)' = Refs(c)
    BY <1>1 DEF Refs, Looks
  <2> QED BY <1>1, <2>1 DEF Moves, Looks, Held
<1>7. Phase(c)' /\ Roles(c)'
  BY <1>1, <1>2 DEF Phase, Roles, Part, Looks, Hears, Alive
<1>8. Record(c)' /\ Tx(c)'
  BY <1>1, WithoutSession DEF Looks
<1>9. Stands(c)'
  BY <1>1, <1>2 DEF Stands, Looks, Looking
<1>10. Walks(c)'
  <2>1. Walks(c) /\ Stands(c) /\ at[c] \in Looking
    BY <1>1 DEF Part, Looking
  <2>2. ASSUME ~raced[c], steady'[c] # {}
        PROVE  Endpoint(c) \notin steady'[c]
    <3>1. host = Endpoint(c)
      BY <1>1, <1>3, <2>1, <2>2 DEF Walks
    <3>2. mode[host] = "down" => host \notin steady[c]
      BY <2>1 DEF Walks, Preferred
    <3>3. host \notin steady'[c]
      BY <1>1, <3>2 DEF Typed
    <3> QED BY <3>1, <3>3
  <2> QED BY <1>1, <1>3, <2>1, <2>2, WalksOn DEF Looks
<1> QED BY <1>4, <1>5, <1>6, <1>7, <1>8, <1>9, <1>10 DEF Whole, Part

LEMMA ChosenStep ==
  ASSUME Typed, Held, NEW c \in Conns, Part(c), Chosen(c), UNCHANGED callVars
  PROVE  Whole(c)
<1>1. /\ at[c] = "check" /\ Acceptable(c) /\ at' = [at EXCEPT ![c] = "chosen"] /\ Looks(c)
      /\ UNCHANGED <<faults, socket, host, list, startPos, said, order, pos, cycle, new, seen, steady, raced>>
  BY DEF Chosen, worldVars, groupVars, callVars, Looks
<1>2. at'[c] = "chosen" /\ \A d \in Conns \ {c} : at'[d] = at[d]
  BY <1>1 DEF Typed
<1>3. Typed'
  BY <1>1 DEF Typed, Looks, Places
<1>4. Beside(c)
  BY <1>1, <1>2 DEF Beside, Looks, Looking
<1>5. Moves(c)
  <2>1. Refs(c)' = Refs(c)
    BY <1>1 DEF Refs, Looks
  <2> QED BY <1>1, <2>1 DEF Moves, Looks, Held
<1>6. Phase(c)'
  BY <1>1, <1>2 DEF Phase, Part, Looks
<1>7. Roles(c)'
  <2>1. conf.separate => seen[c] = "primary"
    <3>1. conf.separate => conf.loginMode = "primaryOnly"
      BY ConfIs
    <3> QED BY <1>1, <3>1 DEF Acceptable, Preferred
  <2> QED BY <1>1, <1>2, <2>1 DEF Roles, Part, Looks, Hears, Alive
<1>8. Record(c)' /\ Tx(c)'
  BY <1>1, WithoutSession DEF Looks
<1>9. Stands(c)'
  BY <1>2 DEF Stands, Looking
<1>10. Walks(c)'
  <2>1. Preferred' = Preferred /\ at[c] \in Looking /\ Walks(c)
    BY <1>1 DEF Preferred, Looks, Looking, Part
  <2>2. ASSUME ~raced[c], steady[c] # {}
        PROVE  seen[c] = Preferred
    <3>1. /\ cycle[c] = 0 /\ (seen[c] = Preferred \/ Endpoint(c) \notin steady[c])
          /\ \A s \in steady[c] : \E i \in pos[c] .. Len(Listed) : Dbs(c)[i] = s
      BY <1>1, <2>1, <2>2 DEF Walks
    <3> SUFFICES ASSUME LastWalk(c), Endpoint(c) \notin steady[c]
                 PROVE  FALSE
      BY <1>1, <3>1 DEF Acceptable
    <3>2. Len(list) = 1
      BY <3>1, GroupAssumption DEF LastWalk, Cycles
    <3>3. pos[c] = 1 /\ Len(Listed) = 1
      <4>1. Len(Listed) = 1
        BY <3>2, Shapes DEF Typed
      <4>2. pos[c] \in 1 .. Len(Listed)
        BY <2>1 DEF Stands, Part
      <4> QED BY <4>1, <4>2
    <3>4. PICK s \in steady[c] : TRUE
      BY <2>2
    <3>5. Dbs(c)[1] = s
      BY <3>1, <3>3
    <3> QED BY <3>3, <3>5 DEF Endpoint
  <2> QED BY <1>1, <1>2, <2>1, <2>2 DEF Walks, Looks, Looking
<1> QED BY <1>3, <1>4, <1>5, <1>6, <1>7, <1>8, <1>9, <1>10 DEF Whole, Part

LEMMA RefusedStep ==
  ASSUME Typed, Held, NEW c \in Conns, Part(c), Refused(c), UNCHANGED callVars
  PROVE  Whole(c)
<1>1. /\ at[c] = "check" /\ ~Acceptable(c) /\ Advance(c) /\ Looks(c)
      /\ socket' = Without({new[c]}) /\ new' = [new EXCEPT ![c] = None]
      /\ UNCHANGED <<faults, host, startPos, said, seen, steady, raced>>
  BY DEF Refused, callVars, Looks
<1>2. /\ pos' \in [Conns -> Nat] /\ cycle' \in [Conns -> Nat] /\ list' \in Orders
      /\ order' \in [Conns -> Orders \cup {<<>>}] /\ at' \in [Conns -> Places]
      /\ at'[c] \in {"dial", "nobody"}
      /\ at'[c] = "dial" => pos'[c] \in 1 .. Len(Listed) /\ (~conf.headFirst => order'[c] \in Orders)
      /\ \A d \in Conns \ {c} :
           order'[d] = order[d] /\ pos'[d] = pos[d] /\ cycle'[d] = cycle[d] /\ at'[d] = at[d]
  BY <1>1, AdvanceIs DEF Part
<1>3. new'[c] = None /\ \A d \in Conns \ {c} : new'[d] = new[d]
  BY <1>1 DEF Typed
<1>4. Typed'
  <2>1. socket' \in [Sockets -> SocketType \cup {None}] /\ new' \in [Conns -> SocketOrNone]
    BY <1>1 DEF Typed, Without, SocketOrNone
  <2> QED BY <1>1, <1>2, <2>1 DEF Typed, Looks
<1>5. Beside(c)
  BY <1>1, <1>2, <1>3 DEF Beside, Looks, Looking
<1>6. ses[c].primary = None /\ ses[c].standby = None /\ ses' = ses
  BY <1>1 DEF Part, Phase, Looks
<1>7. Refs(c) = {new[c]} \ {None} /\ Refs(c)' = {}
  BY <1>3, <1>6 DEF Refs
<1>8. Moves(c)
  <2>1. None \notin Sockets
    BY GroupAssumption
  <2>2. \A k \in Sockets : socket'[k] # socket[k] => k \in Refs(c)
    BY <1>1, <1>7, <2>1 DEF Without
  <2>3. \A k \in Refs(c) : socket'[k] = None
    <3>1. Refs(c) \subseteq Sockets
      BY <1>7 DEF Typed, SocketOrNone
    <3> QED BY <1>1, <1>7, <3>1 DEF Without
  <2> QED BY <1>1, <1>6, <1>7, <2>2, <2>3 DEF Moves, Looks
<1>9. Phase(c)'
  BY <1>1, <1>2, <1>3 DEF Phase, Part, Looks
<1>10. Roles(c)'
  BY <1>2, <1>6 DEF Roles, Hears, Alive
<1>11. Record(c)' /\ Tx(c)'
  BY <1>1, WithoutSession DEF Looks
<1>12. Stands(c)'
  BY <1>1, <1>2 DEF Stands, Looks, Looking
<1>13. Walks(c)'
  <2>1. Walks(c) /\ Stands(c) /\ at[c] \in Looking
    BY <1>1 DEF Part, Looking
  <2>2. ~raced[c] /\ steady'[c] # {} => Endpoint(c) \notin steady'[c]
    BY <1>1, <2>1 DEF Walks, Acceptable
  <2> QED BY <1>1, <2>1, <2>2, WalksOn DEF Looks
<1> QED BY <1>4, <1>5, <1>8, <1>9, <1>10, <1>11, <1>12, <1>13 DEF Whole, Part

-----------------------------------------------------------------------------
(* The steps that begin and end an attempt.                                *)

LEMMA StartConnectStep ==
  ASSUME Typed, Held, NEW c \in Conns, Part(c), StartConnect(c)
  PROVE  Whole(c)
<1>1. /\ at[c] = "out" /\ mu = None /\ mu' = c /\ opens' = [opens EXCEPT ![c] = @ + 1]
      /\ at' = [at EXCEPT ![c] = "dial"] /\ Starts(c)
      /\ UNCHANGED <<conf, mode, faults, socket>>
      /\ UNCHANGED <<ses, inTx, made, pend, done, mine, spoiled, last>>
  BY BeginIs DEF StartConnect, worldVars
<1>2. at'[c] = "dial" /\ \A d \in Conns \ {c} : at'[d] = at[d]
  BY <1>1 DEF Typed
<1>3. /\ startPos' \in Nat /\ order' \in [Conns -> Orders \cup {<<>>}] /\ pos' \in [Conns -> Nat]
      /\ cycle' \in [Conns -> Nat] /\ steady' \in [Conns -> SUBSET Servers] /\ raced' \in [Conns -> BOOLEAN]
      /\ UNCHANGED <<host, list, said, new, seen>>
  BY <1>1 DEF Starts, Typed
<1>4. Typed'
  <2>1. at' \in [Conns -> Places] /\ opens' \in [Conns -> Nat]
    BY <1>1 DEF Typed, Places, Looking
  <2> QED BY <1>1, <1>3, <2>1 DEF Typed
<1>5. Beside(c)
  <2>1. \A d \in Conns \ {c} :
          /\ order'[d] = order[d] /\ pos'[d] = pos[d] /\ cycle'[d] = cycle[d] /\ steady'[d] = steady[d]
          /\ raced'[d] = (raced[d] \/ at[d] \in Looking)
    BY <1>1 DEF Starts, Typed
  <2> QED BY <1>1, <1>2, <1>3, <2>1 DEF Beside
<1>6. Moves(c)
  <2>1. Refs(c)' = Refs(c)
    BY <1>1, <1>3 DEF Refs
  <2> QED BY <1>1, <2>1 DEF Moves, Held
<1>7. Phase(c)' /\ Roles(c)'
  BY <1>1, <1>2, <1>3 DEF Phase, Roles, Part, Hears, Alive
<1>8. Record(c)' /\ Tx(c)'
  BY <1>1, WithoutSession
<1>9. Stands(c)' /\ Walks(c)'
  BY <1>1, BeginWalks
<1> QED BY <1>4, <1>5, <1>6, <1>7, <1>8, <1>9 DEF Whole, Part

LEMMA NobodyFoundStep ==
  ASSUME Typed, Held, NEW c \in Conns, Part(c), NobodyFound(c)
  PROVE  Whole(c)
<1>1. /\ at[c] = "nobody" /\ Rests(c)
      /\ UNCHANGED <<conf, mode, faults, socket, host, list, startPos, said, new>>
      /\ UNCHANGED <<inTx, opens, made, pend, done, mine, spoiled, last>>
      /\ IF mu = c THEN mu' = None /\ at' = [at EXCEPT ![c] = "out"] /\ UNCHANGED ses
         ELSE UNCHANGED mu /\ at' = [at EXCEPT ![c] = "idle"] /\ ses' = [ses EXCEPT ![c].closed = TRUE]
  BY DEF NobodyFound, worldVars
<1>2. ses[c].primary = None /\ ses[c].standby = None /\ new[c] = None /\ (mu = c => ~inTx[c])
      /\ (inTx[c] => "switched" \in spoiled[c])
  BY <1>1 DEF Part, Phase, Looking
<1>3. /\ ses' \in [Conns -> Session] /\ ses'[c].primary = None /\ ses'[c].standby = None
      /\ \A d \in Conns \ {c} : ses'[d] = ses[d]
  <2>1. CASE ses' = ses
    BY <1>2, <2>1 DEF Typed
  <2>2. CASE ses' = [ses EXCEPT ![c].closed = TRUE]
    <3>1. PICK b \in BOOLEAN : b = TRUE
      OBVIOUS
    <3>2. ses' = [ses EXCEPT ![c] = [ses[c] EXCEPT !.closed = b]]
      BY <2>2, <3>1
    <3>3. PICK s : s = [ses[c] EXCEPT !.closed = b]
      OBVIOUS
    <3>4. s \in Session /\ s.primary = None /\ s.standby = None
      <4>1. ses[c] \in Session
        BY DEF Typed
      <4> QED BY <1>2, <3>3, <4>1 DEF Session
    <3> QED BY <3>2, <3>3, <3>4 DEF Typed
  <2> QED BY <1>1, <2>1, <2>2
<1>4. /\ at' \in [Conns -> Places] /\ at'[c] \in {"out", "idle"} /\ (at'[c] = "out" => mu = c) /\ mu' # c
      /\ \A d \in Conns \ {c} : at'[d] = at[d] /\ (mu' = d => mu = d)
  <2>1. None \notin Conns
    BY GroupAssumption
  <2> QED BY ZenonT(60), <1>1, <2>1 DEF Typed, Places
<1>5. /\ order' \in [Conns -> Orders \cup {<<>>}] /\ pos' \in [Conns -> Nat] /\ cycle' \in [Conns -> Nat]
      /\ seen' \in [Conns -> Moods] /\ steady' \in [Conns -> SUBSET Servers]
      /\ raced' \in [Conns -> BOOLEAN] /\ steady'[c] = {} /\ raced'[c] = FALSE
      /\ \A d \in Conns \ {c} :
           /\ order'[d] = order[d] /\ pos'[d] = pos[d] /\ cycle'[d] = cycle[d]
           /\ seen'[d] = seen[d] /\ steady'[d] = steady[d] /\ raced'[d] = raced[d]
  BY <1>1, RestsIs
<1>6. Typed'
  BY <1>1, <1>3, <1>4, <1>5 DEF Typed
<1>7. Beside(c)
  BY <1>1, <1>3, <1>4, <1>5 DEF Beside, Looking
<1>8. Moves(c)
  <2>1. Refs(c)' = {} /\ Refs(c) = {}
    BY <1>1, <1>2, <1>3 DEF Refs
  <2> QED BY <1>1, <1>3, <2>1 DEF Moves
<1>9. Phase(c)' /\ Roles(c)'
  BY <1>1, <1>2, <1>3, <1>4 DEF Phase, Roles, Hears, Alive
<1>10. Record(c)'
  <2>1. \A n \in Nat, k \in 0 .. 2 : Wrote(c, n, k)' => Wrote(c, n, k)
    BY <1>1 DEF Wrote
  <2>2. made'[c] \in Nat /\ made[c] <= made'[c]
    BY <1>1 DEF Typed
  <2>3. \A x \in Sides : \A y \in pend'[c][x] : y[1] = c
    BY <1>1 DEF Part, Record
  <2> QED BY <1>1, <2>1, <2>2, <2>3, RecordKeeps DEF Part
<1>11. Tx(c)'
  BY <1>1, <1>2 DEF Tx
<1>12. Stands(c)' /\ Walks(c)'
  BY <1>4, <1>5 DEF Stands, Walks, Looking
<1> QED BY <1>6, <1>7, <1>8, <1>9, <1>10, <1>11, <1>12 DEF Whole, Part

\* A session that begins, with a standby's or without.
LEMMA SettlesIs ==
  ASSUME Typed, Held, NEW c \in Conns, Part(c), at[c] = "chosen",
         NEW t \in StandbyTold(c), NEW r \in IF conf.separate THEN ConnectsStandby(t) ELSE {"none"},
         r = "session" => Free # {}, NEW b \in BOOLEAN, Settles(c, t, r, b),
         conf' = conf, mode' = mode, done' = done, made' = made, spoiled[c] \subseteq spoiled'[c],
         b => "standby" \in spoiled'[c]
  PROVE  /\ ses' \in [Conns -> Session] /\ socket' \in [Sockets -> SocketType \cup {None}]
         /\ new' \in [Conns -> SocketOrNone] /\ at' \in [Conns -> Places]
         /\ pend' \in [Conns -> [Sides -> SUBSET Writing]]
         /\ \A d \in Conns \ {c} : ses'[d] = ses[d] /\ new'[d] = new[d] /\ at'[d] = at[d] /\ pend'[d] = pend[d]
         /\ at'[c] = "idle" /\ new'[c] = None
         /\ Moves(c) /\ Roles(c)' /\ Record(c)'
         /\ ~conf.separate => ses'[c].standby = None
         /\ ses'[c].closed => "standby" \in spoiled'[c]
<1>1. t \in Servers \cup {None} /\ (r = "session" => t \in Servers /\ mode[t] = "standby" /\ conf.separate)
  <2>1. t \in Servers \cup {None}
    BY DEF StandbyTold
  <2>2. r = "session" => conf.separate /\ r \in ConnectsStandby(t)
    BY ConfIs
  <2>3. r = "session" => t # None /\ mode[t] = "standby"
    BY <2>2 DEF ConnectsStandby
  <2> QED BY <2>1, <2>2, <2>3
<1>2. PICK k : k = CHOOSE j \in Free : TRUE
  OBVIOUS
<1>3. PICK q : q = IF r = "session" THEN k ELSE None
  OBVIOUS
<1>4. r = "session" => k \in Free
  BY <1>2
<1>5. new[c] \in SocketOrNone /\ q \in SocketOrNone
  BY <1>3, <1>4 DEF Typed, SocketOrNone, Free
<1>6. PICK u : u = NewSession(new[c], None, t)
  OBVIOUS
<1>7. u \in Session /\ u.primary = new[c]
  <2>1. PICK n \in SocketOrNone : n = None
    BY DEF SocketOrNone
  <2> QED BY <1>1, <1>5, <1>6, <2>1, NewSessionIs
<1>8. PICK s : s = [u EXCEPT !.standby = q, !.closed = b]
  OBVIOUS
<1>9. s \in Session /\ s.primary = new[c] /\ s.standby = q /\ s.closed = b
  BY <1>5, <1>7, <1>8 DEF Session
<1>10. ses' = [ses EXCEPT ![c] = s]
  <2>1. ses' = [ses EXCEPT ![c] = [u EXCEPT !.standby = IF r = "session" THEN k ELSE None, !.closed = b]]
    BY <1>2, <1>6 DEF Settles
  <2> QED BY <1>3, <1>8, <2>1
<1>11. /\ socket' = (IF r = "session" THEN Opened(k, t) ELSE socket)
       /\ new' = [new EXCEPT ![c] = None] /\ at' = [at EXCEPT ![c] = "idle"]
       /\ pend' = [pend EXCEPT ![c] = NoWrites]
  BY <1>2 DEF Settles
<1>12. NoWrites \in [Sides -> SUBSET Writing] /\ \A x \in Sides : NoWrites[x] = {}
  BY DEF NoWrites, Sides
<1>13. /\ ses' \in [Conns -> Session] /\ new' \in [Conns -> SocketOrNone] /\ at' \in [Conns -> Places]
       /\ pend' \in [Conns -> [Sides -> SUBSET Writing]]
  BY <1>9, <1>10, <1>11, <1>12 DEF Typed, SocketOrNone, Places
<1>14. /\ ses'[c] = s /\ at'[c] = "idle" /\ new'[c] = None /\ pend'[c] = NoWrites
       /\ \A d \in Conns \ {c} : ses'[d] = ses[d] /\ new'[d] = new[d] /\ at'[d] = at[d] /\ pend'[d] = pend[d]
  BY <1>10, <1>11 DEF Typed
<1>15. /\ socket' \in [Sockets -> SocketType \cup {None}]
       /\ r = "session" => /\ k \in Sockets /\ k # None /\ socket[k] = None /\ socket'[k] # None
                           /\ socket'[k].srv = t /\ \A j \in Sockets \ {k} : socket'[j] = socket[j]
       /\ r # "session" => socket' = socket
  <2>1. CASE r = "session"
    BY <1>1, <1>4, <1>11, <2>1, OpenedIs
  <2>2. CASE r # "session"
    BY <1>11, <2>2 DEF Typed
  <2> QED BY <2>1, <2>2
<1>16. ses[c].primary = None /\ ses[c].standby = None
  BY DEF Part, Phase
<1>17. Refs(c) = {new[c]} \ {None} /\ Refs(c)' = {new[c], q} \ {None}
  BY <1>9, <1>14, <1>16 DEF Refs
<1>18. new[c] # None => new[c] \in Sockets /\ socket[new[c]] # None /\ socket'[new[c]] = socket[new[c]]
                        /\ new[c] # q
  <2> SUFFICES ASSUME new[c] # None
               PROVE  new[c] \in Sockets /\ socket[new[c]] # None /\ socket'[new[c]] = socket[new[c]] /\ new[c] # q
    OBVIOUS
  <2>1. new[c] \in Sockets /\ new[c] \in Refs(c)
    BY <1>5, <1>17 DEF SocketOrNone
  <2>2. socket[new[c]] # None
    BY <2>1 DEF Held
  <2>3. r = "session" => new[c] # k
    BY <1>15, <2>2
  <2> QED BY <1>3, <1>15, <2>1, <2>2, <2>3
<1>19. Moves(c)
  <2>1. \A j \in Sockets : socket'[j] # socket[j] => j \in Refs(c)'
    BY <1>3, <1>15, <1>17
  <2>2. \A j \in Refs(c)' : socket'[j] # None /\ (j \in Refs(c) \/ socket[j] = None)
    BY <1>3, <1>15, <1>17, <1>18
  <2>3. \A j \in Refs(c) : j \in Refs(c)'
    BY <1>17
  <2> QED BY <1>9, <1>14, <1>18, <2>1, <2>2, <2>3 DEF Moves
<1>20. Roles(c)'
  <2> SUFFICES ASSUME conf.separate
               PROVE  Hears(ses[c].primary, "primary")' /\ Hears(ses[c].standby, "standby")'
    BY <1>14 DEF Roles
  <2>1. Hears(new[c], "primary")
    BY DEF Part, Roles
  <2>2. new[c] # None /\ socket'[new[c]].ok => mode'[socket'[new[c]].srv] = "primary"
    BY <1>18, <2>1 DEF Hears
  <2>3. q # None /\ socket'[q].ok => mode'[socket'[q].srv] = "standby"
    BY <1>1, <1>3, <1>15
  <2> QED BY <1>9, <1>14, <2>2, <2>3 DEF Hears
<1>21. Record(c)'
  <2>1. \A n \in Nat, j \in 0 .. 2 : Wrote(c, n, j)' => Wrote(c, n, j)
    BY <1>12, <1>14 DEF Wrote, Sides
  <2>2. made'[c] \in Nat /\ made[c] <= made'[c]
    BY DEF Typed
  <2>3. \A x \in Sides : \A y \in pend'[c][x] : y[1] = c
    BY <1>12, <1>14
  <2> QED BY <2>1, <2>2, <2>3, RecordKeeps DEF Part
<1>22. ~conf.separate => q = None
  BY <1>1, <1>3
<1> QED BY <1>9, <1>13, <1>14, <1>15, <1>19, <1>20, <1>21, <1>22

LEMMA ConnectedStep ==
  ASSUME Typed, Held, NEW c \in Conns, Part(c), Connected(c)
  PROVE  Whole(c)
<1>1. /\ at[c] = "chosen" /\ mu = c /\ mu' = None /\ Rests(c)
      /\ UNCHANGED <<conf, mode, faults, host, list, startPos, said, inTx, opens, made, done, mine, last>>
  BY DEF Connected
<1>2. PICK t \in StandbyTold(c) : \E r \in IF conf.separate THEN ConnectsStandby(t) ELSE {"none"} :
       \/ /\ r # "error" /\ (r = "session" => Free # {})
          /\ Settles(c, t, r, FALSE) /\ UNCHANGED spoiled
       \/ /\ r = "error"
          /\ at' = [at EXCEPT ![c] = "out"] /\ new' = [new EXCEPT ![c] = None]
          /\ spoiled' = [spoiled EXCEPT ![c] = @ \cup {"standby"}]
          /\ UNCHANGED <<socket, ses, pend>>
  BY DEF Connected
<1>3. PICK r \in IF conf.separate THEN ConnectsStandby(t) ELSE {"none"} :
       \/ /\ r # "error" /\ (r = "session" => Free # {})
          /\ Settles(c, t, r, FALSE) /\ UNCHANGED spoiled
       \/ /\ r = "error"
          /\ at' = [at EXCEPT ![c] = "out"] /\ new' = [new EXCEPT ![c] = None]
          /\ spoiled' = [spoiled EXCEPT ![c] = @ \cup {"standby"}]
          /\ UNCHANGED <<socket, ses, pend>>
  BY <1>2
<1>4. /\ order' \in [Conns -> Orders \cup {<<>>}] /\ pos' \in [Conns -> Nat] /\ cycle' \in [Conns -> Nat]
      /\ seen' \in [Conns -> Moods] /\ steady' \in [Conns -> SUBSET Servers]
      /\ raced' \in [Conns -> BOOLEAN] /\ steady'[c] = {} /\ raced'[c] = FALSE
      /\ \A d \in Conns \ {c} :
           /\ order'[d] = order[d] /\ pos'[d] = pos[d] /\ cycle'[d] = cycle[d]
           /\ seen'[d] = seen[d] /\ steady'[d] = steady[d] /\ raced'[d] = raced[d]
  BY <1>1, RestsIs
<1>5. ~inTx[c] /\ ses[c].primary = None /\ ses[c].standby = None /\ mu' \notin Conns
  BY <1>1, GroupAssumption DEF Part, Phase
<1>6. /\ ses' \in [Conns -> Session] /\ socket' \in [Sockets -> SocketType \cup {None}]
      /\ new' \in [Conns -> SocketOrNone] /\ at' \in [Conns -> Places]
      /\ pend' \in [Conns -> [Sides -> SUBSET Writing]] /\ spoiled' \in [Conns -> SUBSET Notes]
      /\ \A d \in Conns \ {c} : /\ ses'[d] = ses[d] /\ new'[d] = new[d] /\ at'[d] = at[d]
                                /\ pend'[d] = pend[d] /\ spoiled'[d] = spoiled[d]
      /\ at'[c] \in {"idle", "out"} /\ new'[c] = None
      /\ Moves(c) /\ Roles(c)' /\ Record(c)'
      /\ ~conf.separate => ses'[c].standby = None
      /\ ses'[c].closed /\ ses'[c].primary # None => "standby" \in spoiled'[c]
      /\ at'[c] # "idle" => ses'[c].primary = None /\ ses'[c].standby = None
  <2>1. CASE r # "error" /\ (r = "session" => Free # {}) /\ Settles(c, t, r, FALSE) /\ UNCHANGED spoiled
    <3>1. PICK b \in BOOLEAN : b = FALSE
      OBVIOUS
    <3>2. Settles(c, t, r, b) /\ spoiled[c] \subseteq spoiled'[c] /\ ~b /\ (r = "session" => Free # {})
      BY <2>1, <3>1
    <3>3. /\ ses' \in [Conns -> Session] /\ socket' \in [Sockets -> SocketType \cup {None}]
          /\ new' \in [Conns -> SocketOrNone] /\ at' \in [Conns -> Places]
          /\ pend' \in [Conns -> [Sides -> SUBSET Writing]]
          /\ \A d \in Conns \ {c} : ses'[d] = ses[d] /\ new'[d] = new[d] /\ at'[d] = at[d] /\ pend'[d] = pend[d]
          /\ at'[c] = "idle" /\ new'[c] = None
          /\ Moves(c) /\ Roles(c)' /\ Record(c)'
          /\ ~conf.separate => ses'[c].standby = None
          /\ ses'[c].closed => "standby" \in spoiled'[c]
      BY <1>1, <3>2, SettlesIs
    <3> QED BY <2>1, <3>3 DEF Typed
  <2>2. CASE /\ at' = [at EXCEPT ![c] = "out"] /\ new' = [new EXCEPT ![c] = None]
             /\ spoiled' = [spoiled EXCEPT ![c] = @ \cup {"standby"}]
             /\ UNCHANGED <<socket, ses, pend>>
    <3>1. spoiled[c] \cup {"standby"} \in SUBSET Notes
      BY DEF Typed, Notes
    <3>2. /\ new' \in [Conns -> SocketOrNone] /\ at' \in [Conns -> Places] /\ spoiled' \in [Conns -> SUBSET Notes]
          /\ at'[c] = "out" /\ new'[c] = None /\ spoiled'[c] = spoiled[c] \cup {"standby"}
          /\ \A d \in Conns \ {c} : new'[d] = new[d] /\ at'[d] = at[d] /\ spoiled'[d] = spoiled[d]
      BY <2>2, <3>1 DEF Typed, SocketOrNone, Places
    <3>3. Refs(c)' = {}
      BY <1>5, <2>2, <3>2 DEF Refs
    <3>4. Moves(c)
      BY <1>5, <2>2, <3>2, <3>3 DEF Moves
    <3>5. Roles(c)'
      BY <1>5, <2>2, <3>2 DEF Roles, Hears, Alive
    <3>6. Record(c)'
      <4>1. \A n \in Nat, k \in 0 .. 2 : Wrote(c, n, k)' => Wrote(c, n, k)
        BY <1>1, <2>2 DEF Wrote
      <4>2. made'[c] \in Nat /\ made[c] <= made'[c]
        BY <1>1 DEF Typed
      <4>3. \A x \in Sides : \A y \in pend'[c][x] : y[1] = c
        BY <2>2 DEF Part, Record
      <4> QED BY <3>2, <4>1, <4>2, <4>3, RecordKeeps DEF Part
    <3> QED BY <1>5, <2>2, <3>2, <3>4, <3>5, <3>6 DEF Typed
  <2> QED BY <1>3, <2>1, <2>2
<1>7. Typed'
  BY <1>1, <1>4, <1>6 DEF Typed
<1>8. Beside(c)
  BY <1>1, <1>4, <1>5, <1>6 DEF Beside, Looking
<1>9. Phase(c)'
  BY <1>1, <1>5, <1>6 DEF Phase
<1>10. Tx(c)'
  BY <1>1, <1>5 DEF Tx
<1>11. Stands(c)' /\ Walks(c)'
  BY <1>4, <1>6 DEF Stands, Walks, Looking
<1> QED BY <1>6, <1>7, <1>8, <1>9, <1>10, <1>11 DEF Whole, Part

LEMMA ReconnectedStep ==
  ASSUME Typed, Held, NEW c \in Conns, Part(c), Reconnected(c)
  PROVE  Whole(c)
<1>1. /\ at[c] = "chosen" /\ mu # c /\ Rests(c)
      /\ UNCHANGED <<conf, mode, faults, mu, host, list, startPos, said, inTx, opens, made, done, mine, last>>
  BY DEF Reconnected
<1>2. PICK t \in StandbyTold(c) : \E r \in IF conf.separate THEN ConnectsStandby(t) ELSE {"none"} :
       /\ r = "session" => Free # {}
       /\ Settles(c, t, r, r = "error")
       /\ spoiled' = [spoiled EXCEPT ![c] = @ \cup IF r = "error" THEN {"standby"} ELSE {}]
  BY DEF Reconnected
<1>3. PICK r \in IF conf.separate THEN ConnectsStandby(t) ELSE {"none"} :
       /\ r = "session" => Free # {}
       /\ Settles(c, t, r, r = "error")
       /\ spoiled' = [spoiled EXCEPT ![c] = @ \cup IF r = "error" THEN {"standby"} ELSE {}]
  BY <1>2
<1>4. /\ order' \in [Conns -> Orders \cup {<<>>}] /\ pos' \in [Conns -> Nat] /\ cycle' \in [Conns -> Nat]
      /\ seen' \in [Conns -> Moods] /\ steady' \in [Conns -> SUBSET Servers]
      /\ raced' \in [Conns -> BOOLEAN] /\ steady'[c] = {} /\ raced'[c] = FALSE
      /\ \A d \in Conns \ {c} :
           /\ order'[d] = order[d] /\ pos'[d] = pos[d] /\ cycle'[d] = cycle[d]
           /\ seen'[d] = seen[d] /\ steady'[d] = steady[d] /\ raced'[d] = raced[d]
  BY <1>1, RestsIs
<1>5. PICK b \in BOOLEAN : b = (r = "error")
  OBVIOUS
<1>6. /\ spoiled' \in [Conns -> SUBSET Notes] /\ spoiled[c] \subseteq spoiled'[c] /\ (b => "standby" \in spoiled'[c])
      /\ \A d \in Conns \ {c} : spoiled'[d] = spoiled[d]
  <2>1. spoiled[c] \cup (IF r = "error" THEN {"standby"} ELSE {}) \in SUBSET Notes
    BY DEF Typed, Notes
  <2> QED BY <1>3, <1>5, <2>1 DEF Typed
<1>7. /\ ses' \in [Conns -> Session] /\ socket' \in [Sockets -> SocketType \cup {None}]
      /\ new' \in [Conns -> SocketOrNone] /\ at' \in [Conns -> Places]
      /\ pend' \in [Conns -> [Sides -> SUBSET Writing]]
      /\ \A d \in Conns \ {c} : ses'[d] = ses[d] /\ new'[d] = new[d] /\ at'[d] = at[d] /\ pend'[d] = pend[d]
      /\ at'[c] = "idle" /\ new'[c] = None
      /\ Moves(c) /\ Roles(c)' /\ Record(c)'
      /\ ~conf.separate => ses'[c].standby = None
      /\ ses'[c].closed => "standby" \in spoiled'[c]
  <2>1. Settles(c, t, r, b) /\ (r = "session" => Free # {})
    BY <1>3, <1>5
  <2> QED BY <1>1, <1>6, <2>1, SettlesIs
<1>8. Typed'
  BY <1>1, <1>4, <1>6, <1>7 DEF Typed
<1>9. Beside(c)
  BY <1>1, <1>4, <1>6, <1>7 DEF Beside, Looking
<1>10. Phase(c)'
  BY <1>1, <1>7 DEF Phase
<1>11. Tx(c)'
  <2>1. inTx[c] => "switched" \in spoiled[c]
    BY <1>1 DEF Part, Phase
  <2> QED BY <1>1, <1>6, <2>1 DEF Tx
<1>12. Stands(c)' /\ Walks(c)'
  BY <1>4, <1>7 DEF Stands, Walks, Looking
<1> QED BY <1>7, <1>8, <1>9, <1>10, <1>11, <1>12 DEF Whole, Part

-----------------------------------------------------------------------------
(* Every step.                                                             *)

LEMMA LookWhole ==
  ASSUME Typed, Held, NEW c \in Conns, Part(c), Look(c), UNCHANGED callVars
  PROVE  Whole(c)
<1>1. CASE SetHost(c)
  BY <1>1, SetHostStep
<1>2. CASE Login(c)
  BY <1>2, LoginStep
<1>3. CASE LoginFails(c)
  BY <1>3, LoginFailsStep
<1>4. CASE Chosen(c)
  BY <1>4, ChosenStep
<1>5. CASE Refused(c)
  BY <1>5, RefusedStep
<1> QED BY <1>1, <1>2, <1>3, <1>4, <1>5 DEF Look

LEMMA StepWhole ==
  ASSUME Typed, Held, NEW c \in Conns, Part(c), Step(c)
  PROVE  Whole(c)
<1>1. CASE Look(c) /\ UNCHANGED callVars
  BY <1>1, LookWhole
<1>2. CASE StartConnect(c)
  BY <1>2, StartConnectStep
<1>3. CASE Connected(c)
  BY <1>3, ConnectedStep
<1>4. CASE Reconnected(c)
  BY <1>4, ReconnectedStep
<1>5. CASE NobodyFound(c)
  BY <1>5, NobodyFoundStep
<1>6. ASSUME NEW kind \in Kinds, Call(c, kind)
      PROVE  Whole(c)
  BY <1>6, CallStep
<1>7. CASE StandbyNotRecovered(c)
  BY <1>7, StandbyNotRecoveredStep
<1>8. CASE BeginTx(c)
  BY <1>8, BeginTxStep
<1>9. ASSUME NEW commits \in BOOLEAN, EndTx(c, commits)
      PROVE  Whole(c)
  BY <1>9, EndTxStep
<1>10. CASE CloseConn(c)
  BY <1>10, CloseConnStep
<1> QED BY <1>1, <1>2, <1>3, <1>4, <1>5, <1>6, <1>7, <1>8, <1>9, <1>10 DEF Step

LEMMA StepKeeps ==
  ASSUME RInv, NEW c \in Conns, Step(c)
  PROVE  RInv'
<1>1. Typed /\ Held /\ SocketsHeld /\ \A d \in Conns : Part(d)
  BY DEF RInv, Part
<1>2. Typed' /\ Beside(c) /\ Moves(c) /\ Part(c)'
  BY <1>1, StepWhole DEF Whole
<1>3. Held' /\ SocketsHeld'
  BY <1>1, <1>2, SocketsMoved
<1>4. ASSUME NEW d \in Conns
      PROVE  Part(d)'
  <2>1. CASE d = c
    BY <1>2, <2>1
  <2>2. CASE d \in Conns \ {c}
    BY <1>1, <1>2, <2>2, OthersKeep
  <2> QED BY <2>1, <2>2
<1> QED BY <1>2, <1>3, <1>4 DEF RInv, Part

\* The servers: a socket stays what it is but may stop answering.
LEMMA ModeIs ==
  ASSUME Typed, NEW s \in Servers, NEW m \in Moods, ModeOf(s, m), UNCHANGED callVars,
         faults' \in Nat, socket' \in [Sockets -> SocketType \cup {None}]
  PROVE  Typed'
<1>1. mode' \in [Servers -> Moods]
  BY DEF ModeOf, Typed
<1>2. steady' \in [Conns -> SUBSET Servers]
  BY DEF ModeOf, Typed
<1> QED BY <1>1, <1>2 DEF ModeOf, callVars, Typed

\* What the servers do to the connections: a socket of the server that went down no
\* longer answers, the others are as they were.
LEMMA WorldSockets ==
  ASSUME Typed, NEW s \in Servers, UNCHANGED callVars,
         GoesDown(s) \/ ComesBack(s) \/ TakesOver(s)
  PROVE  /\ Typed' /\ \A t \in Servers \ {s} : mode'[t] = mode[t]
         /\ \A d \in Conns : steady'[d] = steady[d] \ {s}
         /\ \A k \in Sockets : (socket'[k] = None) <=> (socket[k] = None)
         /\ \A k \in Sockets : socket[k] # None =>
              /\ socket'[k].srv = socket[k].srv /\ (socket'[k].ok => socket[k].ok)
              /\ mode'[s] = "down" /\ socket[k].srv = s => ~socket'[k].ok
         /\ UNCHANGED <<conf, mu, host, list, startPos, said, at, order, pos, cycle, new, seen, raced>>
<1>1. CASE GoesDown(s)
  <2>1. /\ ModeOf(s, "down") /\ faults' = faults + 1
        /\ socket' = [k \in Sockets |-> IF socket[k] # None /\ socket[k].srv = s
                                        THEN [socket[k] EXCEPT !.ok = FALSE] ELSE socket[k]]
    BY <1>1 DEF GoesDown
  <2>2. /\ mode' = [mode EXCEPT ![s] = "down"] /\ steady' = [c \in Conns |-> steady[c] \ {s}]
        /\ UNCHANGED <<conf, mu, host, list, startPos, said, at, order, pos, cycle, new, seen, raced>>
    BY <2>1 DEF ModeOf
  <2>3. ASSUME NEW k \in Sockets, socket[k] # None
        PROVE  /\ socket[k] \in SocketType /\ socket'[k] \in SocketType
               /\ socket'[k].srv = socket[k].srv /\ (socket'[k].ok => socket[k].ok)
               /\ socket[k].srv = s => ~socket'[k].ok
    <3>1. socket[k] \in SocketType
      BY <2>3 DEF Typed
    <3>2. CASE socket[k].srv = s
      <4>1. socket'[k] = [socket[k] EXCEPT !.ok = FALSE]
        BY <2>1, <2>3, <3>2
      <4> QED BY <3>1, <4>1 DEF SocketType
    <3>3. CASE socket[k].srv # s
      <4>1. socket'[k] = socket[k]
        BY <2>1, <3>3
      <4> QED BY <3>1, <3>3, <4>1
    <3> QED BY <3>1, <3>2, <3>3
  <2>4. \A k \in Sockets : socket[k] = None => socket'[k] = None
    BY <2>1
  <2>5. None \notin SocketType
    BY GroupAssumption DEF SocketType
  <2>6. socket' \in [Sockets -> SocketType \cup {None}]
    <3>1. \A k \in Sockets : socket'[k] \in SocketType \cup {None}
      BY <2>3, <2>4
    <3> QED BY <2>1, <3>1
  <2>7. "down" \in Moods /\ faults' \in Nat
    BY <2>1 DEF Moods, Typed
  <2>8. Typed'
    BY <2>1, <2>6, <2>7, ModeIs
  <2> QED BY <2>2, <2>3, <2>4, <2>5, <2>8 DEF Typed
<1>2. ASSUME NEW m \in {"standby", "primary"}, ModeOf(s, m), socket' = socket, faults' = faults
      PROVE  /\ Typed' /\ \A t \in Servers \ {s} : mode'[t] = mode[t]
             /\ \A d \in Conns : steady'[d] = steady[d] \ {s}
             /\ mode'[s] # "down"
             /\ UNCHANGED <<conf, mu, host, list, startPos, said, at, order, pos, cycle, new, seen, raced>>
  <2>1. m \in Moods /\ faults' \in Nat /\ socket' \in [Sockets -> SocketType \cup {None}]
    BY <1>2 DEF Moods, Typed
  <2>2. Typed'
    BY <1>2, <2>1, ModeIs
  <2>3. /\ mode' = [mode EXCEPT ![s] = m] /\ steady' = [c \in Conns |-> steady[c] \ {s}]
        /\ UNCHANGED <<conf, mu, host, list, startPos, said, at, order, pos, cycle, new, seen, raced>>
    BY <1>2 DEF ModeOf
  <2> QED BY <2>2, <2>3 DEF Typed
<1>3. CASE ComesBack(s)
  <2>1. ModeOf(s, "standby") /\ socket' = socket /\ faults' = faults
    BY <1>3 DEF ComesBack
  <2> QED BY <1>2, <2>1
<1>4. CASE TakesOver(s)
  <2>1. ModeOf(s, "primary") /\ socket' = socket /\ faults' = faults
    BY <1>4 DEF TakesOver
  <2> QED BY <1>2, <2>1
<1> QED BY <1>1, <1>3, <1>4

\* What a socket that still answers heard is so still, but for a standby that took over.
LEMMA HearsOn ==
  ASSUME Typed, NEW s \in Servers, UNCHANGED callVars,
         GoesDown(s) \/ ComesBack(s) \/ TakesOver(s),
         NEW k \in SocketOrNone, k # None => socket[k] # None,
         NEW m \in {"primary", "standby"}, Hears(k, m), TakesOver(s) => m = "primary"
  PROVE  Hears(k, m)'
<1>1. SUFFICES ASSUME k # None, socket'[k].ok
               PROVE  mode'[socket'[k].srv] = m
  BY DEF Hears
<1>2. k \in Sockets /\ socket[k] # None
  BY <1>1 DEF SocketOrNone
<1>3. /\ socket'[k].srv = socket[k].srv /\ socket[k].ok /\ socket[k] \in SocketType
      /\ \A t \in Servers \ {s} : mode'[t] = mode[t]
      /\ mode'[s] = "down" /\ socket[k].srv = s => ~socket'[k].ok
  BY <1>1, <1>2, WorldSockets DEF Typed
<1>4. socket[k].srv \in Servers /\ mode[socket[k].srv] = m
  BY <1>1, <1>3 DEF Hears, SocketType
<1>5. socket[k].srv # s
  <2>1. CASE GoesDown(s)
    <3>1. mode'[s] = "down"
      BY <2>1 DEF GoesDown, ModeOf, Typed
    <3> QED BY <1>1, <1>3, <3>1
  <2>2. CASE ComesBack(s)
    BY <1>4, <2>2 DEF ComesBack
  <2>3. CASE TakesOver(s)
    BY <1>4, <2>3 DEF TakesOver
  <2> QED BY <2>1, <2>2, <2>3
<1> QED BY <1>3, <1>4, <1>5

LEMMA AliveOn ==
  ASSUME Typed, NEW s \in Servers, UNCHANGED callVars,
         GoesDown(s) \/ ComesBack(s) \/ TakesOver(s), NEW c \in Conns, Held
  PROVE  Alive(c)' => Alive(c)
<1>1. SUFFICES ASSUME ses'[c].primary # None, socket'[ses'[c].primary].ok
               PROVE  ses[c].primary # None /\ socket[ses[c].primary].ok
  BY DEF Alive
<1>2. PICK k : k = ses[c].primary
  OBVIOUS
<1>3. k = ses'[c].primary
  BY <1>2 DEF callVars
<1>4. k \in Refs(c) /\ k \in Sockets /\ socket[k] # None
  <2>1. ses[c] \in Session
    BY DEF Typed
  <2> QED BY <1>1, <1>2, <1>3, <2>1 DEF Refs, Held, Session, SocketOrNone
<1>5. socket'[k].ok => socket[k].ok
  BY <1>4, WorldSockets
<1> QED BY <1>1, <1>2, <1>3, <1>5

LEMMA WorldRoles ==
  ASSUME Typed, Held, NEW s \in Servers, UNCHANGED callVars,
         GoesDown(s) \/ ComesBack(s) \/ TakesOver(s), NEW c \in Conns, Roles(c)
  PROVE  Roles(c)'
<1>1. SUFFICES ASSUME conf.separate
               PROVE  /\ at'[c] = "chosen" \/ (at'[c] = "check" /\ seen'[c] = "primary") => Hears(new[c], "primary")'
                      /\ Hears(ses[c].primary, "primary")'
                      /\ Alive(c)' => Hears(ses[c].standby, "standby")'
  <2>1. conf' = conf
    BY WorldSockets
  <2> QED BY <1>1, <2>1 DEF Roles
<1>2. UNCHANGED <<at, seen, new, ses>>
  BY WorldSockets DEF callVars
<1>3. ses[c] \in Session /\ new[c] \in SocketOrNone
  BY DEF Typed
<1>4. \A k \in {ses[c].primary, ses[c].standby, new[c]} : k \in SocketOrNone /\ (k # None => socket[k] # None)
  BY <1>3 DEF Session, Held, Refs
<1>5. at'[c] = "chosen" \/ (at'[c] = "check" /\ seen'[c] = "primary") => Hears(new[c], "primary")'
  <2>1. SUFFICES ASSUME at[c] = "chosen" \/ (at[c] = "check" /\ seen[c] = "primary")
                 PROVE  Hears(new[c], "primary")'
    BY <1>2
  <2>2. PICK k : k = new[c]
    OBVIOUS
  <2>3. Hears(k, "primary")
    BY <1>1, <2>1, <2>2 DEF Roles
  <2>4. Hears(k, "primary")'
    BY <1>4, <2>2, <2>3, HearsOn
  <2> QED BY <1>2, <2>2, <2>4 DEF Hears
<1>6. Hears(ses[c].primary, "primary")'
  <2>1. PICK k : k = ses[c].primary
    OBVIOUS
  <2>2. Hears(k, "primary")
    BY <1>1, <2>1 DEF Roles
  <2>3. Hears(k, "primary")'
    BY <1>4, <2>1, <2>2, HearsOn
  <2> QED BY <1>2, <2>1, <2>3 DEF Hears
<1>7. ASSUME Alive(c)'
      PROVE  Hears(ses[c].standby, "standby")'
  <2>1. Alive(c)
    BY <1>7, AliveOn
  <2>2. ~TakesOver(s)
    <3>1. ses[c].primary \in Sockets /\ socket[ses[c].primary] # None
      BY <1>4, <2>1 DEF Alive, SocketOrNone
    <3>2. socket[ses[c].primary].srv \in Servers
      BY <3>1 DEF Typed, SocketType
    <3>3. mode[socket[ses[c].primary].srv] = "primary"
      BY <1>1, <2>1 DEF Roles, Hears, Alive
    <3> QED BY <3>2, <3>3 DEF TakesOver
  <2>3. PICK k : k = ses[c].standby
    OBVIOUS
  <2>4. Hears(k, "standby")
    BY <1>1, <2>1, <2>3 DEF Roles
  <2>5. Hears(k, "standby")'
    BY <1>4, <2>2, <2>3, <2>4, HearsOn
  <2> QED BY <1>2, <2>3, <2>5 DEF Hears
<1> QED BY <1>5, <1>6, <1>7

LEMMA WorldKeeps ==
  ASSUME RInv, World, UNCHANGED callVars
  PROVE  RInv'
<1>1. PICK s \in Servers : GoesDown(s) \/ ComesBack(s) \/ TakesOver(s)
  BY DEF World
<1>2. Typed /\ Held /\ SocketsHeld /\ \A c \in Conns : Part(c)
  BY DEF RInv, Part
<1>3. /\ Typed' /\ \A t \in Servers \ {s} : mode'[t] = mode[t]
      /\ \A d \in Conns : steady'[d] = steady[d] \ {s}
      /\ \A k \in Sockets : (socket'[k] = None) <=> (socket[k] = None)
      /\ UNCHANGED <<conf, mu, host, list, startPos, said, at, order, pos, cycle, new, seen, raced>>
  BY <1>1, <1>2, WorldSockets
<1>4. UNCHANGED <<ses, inTx, opens, made, pend, done, mine, spoiled, last>>
  BY DEF callVars
<1>5. Held'
  <2>1. \A c \in Conns : Refs(c)' = Refs(c)
    BY <1>3, <1>4 DEF Refs
  <2>2. \A c \in Conns : Refs(c) \subseteq Sockets
    <3>1. ASSUME NEW c \in Conns
          PROVE  Refs(c) \subseteq Sockets
      <4>1. ses[c] \in Session /\ new[c] \in SocketOrNone
        BY <1>2 DEF Typed
      <4> QED BY <4>1 DEF Refs, Session, SocketOrNone
    <3> QED BY <3>1
  <2> QED BY <1>2, <1>3, <1>4, <2>1, <2>2 DEF Held
<1>6. SocketsHeld'
  BY <1>2, <1>3, <1>4 DEF SocketsHeld
<1>7. ASSUME NEW c \in Conns
      PROVE  Part(c)'
  <2>1. Phase(c) /\ Roles(c) /\ Record(c) /\ Tx(c) /\ Stands(c) /\ Walks(c)
    BY <1>2 DEF Part
  <2>2. Phase(c)'
    BY <1>3, <1>4, <2>1 DEF Phase
  <2>3. Roles(c)'
    BY <1>1, <1>2, <2>1, WorldRoles
  <2>4. Record(c)'
    BY <1>4, <2>1 DEF Record, Wrote
  <2>5. Tx(c)'
    <3>1. Alive(c)' => Alive(c)
      BY <1>1, <1>2, AliveOn
    <3>2. \A side \in Sides : Has(c, side)' <=> Has(c, side)
      BY <1>4 DEF Has
    <3>3. InPrimary(c) => InPrimary(c)'
      BY <1>4, <3>1, <3>2 DEF InPrimary, Sides
    <3>4. InStandby(c) => InStandby(c)'
      BY <1>4, <3>1, <3>2 DEF InStandby, Sides
    <3> QED BY <1>4, <2>1, <3>2, <3>3, <3>4 DEF Tx
  <2>6. Stands(c)'
    BY <1>3, <2>1 DEF Stands
  <2>7. Walks(c)'
    <3>1. Preferred' = Preferred
      BY <1>3 DEF Preferred
    <3>2. Dbs(c)' = Dbs(c) /\ Endpoint(c)' = Endpoint(c)
      BY <1>3 DEF Dbs, Endpoint
    <3>3. steady'[c] \subseteq steady[c]
      BY <1>3
    <3>4. steady'[c] \subseteq {t \in Servers : mode'[t] = Preferred'}
      BY <1>3, <2>1, <3>1 DEF Walks
    <3>5. ~raced'[c] /\ at'[c] \in Looking => \A d \in Conns \ {c} : at'[d] \notin Looking
      BY <1>3, <2>1 DEF Walks
    <3>6. ASSUME ~raced'[c], steady'[c] # {}
          PROVE  /\ at'[c] # "nobody"
                 /\ at'[c] = "chosen" => seen'[c] = Preferred'
                 /\ at'[c] \in Looking => cycle'[c] = 0
                 /\ at'[c] \in Looking => \A t \in steady'[c] : \E i \in pos'[c] .. Len(Listed) : Dbs(c)'[i] = t
                 /\ at'[c] = "dialing" => host' = Endpoint(c)'
                 /\ at'[c] = "check" => seen'[c] = Preferred' \/ Endpoint(c)' \notin steady'[c]
      <4>1. /\ at[c] # "nobody"
            /\ at[c] = "chosen" => seen[c] = Preferred
            /\ at[c] \in Looking => cycle[c] = 0
            /\ at[c] \in Looking => \A t \in steady[c] : \E i \in pos[c] .. Len(Listed) : Dbs(c)[i] = t
            /\ at[c] = "dialing" => host = Endpoint(c)
            /\ at[c] = "check" => seen[c] = Preferred \/ Endpoint(c) \notin steady[c]
        <5>1. ~raced[c] /\ steady[c] # {}
          BY <1>3, <3>3, <3>6
        <5> QED BY <2>1, <5>1 DEF Walks
      <4>2. at'[c] = at[c] /\ seen'[c] = seen[c] /\ cycle'[c] = cycle[c] /\ pos'[c] = pos[c] /\ host' = host
        BY <1>3
      <4> QED BY <3>1, <3>2, <3>3, <4>1, <4>2
    <3> QED BY <3>4, <3>5, <3>6 DEF Walks
  <2> QED BY <2>2, <2>3, <2>4, <2>5, <2>6, <2>7 DEF Part
<1> QED BY <1>3, <1>5, <1>6, <1>7 DEF RInv, Part

LEMMA StutterKeeps ==
  ASSUME RInv, UNCHANGED vars
  PROVE  RInv'
<1>1. UNCHANGED <<conf, mode, faults, socket, mu, host, list, startPos, said, order, pos, cycle, new, seen,
                 steady, raced, at, ses, inTx, opens, made, pend, done, mine, spoiled, last>>
  BY DEF vars, worldVars, groupVars
<1>2. Typed'
  BY <1>1 DEF RInv, Typed
<1>3. Held' /\ SocketsHeld'
  BY <1>1 DEF RInv, Held, Refs, SocketsHeld
<1>4. ASSUME NEW c \in Conns
      PROVE  Phase(c)' /\ Roles(c)' /\ Record(c)' /\ Tx(c)' /\ Stands(c)' /\ Walks(c)'
  <2>1. Phase(c) /\ Roles(c) /\ Record(c) /\ Tx(c) /\ Stands(c) /\ Walks(c)
    BY DEF RInv
  <2>2. Phase(c)' /\ Roles(c)' /\ Record(c)'
    BY <1>1, <2>1 DEF Phase, Roles, Hears, Alive, Record, Wrote
  <2>3. Tx(c)'
    BY <1>1, <2>1 DEF Tx, Has, InPrimary, InStandby, Alive
  <2>4. Stands(c)'
    BY <1>1, <2>1 DEF Stands
  <2>5. Walks(c)'
    BY <1>1, <2>1 DEF Walks, Preferred, Dbs, Endpoint
  <2> QED BY <2>2, <2>3, <2>4, <2>5
<1> QED BY <1>2, <1>3, <1>4 DEF RInv

LEMMA NextKeeps ==
  ASSUME RInv, [Next]_vars
  PROVE  RInv'
<1>1. CASE World /\ UNCHANGED callVars
  BY <1>1, WorldKeeps
<1>2. ASSUME NEW c \in Conns, Step(c)
      PROVE  RInv'
  BY <1>2, StepKeeps
<1>3. CASE UNCHANGED vars
  BY <1>3, StutterKeeps
<1> QED BY <1>1, <1>2, <1>3 DEF Next

LEMMA InitTyped ==
  ASSUME Init
  PROVE  Typed
<1>1. /\ conf \in Confs /\ mode \in Modes /\ faults = 0 /\ socket = [k \in Sockets |-> None]
      /\ mu = None /\ host = None /\ list = Listed
      /\ startPos \in (IF conf.headFirst THEN {0} ELSE 0 .. Len(Listed) - 1)
      /\ at = [c \in Conns |-> "out"] /\ order = [c \in Conns |-> <<>>]
      /\ pos = [c \in Conns |-> 1] /\ cycle = [c \in Conns |-> 0]
      /\ new = [c \in Conns |-> None] /\ seen = [c \in Conns |-> "down"]
      /\ steady = [c \in Conns |-> {}] /\ raced = [c \in Conns |-> FALSE]
  BY DEF Init, GroupInit
<1>2. /\ ses = [c \in Conns |-> NewSession(None, None, None)]
      /\ inTx = [c \in Conns |-> FALSE] /\ opens = [c \in Conns |-> 0] /\ made = [c \in Conns |-> 0]
      /\ pend = [c \in Conns |-> NoWrites] /\ done = {}
      /\ mine = [c \in Conns |-> {}] /\ spoiled = [c \in Conns |-> {}]
      /\ last = [c \in Conns |-> <<>>]
  BY DEF Init
<1>3. mode \in [Servers -> Moods]
  BY <1>1, GroupAssumption DEF Moods
<1>4. list \in Orders /\ startPos \in Nat
  <2>1. Len(Listed) \in Nat \ {0}
    BY Shapes
  <2>2. startPos \in Nat
    BY <1>1, <2>1
  <2> QED BY <1>1, <2>2, Shapes
<1>5. NewSession(None, None, None) \in Session
  <2>1. conf.schema \in BOOLEAN
    BY <1>1, GroupAssumption
  <2>2. [primary |-> FALSE, standby |-> FALSE] \in [Sides -> BOOLEAN]
    <3>1. PICK t : t = [primary |-> FALSE, standby |-> FALSE]
      OBVIOUS
    <3>2. DOMAIN t = Sides /\ \A x \in Sides : t[x] \in BOOLEAN
      BY <3>1 DEF Sides
    <3>3. t = [x \in Sides |-> t[x]]
      BY <3>1 DEF Sides
    <3> QED BY <3>1, <3>2, <3>3
  <2> QED BY <2>1, <2>2 DEF NewSession, Session, SocketOrNone, Sides
<1>6. ses \in [Conns -> Session]
  BY <1>2, <1>5
<1>7. pend \in [Conns -> [Sides -> SUBSET Writing]]
  <2>1. NoWrites \in [Sides -> SUBSET Writing]
    BY DEF NoWrites, Sides
  <2> QED BY <1>2, <2>1
<1>8. last \in [Conns -> Seq(Words)]
  BY <1>2
<1>9. at \in [Conns -> Places] /\ new \in [Conns -> SocketOrNone] /\ seen \in [Conns -> Moods]
  BY <1>1 DEF Places, SocketOrNone, Moods
<1>10. socket \in [Sockets -> SocketType \cup {None}] /\ faults \in Nat
  BY <1>1
<1> QED BY <1>1, <1>2, <1>3, <1>4, <1>6, <1>7, <1>8, <1>9, <1>10 DEF Typed

LEMMA InitHolds ==
  ASSUME Init
  PROVE  RInv
<1>1. Typed
  BY InitTyped
<1>2. \A c \in Conns : /\ at[c] = "out" /\ new[c] = None /\ steady[c] = {} /\ inTx[c] = FALSE /\ raced[c] = FALSE
                       /\ ses[c] = NewSession(None, None, None) /\ pend[c] = NoWrites
  BY DEF Init, GroupInit
<1>3. mu = None /\ done = {} /\ \A k \in Sockets : socket[k] = None
  BY DEF Init, GroupInit
<1>4. \A c \in Conns : ses[c].primary = None /\ ses[c].standby = None /\ Refs(c) = {}
  BY <1>2 DEF NewSession, Refs
<1>5. Held /\ SocketsHeld
  BY <1>3, <1>4 DEF Held, SocketsHeld
<1>6. ASSUME NEW c \in Conns
      PROVE  Phase(c) /\ Roles(c) /\ Record(c) /\ Tx(c) /\ Stands(c) /\ Walks(c)
  <2>1. Phase(c)
    <3>1. mu # c
      BY <1>3, GroupAssumption
    <3> QED BY <1>2, <1>4, <3>1 DEF Phase
  <2>2. Roles(c)
    BY <1>2, <1>4 DEF Roles, Hears, Alive
  <2>3. Record(c)
    BY <1>2, <1>3 DEF Record, Wrote, NoWrites, Sides
  <2>4. Tx(c)
    BY <1>2 DEF Tx
  <2>5. Stands(c) /\ Walks(c)
    BY <1>2 DEF Stands, Walks, Looking
  <2> QED BY <2>1, <2>2, <2>3, <2>4, <2>5
<1> QED BY <1>1, <1>5, <1>6 DEF RInv

-----------------------------------------------------------------------------
(* What follows from it.                                                   *)

\* RInv holds of every run: sockets belong to one connection each, with separation the
\* session of the primary is one of a primary, what a transaction wrote is with the
\* side its reads go to, and an undisturbed walk has the steady servers before it
\* (m.go, x.go, z.go, zf.go, zg.go, zx.go).
THEOREM ReadWriteInvariance == Spec => []RInv
  BY InitHolds, NextKeeps, PTL DEF Spec

LEMMA OnceAtMost == RInv => AtMostOnce
<1> SUFFICES ASSUME RInv, NEW c \in Conns, NEW n \in 1 .. made[c],
                    Cardinality({k \in 0 .. 2 : <<c, n, k>> \in done}) > 1, "stale" \notin spoiled[c]
             PROVE  FALSE
  BY DEF AtMostOnce
<1> DEFINE S == {k \in 0 .. 2 : <<c, n, k>> \in done}
<1>1. Record(c) /\ made[c] \in Nat
  BY DEF RInv, Typed
<1>2. n \in Nat
  BY <1>1
<1>3. \A k, l \in S : k = l
  BY <1>1, <1>2 DEF Record, Wrote
<1>4. Cardinality(S) > 1
  OBVIOUS
<1> HIDE DEF S
<1>5. S # {}
  BY <1>4, FS_EmptySet
<1>6. ASSUME NEW x \in S
      PROVE  FALSE
  <2>1. S = {x}
    BY <1>3, <1>6
  <2>2. Cardinality(S) = 1
    BY <2>1, FS_Singleton
  <2> QED BY <1>4, <2>2
<1> QED BY <1>5, <1>6

\* No statement is committed twice by one call, though the standby failed on it first,
\* whatever is lost and whoever takes over: only a session setting as the standby's last
\* statement makes an exception (zx.go executeByConn, executeByStmt).
THEOREM CommittedOnce == Spec => []AtMostOnce
  BY ReadWriteInvariance, OnceAtMost, PTL

LEMMA HeldSockets == RInv => SocketsHeld
BY DEF RInv

\* No socket is left open without a connection, but for the primary's when the standby
\* of a new session cannot be reached (zx.go connect, reconnect, removeStandby).
THEOREM NoSocketLost == Spec => []SocketsHeld
  BY ReadWriteInvariance, HeldSockets, PTL

LEMMA FoundPreferred == RInv => PreferredFound
BY DEF RInv, Walks, PreferredFound

\* An attempt to connect that runs alone while a server of the preferred mode is up ends
\* on such a server, for any group, order of endpoints and faults (y.go, z.go connect).
THEOREM WalksFindPreferred == Spec => []PreferredFound
  BY ReadWriteInvariance, FoundPreferred, PTL

\* A transaction is over only by EndTx.
LEMMA OverByEnd ==
  ASSUME RInv, [Next]_vars, NEW c \in Conns, inTx[c], ~inTx'[c]
  PROVE  \E commits \in BOOLEAN : EndTx(c, commits)
<1>1. CASE World /\ UNCHANGED callVars
  BY <1>1 DEF callVars
<1>2. CASE UNCHANGED vars
  BY <1>2 DEF vars
<1>3. ASSUME NEW d \in Conns \ {c}, Step(d)
      PROVE  FALSE
  <2>1. Typed /\ Held /\ Part(d)
    BY <1>3 DEF RInv, Part
  <2>2. Beside(d)
    BY <1>3, <2>1, StepWhole DEF Whole
  <2> QED BY <1>3, <2>2 DEF Beside
<1>4. CASE Step(c)
  <2>1. CASE Look(c) /\ UNCHANGED callVars
    BY <2>1 DEF callVars
  <2>2. CASE StartConnect(c) \/ Connected(c) \/ Reconnected(c) \/ NobodyFound(c)
    BY <2>2 DEF StartConnect, Connected, Reconnected, NobodyFound
  <2>3. ASSUME NEW kind \in Kinds, Call(c, kind)
        PROVE  FALSE
    BY <2>3 DEF Call
  <2>4. CASE StandbyNotRecovered(c)
    BY <2>4 DEF StandbyNotRecovered
  <2>5. CASE BeginTx(c)
    BY <2>5 DEF BeginTx
  <2>6. CASE CloseConn(c)
    BY <2>6 DEF CloseConn
  <2> QED BY <1>4, <2>1, <2>2, <2>3, <2>4, <2>5, <2>6 DEF Step
<1> QED BY <1>1, <1>2, <1>3, <1>4 DEF Next

LEMMA CommitIsTrue ==
  ASSUME RInv, [Next]_vars, NEW c \in Conns, inTx[c], ~inTx'[c], last'[c] = <<"commit", "primary">>,
         "switched" \notin spoiled[c], NEW n \in mine[c]
  PROVE  \E k \in 0 .. 2 : <<c, n, k>> \in done'
<1>1. Typed /\ Held /\ Part(c)
  BY DEF RInv, Part
<1>2. PICK commits \in BOOLEAN : EndTx(c, commits)
  BY OverByEnd
<1>3. ~ses[c].auto /\ (mine[c] = {} \/ InPrimary(c) \/ InStandby(c))
  BY <1>1 DEF Part, Tx
<1>4. Alive(c) /\ ~ses[c].closed /\ pend[c]["primary"] \subseteq done'
  BY <1>1, <1>2, <1>3, EndTxStep
<1>5. Has(c, "primary")
  BY <1>3, <1>4 DEF InPrimary, InStandby
<1> QED BY <1>4, <1>5 DEF Has

\* A Commit that returns no error has committed every write of the transaction that
\* returned none, unless the connection was switched, which a call was told (m.go
\* Commit, zg.go, zx.go): writes go to the primary once its transaction is open.
THEOREM CommitsAreTrue == Spec => CommitTrue
<1>1. RInv /\ [Next]_vars =>
        [\A c \in Conns :
           /\ inTx[c] /\ ~inTx'[c] /\ last'[c] = <<"commit", "primary">>
           /\ "switched" \notin spoiled[c]
           => \A n \in mine[c] : \E k \in 0 .. 2 : <<c, n, k>> \in done']_vars
  BY CommitIsTrue
<1> QED BY <1>1, ReadWriteInvariance, PTL DEF Spec, CommitTrue

LEMMA ReadIsOwn ==
  ASSUME RInv, [Next]_vars, NEW c \in Conns, made'[c] # made[c], NEW side \in Sides,
         last'[c] = <<"read", side>>, inTx[c], "switched" \notin spoiled[c]
  PROVE  Has(c, side)
<1>1. Typed /\ Held /\ Part(c)
  BY DEF RInv, Part
<1>2. CASE World /\ UNCHANGED callVars
  BY <1>2 DEF callVars
<1>3. CASE UNCHANGED vars
  BY <1>3 DEF vars
<1>4. ASSUME NEW d \in Conns \ {c}, Step(d)
      PROVE  FALSE
  <2>1. Part(d)
    BY <1>4 DEF RInv, Part
  <2>2. Beside(d)
    BY <1>1, <1>4, <2>1, StepWhole DEF Whole
  <2> QED BY <1>4, <2>2 DEF Beside
<1>5. CASE Step(c)
  <2>1. CASE Look(c) /\ UNCHANGED callVars
    BY <2>1 DEF callVars
  <2>2. CASE StartConnect(c) \/ Connected(c) \/ Reconnected(c) \/ NobodyFound(c)
    BY <2>2 DEF StartConnect, Connected, Reconnected, NobodyFound
  <2>3. ASSUME NEW kind \in Kinds, Call(c, kind)
        PROVE  Has(c, side)
    BY <1>1, <2>3, CallStep
  <2>4. CASE StandbyNotRecovered(c)
    <3>1. last' = last /\ ~ses[c].closed
      BY <2>4 DEF StandbyNotRecovered
    <3> QED BY <1>1, <3>1 DEF Part, Tx
  <2>5. CASE BeginTx(c)
    BY <2>5 DEF BeginTx
  <2>6. ASSUME NEW commits \in BOOLEAN, EndTx(c, commits)
        PROVE  FALSE
    BY <2>6 DEF EndTx
  <2>7. CASE CloseConn(c)
    BY <2>7 DEF CloseConn
  <2> QED BY <1>5, <2>1, <2>2, <2>3, <2>4, <2>5, <2>6, <2>7 DEF Step
<1> QED BY <1>2, <1>3, <1>4, <1>5 DEF Next

\* In a transaction that has written, a read is answered by the session that holds what
\* was written, whichever side statements failed on before (zx.go distributeSqlByConn,
\* distributeSqlByStmt, executeByConn).
THEOREM ReadsSeeWrites == Spec => ReadsOwnWrites
<1>1. RInv /\ [Next]_vars =>
        [\A c \in Conns :
           /\ made'[c] # made[c] /\ last'[c] \in {<<"read", side>> : side \in Sides}
           /\ inTx[c] /\ "switched" \notin spoiled[c]
           => \A n \in mine[c] : \E k \in 0 .. 2 : <<c, n, k>> \in pend[c][last'[c][2]]]_vars
  BY ReadIsOwn DEF Has
<1> QED BY <1>1, ReadWriteInvariance, PTL DEF Spec, ReadsOwnWrites
=============================================================================
