----------------------------- MODULE DmReadWrite -----------------------------
(***************************************************************************)
(* The connections of the DM driver over a group of servers (dm/m.go), with *)
(* the reconnect filter (dm/zf.go) around the filter that separates reads   *)
(* from writes (dm/zg.go, zx.go): a connection may have a second session on *)
(* a standby, statements are sent to one of the two, and what fails on the  *)
(* standby is run on the primary.  database/sql uses a connection from one  *)
(* goroutine at a time; connections reconnect at the same time.             *)
(*                                                                         *)
(* A call is "write" (the words INSERT, UPDATE, ...), "call" (any other     *)
(* statement that writes), "read" or "set" (a setting of the session).      *)
(***************************************************************************)
EXTENDS DmGroup

Kinds == {"read", "write", "call", "set"}
Writes == {"write", "call"}
Sides == {"primary", "standby"}

VARIABLES
  ses,     \* the two sessions and the flags of each connection
  inTx,    \* database/sql has a transaction on the connection
  opens, made, \* so far
  pend,    \* what the open transaction of each session has written
  done,    \* what is committed: connection, call, execution
  mine,    \* history: writes of the transaction whose calls returned no error
  spoiled, \* history: what went wrong that the properties make exceptions for
  last     \* history: the last call that was answered, and by which side

vars == <<worldVars, groupVars, at, ses, inTx, opens, made, pend, done, mine, spoiled, last>>
callVars == <<ses, inTx, opens, made, pend, done, mine, spoiled, last>>

NoWrites == [primary |-> {}, standby |-> {}]
NewSession(p, s, t) ==
  [primary |-> p, standby |-> s, standbyHost |-> t, closed |-> FALSE, distribute |-> "primary",
   trx |-> [primary |-> FALSE, standby |-> FALSE], auto |-> TRUE, stale |-> conf.schema]

-----------------------------------------------------------------------------
\* connectStandby, to the host the primary named at login: a session, none, or an error.
ConnectsStandby(t) ==
  IF t = None \/ mode[t] = "down" THEN {"error"}
  ELSE IF mode[t] = "standby" THEN {"session"} ELSE {"none"}

StartConnect(c) ==
  /\ at[c] = "out" /\ mu = None /\ mu' = c
  /\ opens[c] < conf.opens[c] /\ opens' = [opens EXCEPT ![c] = @ + 1]
  /\ Begin(c) /\ at' = [at EXCEPT ![c] = "dial"]
  /\ UNCHANGED <<worldVars, ses, inTx, made, pend, done, mine, spoiled, last>>

\* What a session of the primary alone, or with its standby, starts with.
Settles(c, t, result, rest) ==
  /\ ses' = [ses EXCEPT ![c] = [NewSession(new[c], None, t) EXCEPT
       !.standby = IF result = "session" THEN CHOOSE k \in Free : TRUE ELSE None,
       !.closed = rest]]
  /\ socket' = IF result = "session" THEN Opened(CHOOSE k \in Free : TRUE, t) ELSE socket
  /\ new' = [new EXCEPT ![c] = None]
  /\ at' = [at EXCEPT ![c] = "idle"]
  /\ pend' = [pend EXCEPT ![c] = NoWrites]

StandbyTold(c) == IF conf.separate THEN (Servers \ {socket[new[c]].srv}) \cup {None} ELSE {None}

\* RWUtil.connect.  When the standby fails, database/sql gets the error and never
\* sees the connection.
Connected(c) ==
  /\ at[c] = "chosen" /\ mu = c
  /\ \E t \in StandbyTold(c) : \E r \in IF conf.separate THEN ConnectsStandby(t) ELSE {"none"} :
       \/ /\ r # "error" /\ (r = "session" => Free # {})
          /\ Settles(c, t, r, FALSE) /\ UNCHANGED spoiled
       \/ /\ r = "error"
          /\ at' = [at EXCEPT ![c] = "out"] /\ new' = [new EXCEPT ![c] = None]
          /\ spoiled' = [spoiled EXCEPT ![c] = @ \cup {"standby"}]
          /\ UNCHANGED <<socket, ses, pend>>
  /\ mu' = None /\ Rests(c)
  /\ UNCHANGED <<conf, mode, faults, host, list, startPos, said, inTx, opens, made, done, mine, last>>

\* DmConnection.reconnect and the rest of RWUtil.reconnect: the new connection takes
\* the place of the old, in automatic commit, whatever transaction there was.
Reconnected(c) ==
  /\ at[c] = "chosen" /\ mu # c
  /\ \E t \in StandbyTold(c) : \E r \in IF conf.separate THEN ConnectsStandby(t) ELSE {"none"} :
       /\ r = "session" => Free # {}
       /\ Settles(c, t, r, r = "error")
       /\ spoiled' = [spoiled EXCEPT ![c] = @ \cup IF r = "error" THEN {"standby"} ELSE {}]
  /\ Rests(c)
  /\ UNCHANGED <<conf, mode, faults, mu, host, list, startPos, said, inTx, opens, made, done, mine, last>>

NobodyFound(c) ==
  /\ at[c] = "nobody"
  /\ IF mu = c THEN mu' = None /\ at' = [at EXCEPT ![c] = "out"] /\ UNCHANGED ses
     ELSE UNCHANGED mu /\ at' = [at EXCEPT ![c] = "idle"] /\ ses' = [ses EXCEPT ![c].closed = TRUE]
  /\ Rests(c)
  /\ UNCHANGED <<worldVars, host, list, startPos, said, new, inTx, opens, made, pend, done, mine, spoiled, last>>

-----------------------------------------------------------------------------
\* What a call does is put together in a record: the session, what is written, sockets
\* that are closed or cut, messages lost.
Work(c) ==
  [s |-> ses[c], pend |-> pend[c], done |-> done, shut |-> {}, cut |-> {}, lost |-> 0,
   notes |-> spoiled[c]]

Live(w, side) == w.s[side] # None /\ Answers(w.s[side]) /\ w.s[side] \notin w.cut
Takes(w, side, kind) == kind \notin Writes \/ mode[socket[w.s[side]].srv] \in {"primary", "normal"}

\* The server runs the call; a read need not open a transaction.
Ran(c, kind, side, k, w) ==
  LET written == IF kind \in Writes THEN {<<c, made[c] + 1, k>>} ELSE {}
      v == [w EXCEPT !.s.stale = IF side = "standby" THEN kind = "set" ELSE @]
  IN IF v.s.auto THEN {[v EXCEPT !.done = @ \cup written, !.s.trx[side] = FALSE]}
     ELSE LET open == [v EXCEPT !.pend[side] = @ \cup written, !.s.trx[side] = TRUE]
          IN {open} \cup (IF kind \in Writes THEN {} ELSE {v})

\* One statement on one session: the state after it and the answer.
Runs(c, kind, side, k, w) ==
  IF side = "primary" /\ w.s.closed THEN {<<w, "bad">>}
  ELSE IF ~Live(w, side) THEN {<<w, "comm">>}
  ELSE LET after == IF Takes(w, side, kind) THEN Ran(c, kind, side, k, w) ELSE {}
           cut(v) == [v EXCEPT !.cut = @ \cup {w.s[side]}, !.lost = @ + 1]
       IN {<<w, "error">>} \cup {<<v, "ok">> : v \in after}
          \cup (IF faults + w.lost < MaxFaults THEN {<<cut(v), "comm">> : v \in after \cup {w}} ELSE {})

\* Faulty: forgets the standby without closing it.
Dropped_Open(w) == [w EXCEPT !.s.standby = None, !.pend.standby = {}]

\* removeStandby.
Dropped(w) ==
  [w EXCEPT !.s.standby = None, !.pend.standby = {},
            !.shut = @ \cup ({w.s.standby} \ {None})]
ToPrimary(w) == [w EXCEPT !.s.distribute = "primary"]

\* Faulty: any read goes to either side.
Spread_Any(s, kind) ==
  IF s.standby = None \/ kind = "write" THEN {"primary"} ELSE Sides

\* distributeSqlByConn and ByStmt; rwCounter.count may give either side.
Spread(s, kind) ==
  IF s.standby = None \/ kind = "write" THEN {"primary"}
  ELSE IF s.trx[s.distribute] THEN {s.distribute}
  ELSE Sides

\* Faulty: always runs it once more.
Turned_Again(c, kind, w, plain) ==
  LET v == {r[1] : r \in Runs(c, kind, "primary", 1, w)}
  IN UNION {{<<r[1], r[2], "primary">> : r \in Runs(c, kind, "primary", 2, ToPrimary(u))} : u \in v}

\* What failed on the standby, or brought nothing back with rwHA, is run on the primary;
\* before that, once more where the last statement of the standby was a setting.
Turned(c, kind, w, plain) ==
  LET v == IF ~(plain /\ w.s.stale) THEN {w}
           ELSE {[r[1] EXCEPT !.notes = @ \cup {"stale"}] : r \in Runs(c, kind, "primary", 1, w)}
  IN UNION {{<<r[1], r[2], "primary">> : r \in Runs(c, kind, "primary", 2, ToPrimary(u))} : u \in v}

\* Faulty: an error of the standby is dropped.
OnStandby_Swallows(c, kind, w, plain) ==
  UNION {IF r[2] = "comm" THEN Turned(c, kind, Dropped(r[1]), plain) ELSE {<<r[1], "ok", "standby">>}
         : r \in Runs(c, kind, "standby", 0, w)}

\* The first session is the standby's; a setting goes to both.
OnStandby(c, kind, w, plain) ==
  UNION {CASE r[2] = "comm" -> Turned(c, kind, Dropped(r[1]), plain)
           [] r[2] = "error" -> Turned(c, kind, r[1], plain)
           [] OTHER ->
                IF kind = "set" THEN {<<q[1], "ok", "standby">> : q \in Runs(c, kind, "primary", 0, r[1])}
                ELSE {<<r[1], "ok", "standby">>} \cup
                       (IF conf.rwHA /\ kind = "read" THEN Turned(c, kind, r[1], plain) ELSE {})
         : r \in Runs(c, kind, "standby", 0, w)}

\* The first session is the primary's.
OnPrimary(c, kind, w) ==
  UNION {IF r[2] = "ok" /\ kind = "set" /\ w.s.standby # None
         THEN {<<q[1], "ok", "primary">> : q \in Runs(c, kind, "standby", 0, r[1])}
         ELSE {<<r[1], r[2], "primary">>}
         : r \in Runs(c, kind, "primary", 0, w)}

\* executeByConn and executeByStmt.
Executed(c, kind, plain) ==
  UNION {LET w == [Work(c) EXCEPT !.s.distribute = side]
         IN IF side = "primary" THEN OnPrimary(c, kind, w) ELSE OnStandby(c, kind, w, plain)
         : side \in Spread(ses[c], kind)}

-----------------------------------------------------------------------------
\* reconnectFilter.autoReconnect on a communication error: close the session of the
\* primary for good, or look for another one; the standby goes with the latter.
Broken(w) ==
  LET v == IF conf.reconnects THEN Dropped(w) ELSE w
  IN [v EXCEPT !.shut = @ \cup ({v.s.primary} \ {None}),
               !.s.primary = None, !.pend.primary = {},
               !.s.closed = ~conf.reconnects]

\* The record becomes the state; an error of the line goes through the filter.
Becomes(c, w, answer) ==
  LET v == IF answer = "comm" THEN Broken(w) ELSE w
  IN /\ ses' = [ses EXCEPT ![c] = v.s]
     /\ pend' = [pend EXCEPT ![c] = v.pend] /\ done' = v.done
     /\ faults' = faults + v.lost
     /\ socket' = [k \in Sockets |-> IF k \in v.shut THEN None
                     ELSE IF k \in v.cut THEN [socket[k] EXCEPT !.ok = FALSE] ELSE socket[k]]
     /\ IF answer = "comm" /\ conf.reconnects
        THEN /\ Begin(c) /\ at' = [at EXCEPT ![c] = "dial"]
             /\ spoiled' = [spoiled EXCEPT ![c] = v.notes \cup {"switched"}]
        ELSE /\ spoiled' = [spoiled EXCEPT ![c] = v.notes]
             /\ UNCHANGED <<at, host, list, startPos, said, order, pos, cycle, new, seen, steady, raced>>
     /\ UNCHANGED <<conf, mode, mu>>

Answered(c, kind, side, answer) ==
  last' = [last EXCEPT ![c] = IF answer = "ok" THEN <<kind, side>> ELSE <<>>]

Call(c, kind) ==
  /\ at[c] = "idle" /\ (inTx[c] \/ ~ses[c].closed) /\ made[c] < conf.calls[c]
  /\ \E plain \in BOOLEAN : \E r \in Executed(c, kind, plain) :
       /\ Becomes(c, r[1], r[2])
       /\ Answered(c, kind, r[3], r[2])
       /\ mine' = [mine EXCEPT ![c] = IF r[2] = "ok" /\ kind \in Writes THEN @ \cup {made[c] + 1} ELSE @]
  /\ made' = [made EXCEPT ![c] = @ + 1]
  /\ UNCHANGED <<inTx, opens>>

\* recoverStandby, once a second without a standby: if its host cannot be reached the
\* call fails with that error, which the filter outside takes for the primary's.  A
\* standby that is reached is let go again by checkStatusValid, which reads the
\* primary's exhausted rows a second time.
StandbyNotRecovered(c) ==
  /\ at[c] = "idle" /\ made[c] < conf.calls[c]
  /\ conf.separate /\ ~ses[c].closed /\ ses[c].standby = None
  /\ "error" \in ConnectsStandby(ses[c].standbyHost)
  /\ Becomes(c, Work(c), "comm")
  /\ made' = [made EXCEPT ![c] = @ + 1]
  /\ UNCHANGED <<inTx, opens, mine, last>>

\* A message of the transaction to a session: the answer of the server.
Message(w, side) ==
  IF side = "primary" /\ w.s.closed THEN {<<w, "bad">>}
  ELSE IF ~Live(w, side) THEN {<<w, "comm">>}
  ELSE {<<w, "ok">>, <<w, "error">>}
       \cup (IF faults + w.lost < MaxFaults
             THEN {<<[w EXCEPT !.cut = @ \cup {w.s[side]}, !.lost = @ + 1], "comm">>} ELSE {})

\* The filter sends it to the standby first and only minds an error of the line.
AfterStandby(w) ==
  IF w.s.standby = None THEN {w}
  ELSE {IF r[2] = "comm" THEN Dropped(r[1]) ELSE r[1] : r \in Message(w, "standby")}

\* DmConnectionBeginTx; automatic commit goes off before anything that can fail.
BeginTx(c) ==
  /\ at[c] = "idle" /\ ~inTx[c] /\ ~ses[c].closed /\ made[c] < conf.calls[c]
  /\ \E v \in AfterStandby([Work(c) EXCEPT !.notes = @ \ {"switched"}, !.s.auto = FALSE]) :
     \E r \in Message(v, "primary") :
       /\ Becomes(c, r[1], r[2])
       /\ inTx' = [inTx EXCEPT ![c] = r[2] = "ok"]
  /\ mine' = [mine EXCEPT ![c] = {}]
  /\ UNCHANGED <<opens, made, last>>

\* commit and rollback of one session.  An answer that is lost leaves it open whether
\* the server has ended the transaction that way.
Ends(c, w, side, commits) ==
  LET ended == [w EXCEPT !.pend[side] = {}, !.s.trx[side] = FALSE]
      kept == [ended EXCEPT !.done = @ \cup w.pend[side]]
      meant == IF commits THEN kept ELSE ended
      cut(v, r) == [v EXCEPT !.cut = r.cut, !.lost = r.lost]
  IN IF w.s.auto /\ ~(commits /\ w.s.trx[side]) /\ ~w.s.closed THEN {<<w, "ok">>}
     ELSE UNION {CASE r[2] = "ok" -> {<<meant, "ok">>}
                   [] r[2] = "error" -> {<<ended, "error">>}
                   [] r[2] = "comm" -> {<<cut(v, r[1]), "comm">> :
                        v \in IF r[1].lost > w.lost THEN {meant, ended} ELSE {ended}}
                   [] OTHER -> {r}
                 : r \in Message(w, side)}

\* DmConnectionCommit and Rollback, and what they defer.
EndTx(c, commits) ==
  /\ at[c] = "idle" /\ inTx[c]
  /\ \E v \in IF ses[c].standby = None THEN {Work(c)}
              ELSE {IF r[2] = "comm" THEN Dropped(r[1]) ELSE r[1] : r \in Ends(c, Work(c), "standby", commits)} :
     \E r \in Ends(c, v, "primary", commits) :
       /\ Becomes(c, [r[1] EXCEPT !.s.auto = TRUE], r[2])
       /\ Answered(c, IF commits THEN "commit" ELSE "rollback", "primary", r[2])
  /\ inTx' = [inTx EXCEPT ![c] = FALSE]
  /\ UNCHANGED <<opens, made, mine>>

\* DmConnectionClose: the standby, then the primary unless it is marked as closed.
CloseConn(c) ==
  /\ at[c] = "idle" /\ ~inTx[c]
  /\ socket' = Without({ses[c].standby} \cup IF ses[c].closed THEN {} ELSE {ses[c].primary})
  /\ ses' = [ses EXCEPT ![c] = NewSession(None, None, None)]
  /\ pend' = [pend EXCEPT ![c] = NoWrites] /\ mine' = [mine EXCEPT ![c] = {}]
  /\ at' = [at EXCEPT ![c] = "out"]
  /\ UNCHANGED <<conf, mode, faults, groupVars, inTx, opens, made, done, spoiled, last>>

-----------------------------------------------------------------------------
Init ==
  /\ GroupInit
  /\ ses = [c \in Conns |-> NewSession(None, None, None)]
  /\ inTx = [c \in Conns |-> FALSE] /\ opens = [c \in Conns |-> 0] /\ made = [c \in Conns |-> 0]
  /\ pend = [c \in Conns |-> NoWrites] /\ done = {}
  /\ mine = [c \in Conns |-> {}] /\ spoiled = [c \in Conns |-> {}]
  /\ last = [c \in Conns |-> <<>>]

Step(c) ==
  \/ Look(c) /\ UNCHANGED callVars
  \/ StartConnect(c) \/ Connected(c) \/ Reconnected(c) \/ NobodyFound(c)
  \/ \E kind \in Kinds : Call(c, kind)
  \/ StandbyNotRecovered(c)
  \/ BeginTx(c)
  \/ \E commits \in BOOLEAN : EndTx(c, commits)
  \/ CloseConn(c)

Next == (World /\ UNCHANGED callVars) \/ \E c \in Conns : Step(c)

Spec == Init /\ [][Next]_vars

-----------------------------------------------------------------------------
\* zx.go:486: in a transaction that has written, a read is answered by the session
\* that holds what was written, whichever sides statements failed on before.
ReadsOwnWrites ==
  [][\A c \in Conns :
       /\ made'[c] # made[c] /\ last'[c] \in {<<"read", side>> : side \in Sides}
       /\ inTx[c] /\ "switched" \notin spoiled[c]
       => \A n \in mine[c] : \E k \in 0 .. 2 : <<c, n, k>> \in pend[c][last'[c][2]]]_vars

\* m.go:313: when Commit returns no error, every write of the transaction that returned
\* none is committed, unless the connection was switched meanwhile, which was told.
CommitTrue ==
  [][\A c \in Conns :
       /\ inTx[c] /\ ~inTx'[c] /\ last'[c] = <<"commit", "primary">>
       /\ "switched" \notin spoiled[c]
       => \A n \in mine[c] : \E k \in 0 .. 2 : <<c, n, k>> \in done']_vars

\* zx.go:318: no statement is committed twice by one call, though the standby fails on
\* it first.  The exception: a session setting was the standby's last statement.
AtMostOnce ==
  \A c \in Conns : \A n \in 1 .. made[c] :
    Cardinality({k \in 0 .. 2 : <<c, n, k>> \in done}) > 1 => "stale" \in spoiled[c]

\* Every open socket belongs to a connection of the pool or to an attempt in progress,
\* unless the standby of a new session could not be reached.
SocketsHeld ==
  \A k \in Sockets : socket[k] # None =>
    \E c \in Conns : k \in {ses[c].primary, ses[c].standby, new[c]} \/ "standby" \in spoiled[c]
=============================================================================
