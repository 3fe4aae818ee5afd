------------------------------- MODULE DmGroup -------------------------------
(***************************************************************************)
(* How the DM driver finds a server of a group (dm/x.go, y.go, z.go): every *)
(* attempt walks the endpoints in an order, logs in, and keeps the server   *)
(* if its mode is the one the login mode prefers.  Only the last walk takes *)
(* what there is.  What a server said of itself orders the walks to come.   *)
(*                                                                         *)
(* All connections of a sql.DB share one DmConnector and one epGroup.  Its  *)
(* mutex is held by Connect, not by a connection that reconnects, and the   *)
(* address to dial goes through a field of the connector.                   *)
(***************************************************************************)
EXTENDS Naturals, Integers, FiniteSets, SequencesExt

CONSTANTS
  Conns,       \* connections of a sql.DB
  Servers,     \* endpoints of the group, a server each
  Sockets,     \* sockets the process may have open
  None,
  Listed,      \* the endpoints in the order of the configuration
  Modes,       \* the modes of the servers at first
  Confs,       \* configurations: [loginMode, headFirst, reconnects, separate, schema, rwHA],
               \* with a bound: how often a connection is opened, and its calls
  SwitchTimes, \* dmConnector.switchTimes
  MaxFaults    \* bound: servers that go down and messages that are lost

LoginModes == {"normalFirst", "primaryFirst", "standbyFirst", "primaryOnly", "standbyOnly"}
ASSUME GroupAssumption ==
  /\ Listed \in Seq(Servers) /\ Listed # <<>> /\ ToSet(Listed) = Servers /\ IsInjective(Listed)
  /\ Modes \subseteq [Servers -> {"normal", "primary", "standby"}]
  /\ Confs \subseteq [loginMode : LoginModes, headFirst : BOOLEAN, reconnects : BOOLEAN,
                      separate : BOOLEAN, schema : BOOLEAN, rwHA : BOOLEAN,
                      opens : [Conns -> Nat], calls : [Conns -> Nat]]
  /\ \A k \in Confs : k.separate => k.loginMode = "primaryOnly"
  /\ SwitchTimes \in Nat \ {0} /\ MaxFaults \in Nat
  /\ None \notin Servers \cup Sockets \cup Conns \cup [srv : Servers, ok : BOOLEAN]

VARIABLES
  conf,
  mode,     \* what each server is, "down" while it is not there
  faults,
  socket,   \* the server of each open socket and whether it still answers
  mu,       \* the connection that holds DmConnector.mu
  host,     \* DmConnector.host and port
  list,     \* epGroup.epList
  startPos, \* epGroup.epStartPos
  said,     \* what refreshStatus last noted of an endpoint
  at,       \* where a connection is
  order,    \* epSelector.dbs
  pos, cycle,
  new,      \* the socket a walk has opened
  seen,     \* DmConnection.SvrMode of that login
  steady,   \* history: servers of the preferred mode since the attempt began
  raced     \* history: another connection was looking for a server meanwhile

groupVars == <<mu, host, list, startPos, said, order, pos, cycle, new, seen, steady, raced>>
worldVars == <<conf, mode, faults, socket>>

Looking == {"dial", "dialing", "check"}

-----------------------------------------------------------------------------
Preferred ==
  CASE conf.loginMode = "normalFirst" -> "normal"
    [] conf.loginMode \in {"primaryFirst", "primaryOnly"} -> "primary"
    [] OTHER -> "standby"

\* ep.calcSort; all servers that are up are open.
Sort(s) ==
  LET weight == [normal |-> 30, primary |-> 20, standby |-> 10]
      factor == CASE conf.loginMode = "primaryFirst"  -> [normal |-> 10, primary |-> 100, standby |-> 1]
                  [] conf.loginMode = "standbyFirst" -> [normal |-> 1, primary |-> 10, standby |-> 100]
                  [] conf.loginMode = "normalFirst"  -> [normal |-> 100, primary |-> 10, standby |-> 1]
                  [] OTHER -> [normal |-> 1, primary |-> 1, standby |-> 1]
  IN CASE said[s] = "unknown" -> 10000
       [] said[s] = "dead" -> -2
       [] OTHER -> IF conf.loginMode \in {"primaryOnly", "standbyOnly"} /\ said[s] # Preferred THEN -1
                   ELSE weight[said[s]] * factor[said[s]]

\* epSelector.sortDBList, of any walk but the first.  sort.Slice promises nothing about
\* the order of endpoints that weigh the same.
Sorted(s) ==
  {t \in [DOMAIN s -> ToSet(s)] :
     /\ ToSet(s) \subseteq ToSet(t)
     /\ \A i, j \in DOMAIN s : i < j => Sort(t[i]) >= Sort(t[j])}

\* Faulty: no walk more when there are several endpoints.
Cycles_NoExtra == SwitchTimes

\* How many walks epGroup.connect makes.
Cycles == IF Len(list) = 1 THEN SwitchTimes ELSE SwitchTimes + 1
LastWalk(c) == cycle[c] + 1 = Cycles

\* epSelector.checkServerMode.
Acceptable(c) ==
  \/ seen[c] = Preferred
  \/ LastWalk(c) /\ conf.loginMode \notin {"primaryOnly", "standbyOnly"}

\* TYPE_HEAD_FIRST gives the selector the slice of the group itself.
Dbs(c) == IF conf.headFirst THEN list ELSE order[c]
Endpoint(c) == Dbs(c)[pos[c]]

Free == {k \in Sockets : socket[k] = None}
Opened(k, s) == [socket EXCEPT ![k] = [srv |-> s, ok |-> TRUE]]
Without(ks) == [k \in Sockets |-> IF k \in ks THEN None ELSE socket[k]]
Answers(k) == k # None /\ socket[k].ok

-----------------------------------------------------------------------------
\* epGroup.connect begins, and getEPSelector.
Begin(c) ==
  /\ startPos' = IF conf.headFirst THEN startPos ELSE (startPos + 1) % Len(list)
  /\ order' = [order EXCEPT ![c] =
       IF conf.headFirst THEN <<>> ELSE [k \in DOMAIN list |-> list[((k - 1 + startPos') % Len(list)) + 1]]]
  /\ pos' = [pos EXCEPT ![c] = 1] /\ cycle' = [cycle EXCEPT ![c] = 0]
  /\ steady' = [steady EXCEPT ![c] = {s \in Servers : mode[s] = Preferred}]
  /\ raced' = [d \in Conns |-> IF d = c THEN \E o \in Conns \ {c} : at[o] \in Looking
                               ELSE raced[d] \/ at[d] \in Looking]
  /\ UNCHANGED <<host, list, said, new, seen>>

\* An attempt is over, and its selector with it.
Rests(c) ==
  /\ order' = [order EXCEPT ![c] = <<>>]
  /\ pos' = [pos EXCEPT ![c] = 1] /\ cycle' = [cycle EXCEPT ![c] = 0]
  /\ seen' = [seen EXCEPT ![c] = "down"]
  /\ steady' = [steady EXCEPT ![c] = {}] /\ raced' = [raced EXCEPT ![c] = FALSE]

\* ep.connect puts the address into the connector.
SetHost(c) ==
  /\ at[c] = "dial"
  /\ at' = [at EXCEPT ![c] = "dialing"] /\ host' = Endpoint(c)
  /\ UNCHANGED <<worldVars, mu, list, startPos, said, order, pos, cycle, new, seen, steady, raced>>

\* connectSingle dials what the connector says by then, and logs in.
Login(c) ==
  /\ at[c] = "dialing" /\ mode[host] # "down" /\ Free # {}
  /\ LET k == CHOOSE j \in Free : TRUE
     IN socket' = Opened(k, host) /\ new' = [new EXCEPT ![c] = k]
  /\ seen' = [seen EXCEPT ![c] = mode[host]]
  /\ said' = [said EXCEPT ![Endpoint(c)] = mode[host]]
  /\ at' = [at EXCEPT ![c] = "check"]
  /\ UNCHANGED <<conf, mode, faults, mu, host, list, startPos, order, pos, cycle, steady, raced>>

\* traverseServerList goes on; epGroup.connect sorts and walks again, or gives up.
Advance(c) ==
  \/ /\ pos[c] < Len(list)
     /\ pos' = [pos EXCEPT ![c] = @ + 1] /\ at' = [at EXCEPT ![c] = "dial"]
     /\ UNCHANGED <<cycle, order, list>>
  \/ /\ pos[c] = Len(list) /\ ~LastWalk(c)
     /\ pos' = [pos EXCEPT ![c] = 1] /\ cycle' = [cycle EXCEPT ![c] = @ + 1]
     /\ \E s \in Sorted(Dbs(c)) :
          IF conf.headFirst THEN list' = s /\ UNCHANGED order
          ELSE order' = [order EXCEPT ![c] = s] /\ UNCHANGED list
     /\ at' = [at EXCEPT ![c] = "dial"]
  \/ /\ pos[c] = Len(list) /\ LastWalk(c)
     /\ at' = [at EXCEPT ![c] = "nobody"]
     /\ UNCHANGED <<pos, cycle, order, list>>

\* The server is down, or the login is lost on the way.
LoginFails(c) ==
  /\ at[c] = "dialing"
  /\ \/ mode[host] = "down" /\ UNCHANGED <<faults, steady>>
     \/ /\ mode[host] # "down" /\ faults < MaxFaults
        /\ faults' = faults + 1 /\ steady' = [steady EXCEPT ![c] = @ \ {host}]
  /\ said' = [said EXCEPT ![Endpoint(c)] = "dead"]
  /\ Advance(c)
  /\ UNCHANGED <<conf, mode, socket, mu, host, startPos, new, seen, raced>>

Chosen(c) ==
  /\ at[c] = "check" /\ Acceptable(c)
  /\ at' = [at EXCEPT ![c] = "chosen"]
  /\ UNCHANGED <<worldVars, groupVars>>

Refused(c) ==
  /\ at[c] = "check" /\ ~Acceptable(c)
  /\ socket' = Without({new[c]}) /\ new' = [new EXCEPT ![c] = None]
  /\ Advance(c)
  /\ UNCHANGED <<conf, mode, faults, mu, host, startPos, said, seen, steady, raced>>

Look(c) == SetHost(c) \/ Login(c) \/ LoginFails(c) \/ Chosen(c) \/ Refused(c)

-----------------------------------------------------------------------------
\* The servers.
ModeOf(s, m) ==
  /\ mode' = [mode EXCEPT ![s] = m]
  /\ steady' = [c \in Conns |-> steady[c] \ {s}]
  /\ UNCHANGED <<conf, mu, host, list, startPos, said, at, order, pos, cycle, new, seen, raced>>

GoesDown(s) ==
  /\ mode[s] # "down" /\ faults < MaxFaults /\ faults' = faults + 1
  /\ socket' = [k \in Sockets |-> IF socket[k] # None /\ socket[k].srv = s
                                  THEN [socket[k] EXCEPT !.ok = FALSE] ELSE socket[k]]
  /\ ModeOf(s, "down")

ComesBack(s) == mode[s] = "down" /\ ModeOf(s, "standby") /\ UNCHANGED <<faults, socket>>

TakesOver(s) ==
  /\ mode[s] = "standby" /\ \A t \in Servers : mode[t] # "primary"
  /\ ModeOf(s, "primary") /\ UNCHANGED <<faults, socket>>

World == \E s \in Servers : GoesDown(s) \/ ComesBack(s) \/ TakesOver(s)

GroupInit ==
  /\ conf \in Confs /\ mode \in Modes
  /\ faults = 0 /\ socket = [k \in Sockets |-> None]
  /\ mu = None /\ host = None /\ list = Listed
  /\ startPos \in (IF conf.headFirst THEN {0} ELSE 0 .. Len(Listed) - 1)
  /\ said = [s \in Servers |-> "unknown"]
  /\ at = [c \in Conns |-> "out"]
  /\ order = [c \in Conns |-> <<>>]
  /\ pos = [c \in Conns |-> 1] /\ cycle = [c \in Conns |-> 0]
  /\ new = [c \in Conns |-> None] /\ seen = [c \in Conns |-> "down"]
  /\ steady = [c \in Conns |-> {}] /\ raced = [c \in Conns |-> FALSE]

-----------------------------------------------------------------------------
\* y.go:15-26: an attempt that ran alone, with a server of the preferred mode up
\* all the while and never out of reach, ends on a server of that mode, whatever
\* the order of the endpoints and whatever the walks before noted of them.
PreferredFound ==
  \A c \in Conns : ~raced[c] /\ steady[c] # {}
    => /\ at[c] = "chosen" => seen[c] = Preferred
       /\ at[c] # "nobody"
=============================================================================
