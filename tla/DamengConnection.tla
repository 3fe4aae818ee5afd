-------------------------- MODULE DamengConnection --------------------------
(***************************************************************************)
(* The cancellation-safe connections of the DM dialect (open.go, cancel.go *)
(* of dialects/dameng).                                                    *)
(*                                                                         *)
(* A connection is one call of privateConnector.Connect and what becomes   *)
(* of it.  Its goroutine passes the process-wide gate, binds a dial name   *)
(* of the upstream driver's registry to its own socket, lets the driver    *)
(* shake hands, serves calls one after the other and is closed.  A watcher *)
(* (context.AfterFunc) aborts the socket when the context of the handshake *)
(* or of a call is canceled.  Contexts are numbered: 0 is Connect's, k is  *)
(* that of call k.  The peer may stay silent for ever.                     *)
(***************************************************************************)
EXTENDS Naturals, FiniteSets

CONSTANTS
  Conns,     \* connections of the process, each used once
  Names,     \* dial names, "gorm-dm-context-socket-1" and so on
  None,      \* no name; the dial function that refuses
  MaxDials,  \* bound: dials of one handshake (endpoints of a group)
  MaxCalls   \* bound: calls on one connection

ASSUME DamengAssumption ==
  /\ None \notin Conns \cup Names
  /\ MaxDials \in Nat \ {0} /\ MaxCalls \in Nat

VARIABLES
  pc,        \* where the connection's goroutine is
  gate,      \* tokens in the connectionGate channel, of capacity 1
  issued,    \* names made so far (socketDials.count)
  free,      \* socketDials.free
  name,      \* the name a connection has taken
  registry,  \* upstream dials: whose dial function a name calls
  connecting, \* dialRequest.connecting
  ok,        \* whether the upstream Connect succeeded
  invalid,   \* connectionSocket.invalid
  dials,     \* dials begun so far; a socket has the number of its dial
  cur,       \* connectionSocket.conn, 0 while it is nil
  live,      \* sockets that are open
  call,      \* number of the last call
  watcher,   \* the AfterFunc of each context
  canceled,  \* contexts that are canceled
  peak       \* history: most names ever taken at once

socketVars == <<invalid, dials, cur, live>>
nameVars   == <<issued, free, name, registry, connecting, peak>>
vars == <<pc, gate, nameVars, ok, socketVars, call, watcher, canceled>>

Contexts == 0 .. MaxCalls

Goto(c, label) == pc' = [pc EXCEPT ![c] = label]
Canceled(c) == <<c, call[c]>> \in canceled
Taken == {c \in Conns : name[c] # None}

\* connectionSocket.abort, by the connection's own goroutine.
Abort(c) ==
  /\ invalid' = [invalid EXCEPT ![c] = TRUE]
  /\ live' = [live EXCEPT ![c] = @ \ {cur[c]}]

-----------------------------------------------------------------------------
(* enterConnectionGate.                                                    *)

StartConnect(c) ==
  /\ pc[c] = "new"
  /\ Goto(c, IF Canceled(c) THEN "failed" ELSE "gate")
  /\ UNCHANGED <<gate, nameVars, ok, socketVars, call, watcher, canceled>>

TakeGate(c) ==
  /\ pc[c] = "gate" /\ gate = 0
  /\ gate' = 1
  /\ Goto(c, "entered")
  /\ UNCHANGED <<nameVars, ok, socketVars, call, watcher, canceled>>

GateCanceled(c) ==
  /\ pc[c] = "gate" /\ Canceled(c)
  /\ Goto(c, "failed")
  /\ UNCHANGED <<gate, nameVars, ok, socketVars, call, watcher, canceled>>

\* Both cases of the select were ready: the token goes back.
CanceledInGate(c) ==
  /\ pc[c] = "entered" /\ Canceled(c)
  /\ gate' = gate - 1
  /\ Goto(c, "failed")
  /\ UNCHANGED <<nameVars, ok, socketVars, call, watcher, canceled>>

-----------------------------------------------------------------------------
(* registerSocketDial and its release function.                            *)

\* Faulty: a name is used again though it is not retired.
TakeName_InUse(c) ==
  /\ pc[c] = "entered" /\ ~Canceled(c)
  /\ \E n \in IF issued = {} THEN Names ELSE issued :
       name' = [name EXCEPT ![c] = n] /\ issued' = issued \cup {n} /\ free' = free \ {n}
  /\ peak' = IF Cardinality(Taken) + 1 > peak THEN Cardinality(Taken) + 1 ELSE peak
  /\ Goto(c, "named")
  /\ UNCHANGED <<gate, registry, connecting, ok, socketVars, call, watcher, canceled>>

\* A retired name is used again; else a new one is made.
TakeName(c) ==
  /\ pc[c] = "entered" /\ ~Canceled(c)
  /\ \/ \E n \in free : /\ name' = [name EXCEPT ![c] = n]
                        /\ free' = free \ {n}
                        /\ UNCHANGED issued
     \/ /\ free = {}
        /\ \E n \in Names \ issued : /\ name' = [name EXCEPT ![c] = n]
                                     /\ issued' = issued \cup {n}
        /\ UNCHANGED free
  /\ peak' = IF Cardinality(Taken) + 1 > peak THEN Cardinality(Taken) + 1 ELSE peak
  /\ Goto(c, "named")
  /\ UNCHANGED <<gate, registry, connecting, ok, socketVars, call, watcher, canceled>>

RegisterDial(c) ==
  /\ pc[c] = "named"
  /\ connecting' = [connecting EXCEPT ![c] = TRUE]
  /\ registry' = [registry EXCEPT ![name[c]] = c]
  /\ Goto(c, "registered")
  /\ UNCHANGED <<gate, issued, free, name, peak, ok, socketVars, call, watcher, canceled>>

\* The release, in Connect's deferred function or in Close: the name refuses
\* to dial first,
Unregister(c) ==
  /\ pc[c] = "unregister"
  /\ connecting' = [connecting EXCEPT ![c] = FALSE]
  /\ registry' = [registry EXCEPT ![name[c]] = None]
  /\ Goto(c, "freeing")
  /\ UNCHANGED <<gate, issued, free, name, peak, ok, socketVars, call, watcher, canceled>>

\* Faulty: the name is lost.
FreeName_Forgets(c) ==
  /\ pc[c] = "freeing"
  /\ name' = [name EXCEPT ![c] = None]
  /\ gate' = IF ok[c] THEN gate ELSE gate - 1
  /\ Goto(c, IF ok[c] THEN "closed" ELSE "failed")
  /\ UNCHANGED <<free, issued, registry, connecting, peak, ok, socketVars, call, watcher, canceled>>

\* and is free after that.  A Connect that failed leaves the gate as well.
FreeName(c) ==
  /\ pc[c] = "freeing"
  /\ free' = free \cup {name[c]}
  /\ name' = [name EXCEPT ![c] = None]
  /\ gate' = IF ok[c] THEN gate ELSE gate - 1
  /\ Goto(c, IF ok[c] THEN "closed" ELSE "failed")
  /\ UNCHANGED <<issued, registry, connecting, peak, ok, socketVars, call, watcher, canceled>>

-----------------------------------------------------------------------------
(* privateConnector.Connect, with the gate held.                           *)

\* The URL is refused, or no connector opens, or watch finds the context done.
OpenFails(c) ==
  /\ pc[c] = "registered"
  /\ Goto(c, "unregister")
  /\ UNCHANGED <<gate, nameVars, ok, socketVars, call, watcher, canceled>>

\* connectionSocket.watch.
Arm(c, k) ==
  /\ <<c, k>> \notin canceled /\ ~invalid[c]
  /\ watcher' = [watcher EXCEPT ![c][k] = "armed"]

Watch(c) ==
  /\ pc[c] = "registered"
  /\ Arm(c, 0)
  /\ Goto(c, "handshake")
  /\ UNCHANGED <<gate, nameVars, ok, socketVars, call, canceled>>

\* The driver looks the name up and runs the dial function it finds; for an
\* endpoint group it may do so more than once.
BeginDial(c) ==
  /\ pc[c] = "handshake" /\ dials[c] < MaxDials
  /\ registry[name[c]] = c /\ connecting[c]
  /\ dials' = [dials EXCEPT ![c] = @ + 1]
  /\ Goto(c, "dialing")
  /\ UNCHANGED <<gate, nameVars, ok, invalid, cur, live, call, watcher, canceled>>

DialFails(c) ==
  /\ pc[c] = "dialing"
  /\ Goto(c, "handshake")
  /\ UNCHANGED <<gate, nameVars, ok, socketVars, call, watcher, canceled>>

\* Faulty: does not look whether the state was invalid.
Install_KeepsLate(c) ==
  /\ pc[c] = "dialing"
  /\ cur' = [cur EXCEPT ![c] = dials[c]]
  /\ live' = [live EXCEPT ![c] = (@ \ {cur[c]}) \cup {dials[c]}]
  /\ invalid' = [invalid EXCEPT ![c] = @ \/ cur[c] # 0]
  /\ Goto(c, "handshake")
  /\ UNCHANGED <<gate, nameVars, ok, dials, call, watcher, canceled>>

\* DialContext has a connection, perhaps in spite of a cancellation.  It takes
\* the place of the one before, whose Close marks the shared state invalid,
\* and is closed itself if the state was invalid already.
Install(c) ==
  /\ pc[c] = "dialing"
  /\ cur' = [cur EXCEPT ![c] = dials[c]]
  /\ live' = [live EXCEPT ![c] = (@ \ {cur[c]}) \cup (IF invalid[c] THEN {} ELSE {dials[c]})]
  /\ invalid' = [invalid EXCEPT ![c] = @ \/ cur[c] # 0]
  /\ Goto(c, "handshake")
  /\ UNCHANGED <<gate, nameVars, ok, dials, call, watcher, canceled>>

\* trackedSocket.Close, called by the driver.
DriverCloses(c) ==
  /\ pc[c] \in {"handshake", "calling"} /\ cur[c] \in live[c]
  /\ Abort(c)
  /\ UNCHANGED <<pc, gate, nameVars, ok, dials, cur, call, watcher, canceled>>

HandshakeDone(c) ==
  /\ pc[c] = "handshake" /\ cur[c] \in live[c]
  /\ ok' = [ok EXCEPT ![c] = TRUE]
  /\ Goto(c, "ending")
  /\ UNCHANGED <<gate, nameVars, socketVars, call, watcher, canceled>>

HandshakeFails(c) ==
  /\ pc[c] = "handshake"
  /\ Goto(c, "ending")
  /\ UNCHANGED <<gate, nameVars, ok, socketVars, call, watcher, canceled>>

\* Faulty: the watcher outlives the call.
StopWatcher_LeavesArmed(c) ==
  /\ watcher[c][call[c]] \in {"armed", "done"}
  /\ UNCHANGED watcher

\* cancellationGuard.end: stop the watcher, or wait for one that has started.
StopWatcher(c) ==
  /\ watcher[c][call[c]] \in {"armed", "done"}
  /\ watcher' = [watcher EXCEPT ![c][call[c]] = "done"]

\* Faulty: a failed handshake does not abort.
EndConnect_NoAbort(c) ==
  /\ pc[c] = "ending"
  /\ StopWatcher(c)
  /\ IF Canceled(c) \/ ~ok[c]
     THEN /\ ok' = [ok EXCEPT ![c] = FALSE]
          /\ Goto(c, "unregister")
     ELSE Goto(c, "returning") /\ UNCHANGED ok
  /\ UNCHANGED <<gate, nameVars, socketVars, call, canceled>>

\* A canceled handshake returns the cancellation, a failed one its error; both
\* abort the socket.
EndConnect(c) ==
  /\ pc[c] = "ending"
  /\ StopWatcher(c)
  /\ IF Canceled(c) \/ ~ok[c]
     THEN /\ Abort(c)
          /\ ok' = [ok EXCEPT ![c] = FALSE]
          /\ Goto(c, "unregister")
     ELSE /\ Goto(c, "returning")
          /\ UNCHANGED <<ok, invalid, live>>
  /\ UNCHANGED <<gate, nameVars, dials, cur, call, canceled>>

ReturnConn(c) ==
  /\ pc[c] = "returning"
  /\ connecting' = [connecting EXCEPT ![c] = FALSE]
  /\ gate' = gate - 1
  /\ Goto(c, "open")
  /\ UNCHANGED <<issued, free, name, registry, peak, ok, socketVars, call, watcher, canceled>>

-----------------------------------------------------------------------------
(* cancellationConn: connectionCall, query and Rows.Close, Close.          *)

StartCall(c) ==
  /\ pc[c] = "open" /\ call[c] < MaxCalls
  /\ Arm(c, call[c] + 1)
  /\ call' = [call EXCEPT ![c] = @ + 1]
  /\ Goto(c, "calling")
  /\ UNCHANGED <<gate, nameVars, ok, socketVars, canceled>>

\* The driver reconnects by itself: the dial function does not connect any
\* more and aborts.
Redial(c) ==
  /\ pc[c] = "calling" /\ registry[name[c]] = c /\ ~connecting[c]
  /\ Abort(c)
  /\ UNCHANGED <<pc, gate, nameVars, ok, dials, cur, call, watcher, canceled>>

\* The peer answers, or the driver sees that its socket is closed.
CallAnswered(c) ==
  /\ pc[c] = "calling" /\ cur[c] \in live[c]
  /\ Goto(c, "callEnding")
  /\ UNCHANGED <<gate, nameVars, ok, socketVars, call, watcher, canceled>>

CallFails(c) ==
  /\ pc[c] = "calling" /\ cur[c] \notin live[c]
  /\ Goto(c, "callEnding")
  /\ UNCHANGED <<gate, nameVars, ok, socketVars, call, watcher, canceled>>

EndCall(c) ==
  /\ pc[c] = "callEnding"
  /\ StopWatcher(c)
  /\ IF Canceled(c) THEN Abort(c) ELSE UNCHANGED <<invalid, live>>
  /\ Goto(c, "open")
  /\ UNCHANGED <<gate, nameVars, ok, dials, cur, call, canceled>>

\* database/sql drops a connection that is not valid, and closes any in time.
Close(c) ==
  /\ pc[c] = "open"
  /\ Abort(c)
  /\ Goto(c, "unregister")
  /\ UNCHANGED <<gate, nameVars, ok, dials, cur, call, watcher, canceled>>

-----------------------------------------------------------------------------
(* Contexts and their watchers.                                            *)

\* Callers cancel whenever they like; most do so right after the call.
Cancel(c, k) ==
  /\ k <= call[c] /\ <<c, k>> \notin canceled
  /\ canceled' = canceled \cup {<<c, k>>}
  /\ UNCHANGED <<pc, gate, nameVars, ok, socketVars, call, watcher>>

\* abort in the watcher's goroutine: first the flag,
WatcherFires(c, k) ==
  /\ watcher[c][k] = "armed" /\ <<c, k>> \in canceled
  /\ watcher' = [watcher EXCEPT ![c][k] = "firing"]
  /\ invalid' = [invalid EXCEPT ![c] = TRUE]
  /\ UNCHANGED <<pc, gate, nameVars, ok, dials, cur, live, call, canceled>>

\* then, under the lock, the socket that is there by now.
WatcherCloses(c, k) ==
  /\ watcher[c][k] = "firing"
  /\ watcher' = [watcher EXCEPT ![c][k] = "done"]
  /\ live' = [live EXCEPT ![c] = @ \ {cur[c]}]
  /\ UNCHANGED <<pc, gate, nameVars, ok, invalid, dials, cur, call, canceled>>

-----------------------------------------------------------------------------
Init ==
  /\ pc = [c \in Conns |-> "new"]
  /\ gate = 0
  /\ issued = {} /\ free = {} /\ peak = 0
  /\ name = [c \in Conns |-> None]
  /\ registry = [n \in Names |-> None]
  /\ connecting = [c \in Conns |-> FALSE]
  /\ ok = [c \in Conns |-> FALSE]
  /\ invalid = [c \in Conns |-> FALSE]
  /\ dials = [c \in Conns |-> 0]
  /\ cur = [c \in Conns |-> 0]
  /\ live = [c \in Conns |-> {}]
  /\ call = [c \in Conns |-> 0]
  /\ watcher = [c \in Conns |-> [k \in Contexts |-> "off"]]
  /\ canceled = {}

\* The goroutine's own steps.
Run(c) ==
  \/ TakeGate(c) \/ GateCanceled(c) \/ CanceledInGate(c) \/ TakeName(c)
  \/ RegisterDial(c) \/ Unregister(c) \/ FreeName(c) \/ Watch(c)
  \/ EndConnect(c) \/ ReturnConn(c) \/ CallFails(c) \/ EndCall(c)

Watchers(c) == \E k \in Contexts : WatcherFires(c, k) \/ WatcherCloses(c, k)

\* What the driver, the peer and the callers may do.
Driver(c) ==
  \/ StartConnect(c) \/ OpenFails(c) \/ BeginDial(c) \/ DialFails(c) \/ Install(c)
  \/ DriverCloses(c) \/ HandshakeDone(c) \/ HandshakeFails(c)
  \/ StartCall(c) \/ Redial(c) \/ CallAnswered(c) \/ Close(c)
  \/ \E k \in Contexts : Cancel(c, k)

Next == \E c \in Conns : Run(c) \/ Watchers(c) \/ Driver(c)

\* Goroutines are scheduled; DialContext returns when its context is canceled,
\* and the driver when its socket is closed.
Fairness ==
  \A c \in Conns :
    /\ WF_vars(Run(c)) /\ WF_vars(Watchers(c))
    /\ WF_vars(Canceled(c) /\ (OpenFails(c) \/ DialFails(c)))
    /\ WF_vars(cur[c] \notin live[c] /\ HandshakeFails(c))

Spec == Init /\ [][Next]_vars /\ Fairness

-----------------------------------------------------------------------------
(* Properties.                                                             *)

InGate == {"entered", "named", "registered", "handshake", "dialing", "ending", "returning"}
Bound  == {"registered", "handshake", "dialing", "ending", "returning", "open",
           "calling", "callEnding", "unregister"}
\* As long as the driver may dial by a connection's name, that name reaches
\* the connection's own dial function: the one before has let go of it, and no
\* release comes late (registerSocketDial).
OwnDial == \A c \in Conns : pc[c] \in Bound => registry[name[c]] = c

\* cancel.go:38: the registry never holds more names than connections were
\* allocated at one time.
NamesBounded == Cardinality(issued) <= peak

\* A Connect that failed and a connection that was closed leave no socket
\* open, even one the driver dialed while the cancellation was under way, and a
\* connection never has two: a second dial closes the first one's.
NoSocketLeft == \A c \in Conns :
  live[c] \subseteq (IF pc[c] \in {"closed", "failed"} THEN {} ELSE {cur[c]})

\* A connection in the pool is invalidated by its own Close only: the contexts
\* of calls that are over may be canceled without harm (cancellationGuard.end).
IdleStaysValid ==
  [][\A c \in Conns : pc[c] = "open" /\ invalid'[c] # invalid[c] => pc'[c] # "open"]_vars

\* A Connect and a call whose context is canceled return, though the peer be
\* silent and another handshake never leave the gate.
Connecting == InGate \cup {"gate"}
CanceledReturns == \A c \in Conns :
  /\ (pc[c] \in Connecting /\ <<c, 0>> \in canceled) ~> pc[c] \notin Connecting
  /\ (pc[c] = "calling" /\ Canceled(c)) ~> pc[c] # "calling"
=============================================================================
