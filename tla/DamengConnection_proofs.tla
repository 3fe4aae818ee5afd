----------------------- MODULE DamengConnection_proofs -----------------------
(***************************************************************************)
(* Proofs about DamengConnection, for any number of connections, names,    *)
(* dials and calls: what a dial name reaches, how many names there are,    *)
(* which sockets are open, and who invalidates a connection.               *)
(***************************************************************************)
EXTENDS DamengConnection, FiniteSetTheorems, TLAPS

Early   == {"new", "gate", "entered", "named", "registered"}
Quiet   == Early \cup {"unregister", "freeing", "closed", "failed"}
Holding == Bound \cup {"named", "freeing"}
Guarded == {"handshake", "dialing", "ending", "calling", "callEnding"}

Labels  == Quiet \cup Guarded \cup {"returning", "open"}
States  == {"off", "armed", "firing", "done"}

Places == pc \in [Conns -> Labels]

\* Who has which name.  A name is taken by one connection, or free, or has not
\* been made.
NamesKept ==
  /\ name \in [Conns -> Names \cup {None}]
  /\ registry \in [Names -> Conns \cup {None}]
  /\ free \subseteq issued /\ issued \subseteq Names
  /\ \A c \in Conns :
       /\ name[c] # None <=> pc[c] \in Holding
       /\ name[c] # None => name[c] \in issued \ free
  /\ \A c, d \in Conns : c # d /\ name[c] # None => name[c] # name[d]
  /\ \A n \in issued \ free : \E c \in Conns : name[c] = n

\* The most names that were ever taken at once, and the names made.
NamesCounted ==
  /\ IsFiniteSet(Taken) /\ IsFiniteSet(issued) /\ peak \in Nat
  /\ Cardinality(Taken) <= peak /\ Cardinality(issued) <= peak

\* A socket is open only while a handshake or a call may need it.
SocketsKept ==
  /\ live \in [Conns -> SUBSET Nat] /\ cur \in [Conns -> Nat] /\ dials \in [Conns -> Nat]
  /\ \A c \in Conns :
       /\ live[c] \subseteq {cur[c]}
       /\ pc[c] \in Quiet => live[c] = {}

\* Only the context of a handshake or a call under way has an armed watcher.
WatchersKept ==
  /\ watcher \in [Conns -> [Contexts -> States]] /\ call \in [Conns -> Contexts]
  /\ invalid \in [Conns -> BOOLEAN]
  /\ \A c \in Conns :
       /\ pc[c] \in Early => call[c] = 0
       /\ \A k \in Contexts :
            watcher[c][k] = "armed" => pc[c] \in Guarded /\ k = call[c]

IInv == Places /\ NamesKept /\ OwnDial /\ NamesCounted /\ SocketsKept /\ WatchersKept

-----------------------------------------------------------------------------
LEMMA InitInv == Init => IInv
<1> SUFFICES ASSUME Init PROVE IInv
    OBVIOUS
<1> USE DamengAssumption DEF DamengAssumption
<1>1. Places BY DEF Init, Places, Labels, Quiet, Early
<1>2. NamesKept BY DEF Init, NamesKept, Holding, Bound
<1>3. OwnDial BY DEF Init, OwnDial, Bound
<1>4. NamesCounted
  <2>1. Taken = {} /\ issued = {} BY DEF Init, Taken
  <2>2. peak = 0 BY DEF Init
  <2> QED BY <2>1, <2>2, FS_EmptySet DEF NamesCounted
<1>5. SocketsKept BY DEF Init, SocketsKept
<1>6. WatchersKept BY DEF Init, WatchersKept, Contexts, States
<1> QED BY <1>1, <1>2, <1>3, <1>4, <1>5, <1>6 DEF IInv

-----------------------------------------------------------------------------
(* Names.                                                                  *)

NamesInv == Places /\ NamesKept /\ OwnDial /\ NamesCounted

\* A step that leaves the names alone and moves no connection in or out of the
\* places where it has one.
LEMMA NamesAlone ==
  ASSUME NamesInv, Places',
         UNCHANGED <<issued, free, name, registry, peak>>,
         \A d \in Conns : /\ pc'[d] \in Holding <=> pc[d] \in Holding
                          /\ pc'[d] \in Bound => pc[d] \in Bound
  PROVE  NamesInv'
<1>1. NamesKept' BY DEF NamesInv, NamesKept
<1>2. OwnDial' BY DEF NamesInv, OwnDial
<1>3. Taken' = Taken BY DEF Taken
<1>4. NamesCounted' BY <1>3 DEF NamesInv, NamesCounted
<1> QED BY <1>1, <1>2, <1>4 DEF NamesInv

LEMMA TakeNameNames ==
  ASSUME NamesInv, NEW c \in Conns, TakeName(c)
  PROVE  NamesInv'
<1> USE DamengAssumption DEF DamengAssumption
<1>1. /\ pc[c] = "entered" /\ pc' = [pc EXCEPT ![c] = "named"]
      /\ registry' = registry /\ Places /\ name \in [Conns -> Names \cup {None}]
  BY DEF TakeName, Goto, NamesInv, NamesKept
<1>2. Places' BY <1>1 DEF Places, Labels, Quiet, Early
<1>3. name[c] = None BY <1>1 DEF NamesInv, NamesKept, Holding, Bound
<1>4. PICK n \in Names :
        /\ name' = [name EXCEPT ![c] = n]
        /\ \/ n \in free /\ free' = free \ {n} /\ issued' = issued
           \/ n \notin issued /\ free = {} /\ free' = free /\ issued' = issued \cup {n}
  BY DEF TakeName, NamesInv, NamesKept
<1>5. \A d \in Conns : /\ name'[d] = IF d = c THEN n ELSE name[d]
                       /\ pc'[d] = IF d = c THEN "named" ELSE pc[d]
  BY <1>1, <1>4 DEF Places
<1>6. \A d \in Conns : name[d] # n
  BY <1>4, <1>3 DEF NamesInv, NamesKept
<1>7. NamesKept'
  <2>1. name' \in [Conns -> Names \cup {None}] BY <1>1, <1>4
  <2>2. registry' \in [Names -> Conns \cup {None}] BY <1>1 DEF NamesInv, NamesKept
  <2>3. free' \subseteq issued' /\ issued' \subseteq Names BY <1>4 DEF NamesInv, NamesKept
  <2>4. \A d \in Conns : name'[d] # None <=> pc'[d] \in Holding
    BY <1>4, <1>5 DEF NamesInv, NamesKept, Holding
  <2>5. \A d \in Conns : name'[d] # None => name'[d] \in issued' \ free'
    BY <1>4, <1>5, <1>6 DEF NamesInv, NamesKept
  <2>6. \A d, e \in Conns : d # e /\ name'[d] # None => name'[d] # name'[e]
    BY <1>5, <1>6 DEF NamesInv, NamesKept
  <2>7. \A m \in issued' \ free' : \E d \in Conns : name'[d] = m
    BY <1>3, <1>4, <1>5 DEF NamesInv, NamesKept
  <2> QED BY <2>1, <2>2, <2>3, <2>4, <2>5, <2>6, <2>7 DEF NamesKept
<1>8. OwnDial' BY <1>1, <1>5 DEF NamesInv, OwnDial, Bound
<1>9. NamesCounted'
  <2>1. Taken' = Taken \cup {c} /\ c \notin Taken BY <1>3, <1>4, <1>5 DEF Taken
  <2>2. /\ IsFiniteSet(Taken) /\ IsFiniteSet(issued) /\ peak \in Nat
        /\ Cardinality(Taken) <= peak /\ Cardinality(issued) <= peak
    BY DEF NamesInv, NamesCounted
  <2>3. Cardinality(Taken) \in Nat /\ Cardinality(issued) \in Nat
    BY <2>2, FS_CardinalityType
  <2>4. IsFiniteSet(Taken') /\ Cardinality(Taken') = Cardinality(Taken) + 1
    BY <2>1, <2>2, FS_AddElement
  <2>5. peak' = IF Cardinality(Taken) + 1 > peak THEN Cardinality(Taken) + 1 ELSE peak
    BY DEF TakeName
  <2>6. peak' \in Nat /\ peak' >= peak /\ peak' >= Cardinality(Taken) + 1
    BY <2>2, <2>3, <2>5
  <2>7. CASE issued' = issued
    BY <2>2, <2>3, <2>4, <2>6, <2>7 DEF NamesCounted
  <2>8. CASE free = {} /\ n \notin issued /\ issued' = issued \cup {n}
    <3> DEFINE f == [d \in Taken |-> name[d]]
    <3>1. \A m \in issued : \E d \in Taken : name[d] = m
      <4> SUFFICES ASSUME NEW m \in issued PROVE \E d \in Taken : name[d] = m
          OBVIOUS
      <4>1. m # None /\ \E d \in Conns : name[d] = m
        BY <2>8 DEF NamesInv, NamesKept
      <4> QED BY <4>1 DEF Taken
    <3>2. \A d \in Taken : name[d] \in issued BY DEF Taken, NamesInv, NamesKept
    <3>3. f \in Surjection(Taken, issued) BY <3>1, <3>2 DEF Surjection
    <3>4. Cardinality(issued) <= Cardinality(Taken) BY <2>2, <3>3, FS_Surjection
    <3>5. IsFiniteSet(issued') /\ Cardinality(issued') = Cardinality(issued) + 1
      BY <2>2, <2>8, FS_AddElement
    <3> QED BY <2>3, <2>4, <2>6, <3>4, <3>5 DEF NamesCounted
  <2> QED BY <1>4, <2>7, <2>8
<1> QED BY <1>2, <1>7, <1>8, <1>9 DEF NamesInv

LEMMA RegistryNames ==
  ASSUME NamesInv, NEW c \in Conns, RegisterDial(c) \/ Unregister(c)
  PROVE  NamesInv'
<1> USE DamengAssumption DEF DamengAssumption
<1>1. /\ UNCHANGED <<issued, free, name, peak>> /\ Places
      /\ registry \in [Names -> Conns \cup {None}]
      /\ name \in [Conns -> Names \cup {None}]
  BY DEF RegisterDial, Unregister, NamesInv, NamesKept
<1>2. PICK label \in Labels, v \in {c, None} :
        /\ pc' = [pc EXCEPT ![c] = label]
        /\ registry' = [registry EXCEPT ![name[c]] = v]
        /\ \/ pc[c] = "named" /\ label = "registered" /\ v = c
           \/ pc[c] = "unregister" /\ label = "freeing"
  BY DEF RegisterDial, Unregister, Goto, Labels, Quiet, Early
<1>3. pc[c] \in Holding /\ name[c] \in Names
  BY <1>2 DEF NamesInv, NamesKept, Holding, Bound
<1>4. Places' BY <1>1, <1>2 DEF Places, Labels, Quiet, Early
<1>5. \A d \in Conns : pc'[d] = IF d = c THEN label ELSE pc[d]
  BY <1>1, <1>2 DEF Places
<1>6. NamesKept'
  <2>1. registry' \in [Names -> Conns \cup {None}] BY <1>1, <1>2
  <2>2. \A d \in Conns : name'[d] # None <=> pc'[d] \in Holding
    BY <1>1, <1>2, <1>5 DEF NamesInv, NamesKept, Holding, Bound
  <2> QED BY <1>1, <2>1, <2>2 DEF NamesInv, NamesKept
<1>7. OwnDial'
  <2> SUFFICES ASSUME NEW d \in Conns, pc'[d] \in Bound PROVE registry'[name'[d]] = d
      BY DEF OwnDial
  <2>1. name'[d] = name[d] BY <1>1
  <2>2. CASE d = c BY <1>1, <1>2, <1>3, <1>5, <2>1, <2>2 DEF Bound
  <2>3. CASE d # c
    <3>1. pc[d] \in Bound BY <1>5, <2>3
    <3>2. name[d] \in Names /\ name[d] # None /\ registry[name[d]] = d
      BY <1>1, <3>1 DEF NamesInv, NamesKept, OwnDial, Holding
    <3>3. name[d] # name[c] BY <2>3, <3>2 DEF NamesInv, NamesKept
    <3> QED BY <1>1, <1>2, <2>1, <3>2, <3>3
  <2> QED BY <2>2, <2>3
<1>8. NamesCounted'
  <2>1. Taken' = Taken BY <1>1 DEF Taken
  <2> QED BY <1>1, <2>1 DEF NamesInv, NamesCounted
<1> QED BY <1>4, <1>6, <1>7, <1>8 DEF NamesInv

LEMMA FreeNameNames ==
  ASSUME NamesInv, NEW c \in Conns, FreeName(c)
  PROVE  NamesInv'
<1> USE DamengAssumption DEF DamengAssumption
<1>1. /\ UNCHANGED <<issued, registry, peak>> /\ Places
      /\ free' = free \cup {name[c]} /\ name' = [name EXCEPT ![c] = None]
      /\ name \in [Conns -> Names \cup {None}]
  BY DEF FreeName, NamesInv, NamesKept
<1>2. PICK label \in {"closed", "failed"} : pc' = [pc EXCEPT ![c] = label]
  BY DEF FreeName, Goto
<1>3. name[c] # None /\ name[c] \in issued \ free
  BY DEF FreeName, NamesInv, NamesKept, Holding
<1>4. Places' BY <1>1, <1>2 DEF Places, Labels, Quiet, Early
<1>5. \A d \in Conns : /\ name'[d] = IF d = c THEN None ELSE name[d]
                       /\ pc'[d] = IF d = c THEN label ELSE pc[d]
  BY <1>1, <1>2 DEF Places
<1>6. NamesKept'
  <2>1. name' \in [Conns -> Names \cup {None}] BY <1>1
  <2>2. registry' \in [Names -> Conns \cup {None}] BY <1>1 DEF NamesInv, NamesKept
  <2>3. free' \subseteq issued' /\ issued' \subseteq Names BY <1>1, <1>3 DEF NamesInv, NamesKept
  <2>4. \A d \in Conns : name'[d] # None <=> pc'[d] \in Holding
    BY <1>5 DEF NamesInv, NamesKept, Holding, Bound
  <2>5. \A d \in Conns : name'[d] # None => name'[d] \in issued' \ free'
    BY <1>1, <1>3, <1>5 DEF NamesInv, NamesKept
  <2>6. \A d, e \in Conns : d # e /\ name'[d] # None => name'[d] # name'[e]
    BY <1>5 DEF NamesInv, NamesKept
  <2>7. \A m \in issued' \ free' : \E d \in Conns : name'[d] = m
    BY <1>1, <1>3, <1>5 DEF NamesInv, NamesKept
  <2> QED BY <2>1, <2>2, <2>3, <2>4, <2>5, <2>6, <2>7 DEF NamesKept
<1>7. OwnDial' BY <1>1, <1>2, <1>5 DEF NamesInv, OwnDial, Bound
<1>8. NamesCounted'
  <2>1. Taken' = Taken \ {c} BY <1>5 DEF Taken
  <2>2. /\ IsFiniteSet(Taken) /\ peak \in Nat /\ Cardinality(Taken) <= peak
    BY DEF NamesInv, NamesCounted
  <2>3. IsFiniteSet(Taken') /\ Cardinality(Taken') <= Cardinality(Taken)
    BY <2>1, <2>2, FS_Subset
  <2>4. Cardinality(Taken') \in Nat /\ Cardinality(Taken) \in Nat
    BY <2>2, <2>3, FS_CardinalityType
  <2> QED BY <1>1, <2>2, <2>3, <2>4 DEF NamesInv, NamesCounted
<1> QED BY <1>4, <1>6, <1>7, <1>8 DEF NamesInv

\* Every other step of a connection.
LEMMA OtherNames ==
  ASSUME NamesInv, NEW c \in Conns, Run(c) \/ Watchers(c) \/ Driver(c),
         ~TakeName(c), ~RegisterDial(c), ~Unregister(c), ~FreeName(c)
  PROVE  NamesInv'
<1>1. Places BY DEF NamesInv
<1>2. UNCHANGED <<issued, free, name, registry, peak>>
  BY DEF Run, Watchers, Driver, TakeGate, GateCanceled, CanceledInGate, Watch, EndConnect,
         ReturnConn, CallFails, EndCall, WatcherFires, WatcherCloses, StartConnect, OpenFails,
         BeginDial, DialFails, Install, DriverCloses, HandshakeDone, HandshakeFails,
         StartCall, Redial, CallAnswered, Close, Cancel, nameVars
<1>3. \/ pc' = pc
      \/ \E label \in Labels :
           /\ pc' = [pc EXCEPT ![c] = label]
           /\ label \in Holding <=> pc[c] \in Holding
           /\ label \in Bound => pc[c] \in Bound
  <2>1. CASE Watchers(c) BY <2>1 DEF Watchers, WatcherFires, WatcherCloses
  <2>2. CASE Run(c)
    BY <2>2 DEF Run, TakeGate, GateCanceled, CanceledInGate, Watch, EndConnect,
         ReturnConn, CallFails, EndCall, Goto, Holding, Bound, Labels, Quiet, Early, Guarded
  <2>3. CASE Driver(c)
    BY <2>3 DEF Driver, StartConnect, OpenFails,
         BeginDial, DialFails, Install, DriverCloses, HandshakeDone, HandshakeFails,
         StartCall, Redial, CallAnswered, Close, Cancel, Goto, Holding, Bound, Labels, Quiet, Early, Guarded
  <2> QED BY <2>1, <2>2, <2>3
<1>4. Places' BY <1>1, <1>3 DEF Places
<1>5. \A d \in Conns : /\ pc'[d] \in Holding <=> pc[d] \in Holding
                       /\ pc'[d] \in Bound => pc[d] \in Bound
  BY <1>1, <1>3 DEF Places
<1> QED BY <1>2, <1>4, <1>5, NamesAlone

LEMMA NextNames ==
  ASSUME NamesInv, [Next]_vars PROVE NamesInv'
<1>1. ASSUME NEW c \in Conns, Run(c) \/ Watchers(c) \/ Driver(c) PROVE NamesInv'
  BY <1>1, TakeNameNames, RegistryNames, FreeNameNames, OtherNames
<1>2. CASE UNCHANGED vars
  <2>1. UNCHANGED <<pc, issued, free, name, registry, peak>> BY <1>2 DEF vars, nameVars
  <2>2. Places' BY <2>1 DEF NamesInv, Places
  <2> QED BY <2>1, <2>2, NamesAlone
<1> QED BY <1>1, <1>2 DEF Next

-----------------------------------------------------------------------------
(* Sockets.                                                                *)

\* A step that opens no socket, and after which a connection is quiet only if
\* it was or has none.
LEMMA SocketsClose ==
  ASSUME SocketsKept, UNCHANGED <<cur, dials>> \/ (cur' = cur /\ dials' \in [Conns -> Nat]),
         live' \in [Conns -> SUBSET Nat],
         \A d \in Conns : /\ live'[d] \subseteq live[d]
                          /\ pc'[d] \in Quiet => pc[d] \in Quiet \/ live'[d] = {}
  PROVE  SocketsKept'
BY DEF SocketsKept

LEMMA AbortSockets ==
  ASSUME SocketsKept, NEW c \in Conns, Abort(c)
  PROVE  /\ live' \in [Conns -> SUBSET Nat] /\ live'[c] = {}
         /\ \A d \in Conns : live'[d] \subseteq live[d]
BY DEF SocketsKept, Abort

LEMMA NextSockets ==
  ASSUME Places, SocketsKept, [Next]_vars PROVE SocketsKept'
<1>1. CASE UNCHANGED vars
  <2>1. UNCHANGED <<pc, cur, dials, live>> BY <1>1 DEF vars, socketVars
  <2> QED BY <2>1 DEF SocketsKept
<1>2. ASSUME NEW c \in Conns, Run(c) \/ Watchers(c) \/ Driver(c) PROVE SocketsKept'
  <2>1. CASE Watchers(c)
    <3>1. /\ UNCHANGED <<pc, cur, dials>>
          /\ live' = live \/ live' = [live EXCEPT ![c] = @ \ {cur[c]}]
      BY <2>1 DEF Watchers, WatcherFires, WatcherCloses
    <3> QED BY <3>1, SocketsClose DEF SocketsKept
  <2>2. CASE EndConnect(c)
    <3>1. UNCHANGED <<cur, dials>> BY <2>2 DEF EndConnect
    <3>2. CASE Abort(c) /\ Goto(c, "unregister")
      BY <3>1, <3>2, AbortSockets, SocketsClose DEF Goto, Places
    <3>3. CASE live' = live /\ Goto(c, "returning")
      BY <3>1, <3>3, SocketsClose DEF Goto, Places, SocketsKept, Quiet, Early
    <3> QED BY <2>2, <3>2, <3>3 DEF EndConnect
  <2>3. CASE EndCall(c)
    <3>1. UNCHANGED <<cur, dials>> /\ Goto(c, "open") BY <2>3 DEF EndCall
    <3>2. CASE Abort(c)
      BY <3>1, <3>2, AbortSockets, SocketsClose DEF Goto, Places
    <3>3. CASE live' = live
      BY <3>1, <3>3, SocketsClose DEF Goto, Places, SocketsKept, Quiet, Early
    <3> QED BY <2>3, <3>2, <3>3 DEF EndCall
  <2>4. CASE Close(c) \/ DriverCloses(c) \/ Redial(c)
    <3>1. Abort(c) /\ UNCHANGED <<cur, dials>> BY <2>4 DEF Close, DriverCloses, Redial
    <3>2. pc' = pc \/ Goto(c, "unregister") BY <2>4 DEF Close, DriverCloses, Redial
    <3> QED BY <3>1, <3>2, AbortSockets, SocketsClose DEF Goto, Places
  <2>5. CASE BeginDial(c)
    <3>1. /\ UNCHANGED <<cur, live>> /\ dials' = [dials EXCEPT ![c] = @ + 1]
          /\ Goto(c, "dialing")
      BY <2>5 DEF BeginDial
    <3> QED BY <3>1, SocketsClose DEF Goto, Places, SocketsKept, Quiet, Early
  <2>6. CASE Install(c)
    <3>1. /\ cur' = [cur EXCEPT ![c] = dials[c]] /\ dials' = dials
          /\ live' = [live EXCEPT ![c] = (@ \ {cur[c]}) \cup (IF invalid[c] THEN {} ELSE {dials[c]})]
          /\ pc' = [pc EXCEPT ![c] = "handshake"]
      BY <2>6 DEF Install, Goto
    <3>2. live' \in [Conns -> SUBSET Nat] /\ cur' \in [Conns -> Nat]
      BY <3>1 DEF SocketsKept
    <3>3. \A d \in Conns : live'[d] \subseteq {cur'[d]} BY <3>1 DEF SocketsKept
    <3>4. \A d \in Conns : pc'[d] \in Quiet => live'[d] = {}
      BY <3>1 DEF SocketsKept, Places, Quiet, Early
    <3> QED BY <3>1, <3>2, <3>3, <3>4 DEF SocketsKept
  <2>7. CASE UNCHANGED <<cur, dials, live>> /\ (Run(c) \/ Driver(c)) /\ ~EndConnect(c)
              /\ ~EndCall(c) /\ ~Close(c) /\ ~DriverCloses(c) /\ ~Redial(c)
              /\ ~BeginDial(c) /\ ~Install(c)
    <3>1. pc' = pc \/ \E label \in Labels :
            /\ pc' = [pc EXCEPT ![c] = label]
            /\ label \in Quiet => pc[c] \in Quiet
      <4>1. CASE Run(c)
        BY <2>7, <4>1 DEF Run, TakeGate, GateCanceled, CanceledInGate, TakeName, RegisterDial,
             Unregister, FreeName, Watch, ReturnConn, CallFails, Goto, Labels, Quiet, Early,
             Guarded
      <4>2. CASE Driver(c)
        BY <2>7, <4>2 DEF Driver, StartConnect, OpenFails, DialFails, HandshakeDone,
             HandshakeFails, StartCall, CallAnswered, Cancel, Goto, Labels, Quiet, Early,
             Guarded
      <4> QED BY <2>7, <4>1, <4>2
    <3>2. \A d \in Conns : pc'[d] \in Quiet => pc[d] \in Quiet BY <3>1 DEF Places
    <3>3. UNCHANGED <<cur, dials, live>> BY <2>7
    <3> QED BY <3>2, <3>3 DEF SocketsKept
  <2>8. (Run(c) \/ Driver(c)) /\ ~EndConnect(c) /\ ~EndCall(c) /\ ~Close(c)
          /\ ~DriverCloses(c) /\ ~Redial(c) /\ ~BeginDial(c) /\ ~Install(c)
          => UNCHANGED <<cur, dials, live>>
    BY DEF Run, Driver, TakeGate, GateCanceled, CanceledInGate, TakeName, RegisterDial,
         Unregister, FreeName, Watch, ReturnConn, CallFails, StartConnect, OpenFails,
         DialFails, HandshakeDone, HandshakeFails, StartCall, CallAnswered, Cancel, socketVars
  <2> QED BY <1>2, <2>1, <2>2, <2>3, <2>4, <2>5, <2>6, <2>7, <2>8
<1> QED BY <1>1, <1>2 DEF Next

-----------------------------------------------------------------------------
(* Watchers.                                                               *)

\* A step that arms no watcher and starts no call, and moves a connection from
\* a guarded place only to another one, or to one without an armed watcher.
LEMMA WatchersAlone ==
  ASSUME Places, WatchersKept, NEW c \in Conns, call' = call,
         watcher' \in [Conns -> [Contexts -> States]], invalid' \in [Conns -> BOOLEAN],
         \A d \in Conns, k \in Contexts : watcher'[d][k] = "armed" => watcher[d][k] = "armed",
         \A d \in Conns : d # c => pc'[d] = pc[d],
         pc'[c] \in Early => pc[c] \in Early,
         pc[c] \in Guarded => \/ pc'[c] \in Guarded
                              \/ \A k \in Contexts : watcher'[c][k] # "armed"
  PROVE  WatchersKept'
BY DEF WatchersKept

LEMMA NextWatchers ==
  ASSUME Places, WatchersKept, [Next]_vars PROVE WatchersKept'
<1>1. CASE UNCHANGED vars
  <2>1. UNCHANGED <<pc, invalid, call, watcher>> BY <1>1 DEF vars, socketVars
  <2> QED BY <2>1 DEF WatchersKept
<1>2. ASSUME NEW c \in Conns, Run(c) \/ Watchers(c) \/ Driver(c) PROVE WatchersKept'
  <2> USE DamengAssumption DEF DamengAssumption
  <2>1. CASE Watchers(c)
    <3>1. PICK k \in Contexts, s \in {"firing", "done"} :
            /\ watcher' = [watcher EXCEPT ![c][k] = s] /\ UNCHANGED <<pc, call>>
            /\ invalid' = invalid \/ invalid' = [invalid EXCEPT ![c] = TRUE]
      BY <2>1 DEF Watchers, WatcherFires, WatcherCloses
    <3>2. watcher' \in [Conns -> [Contexts -> States]] /\ invalid' \in [Conns -> BOOLEAN]
      BY <3>1 DEF WatchersKept, States
    <3>3. \A d \in Conns, j \in Contexts : watcher'[d][j] = "armed" => watcher[d][j] = "armed"
      BY <3>1 DEF WatchersKept
    <3> QED BY <3>1, <3>2, <3>3, WatchersAlone
  <2>2. CASE EndConnect(c) \/ EndCall(c)
    <3>1. /\ watcher' = [watcher EXCEPT ![c][call[c]] = "done"] /\ call' = call
          /\ invalid' = invalid \/ invalid' = [invalid EXCEPT ![c] = TRUE]
          /\ \E label \in {"unregister", "returning", "open"} : pc' = [pc EXCEPT ![c] = label]
      BY <2>2 DEF EndConnect, EndCall, StopWatcher, Abort, Goto
    <3>2. watcher' \in [Conns -> [Contexts -> States]] /\ invalid' \in [Conns -> BOOLEAN]
      BY <3>1 DEF WatchersKept, States
    <3>3. \A d \in Conns, j \in Contexts : watcher'[d][j] = "armed" => watcher[d][j] = "armed"
      BY <3>1 DEF WatchersKept
    <3>4. \A k \in Contexts : watcher'[c][k] # "armed"
      BY <3>1 DEF WatchersKept
    <3>5. pc'[c] \notin Early /\ \A d \in Conns : d # c => pc'[d] = pc[d]
      BY <3>1 DEF Places, Early
    <3> QED BY <3>1, <3>2, <3>3, <3>4, <3>5, WatchersAlone
  <2>3. CASE Watch(c)
    <3>1. /\ pc[c] = "registered" /\ pc' = [pc EXCEPT ![c] = "handshake"]
          /\ watcher' = [watcher EXCEPT ![c][0] = "armed"] /\ UNCHANGED <<call, invalid>>
          /\ 0 \in Contexts
      BY <2>3 DEF Watch, Arm, Goto, socketVars, Contexts
    <3>2. watcher' \in [Conns -> [Contexts -> States]] BY <3>1 DEF WatchersKept, States
    <3>3. call[c] = 0 BY <3>1 DEF WatchersKept, Early
    <3>4. \A d \in Conns : pc'[d] \in Early => call[d] = 0
      BY <3>1 DEF WatchersKept, Places, Early
    <3>5. ASSUME NEW d \in Conns, NEW k \in Contexts, watcher'[d][k] = "armed"
          PROVE  pc'[d] \in Guarded /\ k = call[d]
      <4>1. CASE d = c
        BY <3>1, <3>3, <3>5, <4>1 DEF WatchersKept, Places, Guarded
      <4>2. CASE d # c BY <3>1, <3>5, <4>2 DEF WatchersKept, Places
      <4> QED BY <4>1, <4>2
    <3> QED BY <3>1, <3>2, <3>4, <3>5 DEF WatchersKept
  <2>4. CASE StartCall(c)
    <3>1. /\ pc[c] = "open" /\ pc' = [pc EXCEPT ![c] = "calling"]
          /\ call[c] < MaxCalls /\ call' = [call EXCEPT ![c] = @ + 1]
          /\ watcher' = [watcher EXCEPT ![c][call[c] + 1] = "armed"] /\ invalid' = invalid
      BY <2>4 DEF StartCall, Arm, Goto, socketVars
    <3>2. call[c] + 1 \in Contexts /\ call' \in [Conns -> Contexts]
      BY <3>1 DEF WatchersKept, Contexts
    <3>3. watcher' \in [Conns -> [Contexts -> States]] BY <3>1 DEF WatchersKept, States
    <3>4. \A d \in Conns : pc'[d] \in Early => call'[d] = 0
      BY <3>1 DEF WatchersKept, Places, Early
    <3>5. ASSUME NEW d \in Conns, NEW k \in Contexts, watcher'[d][k] = "armed"
          PROVE  pc'[d] \in Guarded /\ k = call'[d]
      <4>1. CASE d = c
        BY <3>1, <3>2, <3>5, <4>1 DEF WatchersKept, Places, Guarded
      <4>2. CASE d # c BY <3>1, <3>5, <4>2 DEF WatchersKept, Places
      <4> QED BY <4>1, <4>2
    <3> QED BY <3>1, <3>2, <3>3, <3>4, <3>5 DEF WatchersKept
  <2>5. CASE /\ Run(c) \/ Driver(c)
             /\ ~EndConnect(c) /\ ~EndCall(c) /\ ~Watch(c) /\ ~StartCall(c)
    <3>1. UNCHANGED <<watcher, call>>
      BY <2>5 DEF Run, Driver, TakeGate, GateCanceled, CanceledInGate, TakeName, RegisterDial,
         Unregister, FreeName, ReturnConn, CallFails, StartConnect, OpenFails, BeginDial,
         DialFails, Install, DriverCloses, HandshakeDone, HandshakeFails, Redial,
         CallAnswered, Close, Cancel
    <3>2. \/ invalid' = invalid
          \/ \E b \in BOOLEAN : invalid' = [invalid EXCEPT ![c] = b]
      <4>1. CASE Install(c)
        <5>1. invalid' = [invalid EXCEPT ![c] = invalid[c] \/ cur[c] # 0]
          BY <4>1 DEF Install
        <5> QED BY <5>1 DEF WatchersKept
      <4>2. CASE ~Install(c)
        BY <2>5, <4>2 DEF Run, Driver, TakeGate, GateCanceled, CanceledInGate, TakeName,
         RegisterDial, Unregister, FreeName, ReturnConn, CallFails, StartConnect, OpenFails,
         BeginDial, DialFails, DriverCloses, HandshakeDone, HandshakeFails, Redial,
         CallAnswered, Close, Cancel, Abort, socketVars
      <4> QED BY <4>1, <4>2
    <3>3. invalid' \in [Conns -> BOOLEAN] BY <3>2 DEF WatchersKept
    <3>4. pc' = pc \/ \E label \in Labels :
              /\ pc' = [pc EXCEPT ![c] = label]
              /\ label \in Early => pc[c] \in Early
              /\ pc[c] \in Guarded => label \in Guarded
      <4>1. CASE Run(c)
        BY <2>5, <4>1 DEF Run, TakeGate, GateCanceled, CanceledInGate, TakeName, RegisterDial,
             Unregister, FreeName, ReturnConn, CallFails, Goto, Labels, Quiet, Early, Guarded
      <4>2. CASE Driver(c)
        BY <2>5, <4>2 DEF Driver, StartConnect, OpenFails, BeginDial, DialFails, Install,
             DriverCloses, HandshakeDone, HandshakeFails, Redial, CallAnswered, Close, Cancel,
             Goto, Labels, Quiet, Early, Guarded
      <4> QED BY <2>5, <4>1, <4>2
    <3>5. /\ \A d \in Conns : d # c => pc'[d] = pc[d]
          /\ pc'[c] \in Early => pc[c] \in Early
          /\ pc[c] \in Guarded => pc'[c] \in Guarded
      BY <3>4 DEF Places
    <3>6. /\ watcher' \in [Conns -> [Contexts -> States]]
          /\ \A d \in Conns, k \in Contexts : watcher'[d][k] = "armed" => watcher[d][k] = "armed"
      BY <3>1 DEF WatchersKept
    <3> QED BY <3>1, <3>3, <3>5, <3>6, WatchersAlone
  <2> QED BY <1>2, <2>1, <2>2, <2>3, <2>4, <2>5
<1> QED BY <1>1, <1>2 DEF Next

-----------------------------------------------------------------------------
LEMMA NextInv == IInv /\ [Next]_vars => IInv'
<1> SUFFICES ASSUME IInv, [Next]_vars PROVE IInv'
    OBVIOUS
<1>1. NamesInv' BY NextNames DEF IInv, NamesInv
<1>2. SocketsKept' /\ WatchersKept' BY NextSockets, NextWatchers DEF IInv
<1> QED BY <1>1, <1>2 DEF IInv, NamesInv

LEMMA Invariance == Spec => []IInv
BY InitInv, NextInv, PTL DEF Spec

\* A name reaches the dial function of the connection that has it, for any
\* number of connections that use the names of others again.
THEOREM NamesReachTheirOwn == Spec => []OwnDial
<1>1. IInv => OwnDial BY DEF IInv
<1> QED BY <1>1, Invariance, PTL

\* The registry has no more names than connections ever had one at a time.
THEOREM NamesAreBounded == Spec => []NamesBounded
<1>1. IInv => NamesBounded BY DEF IInv, NamesCounted, NamesBounded
<1> QED BY <1>1, Invariance, PTL

\* However often the driver dials and whenever contexts are canceled, what is
\* closed or has failed has no open socket, and nothing has two.
THEOREM SocketsAreClosed == Spec => []NoSocketLeft
<1>1. IInv => NoSocketLeft BY DEF IInv, SocketsKept, NoSocketLeft, Quiet
<1> QED BY <1>1, Invariance, PTL

\* No context invalidates a connection that is not in a call.
THEOREM IdleIsNotInvalidated == Spec => IdleStaysValid
<1>1. IInv /\ [Next]_vars =>
        [\A c \in Conns : pc[c] = "open" /\ invalid'[c] # invalid[c] => pc'[c] # "open"]_vars
  <2> SUFFICES ASSUME IInv, Next, NEW c \in Conns, pc[c] = "open", invalid'[c] # invalid[c],
                      pc'[c] = "open"
               PROVE FALSE
      BY DEF vars
  <2>1. /\ pc \in [Conns -> Labels] /\ invalid \in [Conns -> BOOLEAN]
        /\ \A k \in Contexts : watcher[c][k] # "armed"
    BY DEF IInv, Places, WatchersKept, Guarded
  <2>2. PICK d \in Conns : Run(d) \/ Watchers(d) \/ Driver(d) BY DEF Next
  <2>3. d = c
    <3>1. invalid' = invalid \/ \E b : invalid' = [invalid EXCEPT ![d] = b]
      BY <2>2 DEF Run, Watchers, Driver, TakeGate, GateCanceled, CanceledInGate, TakeName,
         RegisterDial, Unregister, FreeName, Watch, EndConnect, ReturnConn, CallFails, EndCall,
         WatcherFires, WatcherCloses, StartConnect, OpenFails, BeginDial, DialFails, Install,
         DriverCloses, HandshakeDone, HandshakeFails, StartCall, Redial, CallAnswered, Close,
         Cancel, Abort, socketVars
    <3> QED BY <2>1, <3>1
  <2>4. ~Watchers(c)
    BY <2>1 DEF Watchers, WatcherFires, WatcherCloses
  <2>5. CASE Run(c)
    BY <2>5 DEF Run, TakeGate, GateCanceled, CanceledInGate, TakeName,
         RegisterDial, Unregister, FreeName, Watch, EndConnect, ReturnConn, CallFails, EndCall
  <2>6. CASE Driver(c)
    <3>1. Close(c)
      BY <2>6 DEF Driver, StartConnect, OpenFails, BeginDial, DialFails, Install,
         DriverCloses, HandshakeDone, HandshakeFails, StartCall, Redial, CallAnswered,
         Cancel, socketVars
    <3> QED BY <2>1, <3>1 DEF Close, Goto
  <2> QED BY <2>2, <2>3, <2>4, <2>5, <2>6
<1> QED BY <1>1, Invariance, PTL DEF Spec, IdleStaysValid
=============================================================================
