--------------------------- MODULE ConnKernelProofs ---------------------------
(***************************************************************************)
(* Theorems about ConnKernel for every set of connections, users, rooms    *)
(* and administrators and for both connection policies.                    *)
(***************************************************************************)
EXTENDS ConnKernel, FiniteSetTheorems, TLAPS

\* The goroutines of a connection are distinct actors.
LEMMA ActorFacts ==
  /\ \A c \in Clients : H(c) \in Actors /\ R(c) \in Actors /\ W(c) \in Actors
  /\ \A i \in Admins : <<"a", i>> \in Actors
  /\ \A a \in Actors : a[1] \in {"h", "r", "w", "a"}
  /\ \A c, d \in Clients : H(c) # R(d) /\ H(c) # W(d) /\ R(c) # W(d)
  /\ \A c, d \in Clients : (H(c) = H(d) => c = d) /\ (R(c) = R(d) => c = d)
                               /\ (W(c) = W(d) => c = d)
  /\ \A c \in Clients : H(c)[1] = "h" /\ R(c)[1] = "r" /\ W(c)[1] = "w"
  BY DEF Actors, H, R, W

\* The labels control reaches from a removal and from a Close.
LEMMA ReturnLabels ==
  ASSUME NEW a \in Actors
  PROVE  AfterRemove(a) \in {"connClose", "closeStore"} /\ AfterClose(a) \in {"run", "each"}
  BY DEF AfterRemove, AfterClose

\* Every Close has a code.
LEMMA CloseCodeType ==
  ASSUME NEW a \in Actors
  PROVE  CloseCode(a) \in Codes
  BY DEF CloseCode, Codes

-----------------------------------------------------------------------------
(* Type correctness *)

\* The initial state is well typed.
LEMMA TypeInit == Init => TypeOK
<1> SUFFICES ASSUME Init PROVE TypeOK
  OBVIOUS
<1>1. cancelled \in [Clients -> BOOLEAN] /\ sock \in [Clients -> BOOLEAN] /\ shutdown \in BOOLEAN
  BY Zenon DEF Init
<1>2. \A a \in Actors : pc[a] = "idle"
  BY Zenon DEF Init
<1>3. pc \in [Actors -> Labels] /\ tgt \in [Actors -> Clients \cup {NoClient}]
      /\ todo \in [Actors -> SUBSET Clients]
  BY DEF Init, Labels
<1>4. member \in [Clients -> Nat] /\ once \in [Clients -> {"new", "busy", "done"}]
      /\ closeInfo \in [Clients -> Codes \cup {NoCode}]
      /\ sent \in [Clients -> Codes \cup {GoingAway, NoCode}]
      /\ prior \in [Clients -> SUBSET Clients]
  BY DEF Init
<1> QED BY <1>1, <1>2, <1>3, <1>4 DEF Init, TypeOK

\* AddClient keeps the types.
LEMMA TypeAddClient ==
  ASSUME TypeOK, NEW c \in Clients, AddClientBegin(c) \/ AddClientStep(c)
  PROVE  TypeOK'
<1> USE ActorFacts DEF TypeOK, Labels, Goto
<1>1. CASE AddClientBegin(c)
  <2>1. UserConnections(c) \subseteq Clients /\ {x \in SameUser(c) : AddReturned(x)} \subseteq Clients
    BY DEF UserConnections, SameUser
  <2>2. todo' \in [Actors -> SUBSET Clients] /\ prior' \in [Clients -> SUBSET Clients]
    <3>1. CASE ConnectionPolicy = "single"
      <4>1. /\ todo' = [todo EXCEPT ![H(c)] = UserConnections(c)]
            /\ prior' = [prior EXCEPT ![c] = {x \in SameUser(c) : AddReturned(x)}]
        BY <1>1, <3>1 DEF AddClientBegin
      <4> QED BY <4>1, <2>1
    <3>2. CASE ConnectionPolicy # "single"
      BY <1>1, <3>2 DEF AddClientBegin
    <3> QED BY <3>1, <3>2
  <2> QED BY <1>1, <2>2 DEF AddClientBegin, indexVars, closeVars, wireVars
<1>2. CASE ConnManAdd(c)
  BY <1>2 DEF ConnManAdd, closeVars, wireVars
<1>3. CASE SessionsAdd(c)
  BY <1>3 DEF SessionsAdd, closeVars, wireVars
<1>4. CASE SubscribeChan(c)
  BY <1>4 DEF SubscribeChan, closeVars, wireVars
<1>5. CASE SubscribeMember(c)
  BY <1>5 DEF SubscribeMember, closeVars, wireVars
<1>6. CASE SpawnPumps(c)
  BY <1>6 DEF SpawnPumps, indexVars, closeVars, wireVars
<1> QED BY <1>1, <1>2, <1>3, <1>4, <1>5, <1>6 DEF AddClientStep

\* RemoveClient keeps the types.
LEMMA TypeRemoveClient ==
  ASSUME TypeOK, NEW a \in Actors, RemoveClientStep(a)
  PROVE  TypeOK'
<1> USE ActorFacts, ReturnLabels DEF TypeOK, Labels, Goto
<1>1. CASE ConnManRemove(a)
  <2>1. conns' \in SUBSET Clients /\ connCount' \in Int
    BY <1>1 DEF ConnManRemove
  <2>2. PICK l \in {"rmSess", "connClose", "closeStore"} : pc' = [pc EXCEPT ![a] = l]
    BY <1>1 DEF ConnManRemove
  <2>3. tgt[a] \in Clients
    BY <1>1 DEF ConnManRemove
  <2>4. UNCHANGED <<sess, userCount, deviceCount, chans, channelCount, member, tgt, todo,
                    once, closeInfo, cancelled, sock, sent, shutdown, prior>>
    BY <1>1 DEF ConnManRemove, closeVars, wireVars
  <2> QED BY <2>1, <2>2, <2>3, <2>4
<1>2. CASE SessionsRemove(a)
  BY <1>2 DEF SessionsRemove, Uncount, closeVars, wireVars
<1>3. CASE RemoveConnSnapshot(a)
  BY <1>3 DEF RemoveConnSnapshot, indexVars, closeVars, wireVars
<1>4. CASE UnsubscribeChan(a)
  BY <1>4 DEF UnsubscribeChan, Uncount, closeVars, wireVars
<1>5. CASE UnsubscribeMember(a)
  BY <1>5 DEF UnsubscribeMember, MemberAfterUnsubscribe, closeVars, wireVars
<1> QED BY <1>1, <1>2, <1>3, <1>4, <1>5 DEF RemoveClientStep

\* Close, and the loops over a snapshot, keep the types.
LEMMA TypeCloseAndLoop ==
  ASSUME TypeOK, NEW a \in Actors, CloseStep(a) \/ LoopStep(a)
  PROVE  TypeOK'
<1> USE ActorFacts, ReturnLabels, CloseCodeType DEF TypeOK, Labels, Goto
<1>1. CASE CloseStore(a)
  BY <1>1 DEF CloseStore, indexVars, wireVars
<1>2. CASE CloseCancel(a)
  BY <1>2 DEF CloseCancel, indexVars, wireVars
<1>3. CASE CloseAgain(a)
  BY <1>3 DEF CloseAgain, indexVars, closeVars, wireVars
<1>4. CASE EachNext(a)
  BY <1>4 DEF EachNext, indexVars, closeVars, wireVars
<1>5. CASE EachDone(a)
  BY <1>5 DEF EachDone, indexVars, closeVars, wireVars
<1> QED BY <1>1, <1>2, <1>3, <1>4, <1>5 DEF CloseStep, LoopStep

\* CloseRoom and KickClient keep the types.
LEMMA TypeAdmin ==
  ASSUME TypeOK, NEW i \in Admins, NEW r \in Rooms,
         CloseRoom(i, r) \/ \E u \in Users : KickClient(i, r, u)
  PROVE  TypeOK'
<1> USE ActorFacts DEF TypeOK, Labels, Goto
<1>1. CASE CloseRoom(i, r)
  BY <1>1 DEF CloseRoom, indexVars, closeVars, wireVars
<1>2. ASSUME NEW u \in Users, KickClient(i, r, u) PROVE TypeOK'
  BY <1>2 DEF KickClient, indexVars, closeVars, wireVars
<1> QED BY <1>1, <1>2

\* The pumps keep the types.
LEMMA TypePumps ==
  ASSUME TypeOK, NEW c \in Clients,
         \/ ReadPumpReturn(c) \/ ReadPumpCloseConn(c) \/ ReadPumpCancel(c)
         \/ WritePumpCtxDone(c) \/ WritePumpWriteError(c) \/ WritePumpExpire(c)
         \/ WritePumpCloseConn(c)
  PROVE  TypeOK'
<1> USE ActorFacts DEF TypeOK, Labels, Goto
<1>1. CASE ReadPumpReturn(c)
  BY <1>1 DEF ReadPumpReturn, indexVars, closeVars, wireVars
<1>2. CASE ReadPumpCloseConn(c)
  BY <1>2 DEF ReadPumpCloseConn, indexVars, closeVars
<1>3. CASE ReadPumpCancel(c)
  BY <1>3 DEF ReadPumpCancel, indexVars, wireVars
<1>4. CASE WritePumpCtxDone(c)
  BY <1>4 DEF WritePumpCtxDone, indexVars, closeVars
<1>5. CASE WritePumpWriteError(c)
  BY <1>5 DEF WritePumpWriteError, indexVars, closeVars, wireVars
<1>6. CASE WritePumpExpire(c)
  BY <1>6 DEF WritePumpExpire, indexVars, closeVars, wireVars
<1>7. CASE WritePumpCloseConn(c)
  BY <1>7 DEF WritePumpCloseConn, indexVars, closeVars
<1> QED BY <1>1, <1>2, <1>3, <1>4, <1>5, <1>6, <1>7

\* The shutdown, which only sets its flag, keeps the types.
LEMMA TypeStutter ==
  ASSUME TypeOK, UNCHANGED vars \/ Shutdown
  PROVE  TypeOK'
<1>1. CASE UNCHANGED vars
  BY <1>1 DEF TypeOK, vars, indexVars, closeVars, wireVars
<1>2. CASE Shutdown
  BY <1>2 DEF TypeOK, Shutdown, indexVars, closeVars, wireVars
<1> QED BY <1>1, <1>2

\* Every step keeps the type invariant.
LEMMA TypeStep == TypeOK /\ [Next]_vars => TypeOK'
<1> SUFFICES ASSUME TypeOK, [Next]_vars PROVE TypeOK'
  OBVIOUS
<1> QED
  BY TypeAddClient, TypeRemoveClient, TypeCloseAndLoop, TypeAdmin, TypePumps, TypeStutter
     DEF Next, Terminated

\* Every reachable state of the connection kernel is well typed, and an actor
\* inside RemoveClient or Close has a connection in hand.
THEOREM TypeCorrect == Spec => []TypeOK
  BY TypeInit, TypeStep, PTL DEF Spec

-----------------------------------------------------------------------------
(* The counters *)

\* The keys under which an index holds the connections in S.
Keys(f, S) == {f[c] : c \in S}

\* The connections with the key of c.
Peers(f, c) == {x \in Clients : f[x] = f[c]}

\* A finite index has finitely many keys.
LEMMA KeysFinite ==
  ASSUME NEW f, NEW S \in SUBSET Clients
  PROVE  IsFiniteSet(S) /\ IsFiniteSet(Keys(f, S))
<1>1. IsFiniteSet(S)
  BY ClientsAssumption, FS_Subset
<1> DEFINE g == [c \in S |-> f[c]]
<1>2. g \in Surjection(S, Keys(f, S))
  BY DEF Surjection, Keys
<1> HIDE DEF g
<1> QED BY <1>1, <1>2, FS_Surjection

\* Adding a connection creates its key exactly when no peer is present.
LEMMA KeysAdd ==
  ASSUME NEW f, NEW S \in SUBSET Clients, NEW c \in Clients
  PROVE  Cardinality(Keys(f, S \cup {c})) =
           IF S \cap Peers(f, c) = {} THEN Cardinality(Keys(f, S)) + 1
                                      ELSE Cardinality(Keys(f, S))
<1>1. Keys(f, S \cup {c}) = Keys(f, S) \cup {f[c]}
  BY DEF Keys
<1>2. f[c] \in Keys(f, S) <=> S \cap Peers(f, c) # {}
  BY DEF Keys, Peers
<1>3. IsFiniteSet(Keys(f, S))
  BY KeysFinite
<1>4. Cardinality(Keys(f, S) \cup {f[c]}) =
        IF f[c] \in Keys(f, S) THEN Cardinality(Keys(f, S)) ELSE Cardinality(Keys(f, S)) + 1
  BY <1>3, FS_AddElement
<1> QED BY <1>1, <1>2, <1>4

\* Removing a connection deletes its key exactly when it was the last peer.
LEMMA KeysRemove ==
  ASSUME NEW f, NEW S \in SUBSET Clients, NEW c \in Clients
  PROVE  Cardinality(Keys(f, S \ {c})) = Uncount(Cardinality(Keys(f, S)), S, Peers(f, c), c)
<1>1. CASE S \cap Peers(f, c) = {c}
  <2>1. Keys(f, S \ {c}) = Keys(f, S) \ {f[c]} /\ f[c] \in Keys(f, S)
    BY <1>1 DEF Keys, Peers
  <2>2. IsFiniteSet(Keys(f, S))
    BY KeysFinite
  <2>3. Cardinality(Keys(f, S) \ {f[c]}) = Cardinality(Keys(f, S)) - 1
    BY <2>1, <2>2, FS_RemoveElement
  <2> QED BY <1>1, <2>1, <2>3 DEF Uncount
<1>2. CASE S \cap Peers(f, c) # {c}
  <2>1. Keys(f, S \ {c}) = Keys(f, S)
    <3>1. CASE c \notin S
      BY <3>1 DEF Keys
    <3>2. CASE c \in S
      <4>1. PICK d \in S : d # c /\ f[d] = f[c]
        BY <1>2, <3>2 DEF Peers
      <4> QED BY <4>1 DEF Keys
    <3> QED BY <3>1, <3>2
  <2> QED BY <1>2, <2>1 DEF Uncount
<1> QED BY <1>1, <1>2

\* The key of a connection in the device level of the session index.
DeviceKey == [c \in Clients |-> <<UID[c], DeviceID(c)>>]

\* The connections of one user, device or room are those that share its key.
LEMMA PeerSets ==
  ASSUME NEW c \in Clients
  PROVE  /\ SameUser(c) = Peers(UID, c)
         /\ SameDevice(c) = Peers(DeviceKey, c)
         /\ SameRoom(c) = Peers(RoomID, c)
  BY DEF SameUser, SameDevice, SameRoom, Peers, DeviceKey

\* The sets whose sizes the counters keep, as keys of the indexes.
LEMMA KeySets ==
  ASSUME NEW S \in SUBSET Clients
  PROVE  /\ Keys(UID, S) = {UID[c] : c \in S}
         /\ Keys(DeviceKey, S) = {<<UID[c], DeviceID(c)>> : c \in S}
         /\ Keys(RoomID, S) = {RoomID[c] : c \in S}
<1>1. \A c \in S : DeviceKey[c] = <<UID[c], DeviceID(c)>>
  BY DEF DeviceKey
<1> QED BY <1>1 DEF Keys

\* A step that leaves the indexes alone leaves their sizes alone.
LEMMA CountersUnchanged ==
  ASSUME CountersExact, UNCHANGED indexVars
  PROVE  CountersExact'
  BY DEF CountersExact, indexVars

\* Each index entry AddClient makes is counted.
LEMMA CountersAdd ==
  ASSUME TypeOK, TypeOK', CountersExact, NEW c \in Clients, AddClientBegin(c) \/ AddClientStep(c)
  PROVE  CountersExact'
<1>1. CASE ConnManAdd(c)
  <2>1. IsFiniteSet(conns)
    BY ClientsAssumption, FS_Subset DEF TypeOK
  <2>2. connCount' = Cardinality(conns')
    BY <1>1, <2>1, FS_AddElement DEF ConnManAdd, CountersExact
  <2> QED BY <1>1, <2>2 DEF ConnManAdd, CountersExact
<1>2. CASE SessionsAdd(c)
  <2>1. userCount' = Cardinality(Keys(UID, sess'))
    <3>1. userCount = Cardinality(Keys(UID, sess))
      BY KeySets DEF TypeOK, CountersExact
    <3>2. SameUser(c) = Peers(UID, c) /\ sess \in SUBSET Clients
      BY PeerSets DEF TypeOK
    <3>3. Cardinality(Keys(UID, sess \cup {c})) =
            IF sess \cap Peers(UID, c) = {} THEN Cardinality(Keys(UID, sess)) + 1
                                       ELSE Cardinality(Keys(UID, sess))
      BY <3>2, KeysAdd
    <3>4. userCount' = (IF sess \cap SameUser(c) = {} THEN userCount + 1 ELSE userCount) /\ sess' = sess \cup {c}
      BY <1>2 DEF SessionsAdd
    <3> QED BY <3>1, <3>2, <3>3, <3>4
  <2>2. deviceCount' = Cardinality(Keys(DeviceKey, sess'))
    <3>1. deviceCount = Cardinality(Keys(DeviceKey, sess))
      BY KeySets DEF TypeOK, CountersExact
    <3>2. SameDevice(c) = Peers(DeviceKey, c) /\ sess \in SUBSET Clients
      BY PeerSets DEF TypeOK
    <3>3. Cardinality(Keys(DeviceKey, sess \cup {c})) =
            IF sess \cap Peers(DeviceKey, c) = {} THEN Cardinality(Keys(DeviceKey, sess)) + 1
                                       ELSE Cardinality(Keys(DeviceKey, sess))
      BY <3>2, KeysAdd
    <3>4. deviceCount' = (IF sess \cap SameDevice(c) = {} THEN deviceCount + 1 ELSE deviceCount) /\ sess' = sess \cup {c}
      BY <1>2 DEF SessionsAdd
    <3> QED BY <3>1, <3>2, <3>3, <3>4
  <2>3. sess' \in SUBSET Clients
    BY DEF TypeOK
  <2> QED BY <1>2, <2>1, <2>2, <2>3, KeySets DEF SessionsAdd, CountersExact
<1>3. CASE SubscribeChan(c)
  <2>1. channelCount' = Cardinality(Keys(RoomID, chans'))
    <3>1. channelCount = Cardinality(Keys(RoomID, chans))
      BY KeySets DEF TypeOK, CountersExact
    <3>2. SameRoom(c) = Peers(RoomID, c) /\ chans \in SUBSET Clients
      BY PeerSets DEF TypeOK
    <3>3. Cardinality(Keys(RoomID, chans \cup {c})) =
            IF chans \cap Peers(RoomID, c) = {} THEN Cardinality(Keys(RoomID, chans)) + 1
                                       ELSE Cardinality(Keys(RoomID, chans))
      BY <3>2, KeysAdd
    <3>4. channelCount' = (IF chans \cap SameRoom(c) = {} THEN channelCount + 1 ELSE channelCount) /\ chans' = chans \cup {c}
      BY <1>3 DEF SubscribeChan
    <3> QED BY <3>1, <3>2, <3>3, <3>4
  <2>2. chans' \in SUBSET Clients
    BY DEF TypeOK
  <2> QED BY <1>3, <2>1, <2>2, KeySets DEF SubscribeChan, CountersExact
<1>4. CASE AddClientBegin(c) \/ SpawnPumps(c)
  BY <1>4, CountersUnchanged DEF AddClientBegin, SpawnPumps
<1>5. CASE SubscribeMember(c)
  BY <1>5 DEF SubscribeMember, CountersExact
<1> QED BY <1>1, <1>2, <1>3, <1>4, <1>5 DEF AddClientStep

\* Each index entry RemoveClient deletes is counted down.
LEMMA CountersRemove ==
  ASSUME TypeOK, TypeOK', CountersExact, NEW a \in Actors, RemoveClientStep(a)
  PROVE  CountersExact'
<1>1. CASE ConnManRemove(a)
  <2>1. IsFiniteSet(conns)
    BY ClientsAssumption, FS_Subset DEF TypeOK
  <2>2. connCount' = Cardinality(conns')
    BY <1>1, <2>1, FS_RemoveElement DEF ConnManRemove, CountersExact
  <2> QED BY <1>1, <2>2 DEF ConnManRemove, CountersExact
<1>2. CASE SessionsRemove(a)
  <2>1. tgt[a] \in Clients
    BY <1>2 DEF SessionsRemove, TypeOK
  <2>2. userCount' = Cardinality(Keys(UID, sess'))
    <3>1. userCount = Cardinality(Keys(UID, sess))
      BY KeySets DEF TypeOK, CountersExact
    <3>2. sess \in SUBSET Clients
      BY DEF TypeOK
    <3>3. SameUser(tgt[a]) = Peers(UID, tgt[a])
      BY <2>1, PeerSets
    <3>4. Cardinality(Keys(UID, sess \ {tgt[a]})) =
            Uncount(userCount, sess, SameUser(tgt[a]), tgt[a])
      BY <2>1, <3>1, <3>2, <3>3, KeysRemove
    <3> QED BY <1>2, <3>4 DEF SessionsRemove
  <2>3. deviceCount' = Cardinality(Keys(DeviceKey, sess'))
    <3>1. deviceCount = Cardinality(Keys(DeviceKey, sess))
      BY KeySets DEF TypeOK, CountersExact
    <3>2. sess \in SUBSET Clients
      BY DEF TypeOK
    <3>3. SameDevice(tgt[a]) = Peers(DeviceKey, tgt[a])
      BY <2>1, PeerSets
    <3>4. Cardinality(Keys(DeviceKey, sess \ {tgt[a]})) =
            Uncount(deviceCount, sess, SameDevice(tgt[a]), tgt[a])
      BY <2>1, <3>1, <3>2, <3>3, KeysRemove
    <3> QED BY <1>2, <3>4 DEF SessionsRemove
  <2>4. sess' \in SUBSET Clients
    BY DEF TypeOK
  <2> QED BY <1>2, <2>2, <2>3, <2>4, KeySets DEF SessionsRemove, CountersExact
<1>3. CASE UnsubscribeChan(a)
  <2>1. tgt[a] \in Clients
    BY <1>3 DEF UnsubscribeChan, TypeOK
  <2>2. channelCount' = Cardinality(Keys(RoomID, chans'))
    <3>1. channelCount = Cardinality(Keys(RoomID, chans))
      BY KeySets DEF TypeOK, CountersExact
    <3>2. chans \in SUBSET Clients
      BY DEF TypeOK
    <3>3. SameRoom(tgt[a]) = Peers(RoomID, tgt[a])
      BY <2>1, PeerSets
    <3>4. Cardinality(Keys(RoomID, chans \ {tgt[a]})) =
            Uncount(channelCount, chans, SameRoom(tgt[a]), tgt[a])
      BY <2>1, <3>1, <3>2, <3>3, KeysRemove
    <3> QED BY <1>3, <3>4 DEF UnsubscribeChan
  <2>3. chans' \in SUBSET Clients
    BY DEF TypeOK
  <2> QED BY <1>3, <2>2, <2>3, KeySets DEF UnsubscribeChan, CountersExact
<1>4. CASE RemoveConnSnapshot(a)
  BY <1>4, CountersUnchanged DEF RemoveConnSnapshot
<1>5. CASE UnsubscribeMember(a)
  BY <1>5 DEF UnsubscribeMember, CountersExact
<1> QED BY <1>1, <1>2, <1>3, <1>4, <1>5 DEF RemoveClientStep

\* Every step keeps the counters exact.
LEMMA CountersStep == TypeOK /\ TypeOK' /\ CountersExact /\ [Next]_vars => CountersExact'
<1> SUFFICES ASSUME TypeOK, TypeOK', CountersExact, [Next]_vars
             PROVE  CountersExact'
  OBVIOUS
<1>1. ASSUME NEW c \in Clients, AddClientBegin(c) \/ AddClientStep(c)
      PROVE  CountersExact'
  BY <1>1, CountersAdd
<1>2. ASSUME NEW a \in Actors, RemoveClientStep(a)
      PROVE  CountersExact'
  BY <1>2, CountersRemove
<1>3. ASSUME NEW a \in Actors, CloseStep(a) \/ LoopStep(a)
      PROVE  CountersExact'
  BY <1>3, CountersUnchanged
     DEF CloseStep, LoopStep, CloseStore, CloseCancel, CloseAgain, EachNext, EachDone
<1>4. ASSUME NEW i \in Admins, NEW r \in Rooms,
             CloseRoom(i, r) \/ \E u \in Users : KickClient(i, r, u)
      PROVE  CountersExact'
  BY <1>4, CountersUnchanged DEF CloseRoom, KickClient
<1>5. ASSUME NEW c \in Clients,
             \/ ReadPumpReturn(c) \/ ReadPumpCloseConn(c) \/ ReadPumpCancel(c)
             \/ WritePumpCtxDone(c) \/ WritePumpWriteError(c) \/ WritePumpExpire(c)
             \/ WritePumpCloseConn(c)
      PROVE  CountersExact'
  BY <1>5, CountersUnchanged
     DEF ReadPumpReturn, ReadPumpCloseConn, ReadPumpCancel, WritePumpCtxDone,
         WritePumpWriteError, WritePumpExpire, WritePumpCloseConn
<1>6. CASE UNCHANGED vars \/ Shutdown
  BY <1>6, CountersUnchanged DEF vars, Shutdown
<1> QED BY <1>1, <1>2, <1>3, <1>4, <1>5, <1>6 DEF Next, Terminated

\* The O(1) connection, user, device and room counters are exact in every
\* reachable state, however many goroutines add and remove connections.
THEOREM CountersCorrect == Spec => []CountersExact
<1>1. Init => CountersExact
  <2> SUFFICES ASSUME Init PROVE CountersExact
    OBVIOUS
  <2>1. {UID[c] : c \in {}} = {} /\ {<<UID[c], DeviceID(c)>> : c \in {}} = {}
        /\ {RoomID[c] : c \in {}} = {}
    OBVIOUS
  <2> QED BY <2>1, FS_EmptySet DEF Init, CountersExact
<1> QED BY <1>1, TypeCorrect, CountersStep, PTL DEF Spec

-----------------------------------------------------------------------------
(* No ghost sessions *)

\* AddClient publishes its connection before it indexes it.
LEMMA SessionAdd ==
  ASSUME TypeOK, SessionInv, NEW c \in Clients,
         AddClientBegin(c) \/ ConnManAdd(c) \/ SessionsAdd(c) \/ SubscribeChan(c) \/ SubscribeMember(c) \/ SpawnPumps(c)
  PROVE  SessionInv'
<1> USE ActorFacts DEF TypeOK, SessionInv, PumpControl, OnlyPublished, SessionFollowsRegistry,
        Published, RemoveLabels, Goto
<1>1. CASE AddClientBegin(c)
  <2>1. UNCHANGED <<conns, sess, chans, tgt>>
    BY <1>1 DEF AddClientBegin, indexVars
  <2>2. \A b \in Actors : b # H(c) => pc'[b] = pc[b] /\ todo'[b] = todo[b]
    BY <1>1 DEF AddClientBegin
  <2>3. pc[H(c)] = "idle" /\ pc'[H(c)] = "each" /\ todo'[H(c)] \subseteq sess \cup todo[H(c)]
    <3>1. UserConnections(c) \subseteq sess
      BY DEF UserConnections
    <3> QED BY <1>1, <3>1 DEF AddClientBegin
  <2>4. \A d \in Clients : Published(d) <=> Published(d)'
    BY <2>2, <2>3
  <2>5. PumpControl'
    BY <2>1, <2>2, <2>3
  <2>6. OnlyPublished'
    <3>1. \A b \in Actors : \A d \in todo'[b] : d \in Clients /\ Published(d)
      BY <2>2, <2>3
    <3> QED BY SMTT(30), <2>1, <2>2, <2>3, <2>4, <3>1
  <2>7. SessionFollowsRegistry'
    BY <2>1, <2>2, <2>3, <2>4
  <2> QED BY <2>5, <2>6, <2>7
<1>2. CASE ConnManAdd(c)
  <2>1. \A d \in Clients : Published(d) <=> Published(d)'
    BY <1>2 DEF ConnManAdd
  <2>2. PumpControl'
    BY <1>2 DEF ConnManAdd
  <2>3. OnlyPublished'
    BY <1>2 DEF ConnManAdd
  <2>4. SessionFollowsRegistry'
    <3>1. pc[R(c)] = "idle" /\ ~Published(c) /\ (\A b \in Actors : pc[b] = "rmSess" => tgt[b] # c)
      BY <1>2 DEF ConnManAdd
    <3>2. \A b \in Actors : b # H(c) => pc'[b] = pc[b]
      BY <1>2 DEF ConnManAdd
    <3>3. pc[H(c)] = "connAdd" /\ pc'[H(c)] = "sessAdd" /\ conns' = conns \cup {c}
          /\ sess' = sess /\ tgt' = tgt
      BY <1>2 DEF ConnManAdd
    <3>4. \A d \in Clients : pc'[H(d)] = "sessAdd" => d \in conns'
      BY <3>2, <3>3
    <3>5. \A d \in conns' : Published(d)' => d \in sess'
      BY <2>1, <3>1, <3>3
    <3>6. \A d \in sess' \ conns' : \E b \in Actors : tgt'[b] = d /\ pc'[b] = "rmSess"
      BY <3>2, <3>3
    <3>7. \A b \in Actors : pc'[b] = "rmSess" => tgt'[b] \notin conns'
      BY <3>1, <3>2, <3>3
    <3> QED BY <3>1, <3>2, <3>3, <3>4, <3>5, <3>6, <3>7
  <2> QED BY <2>2, <2>3, <2>4
<1>3. CASE SessionsAdd(c)
  <2>1. PumpControl'
    BY <1>3 DEF SessionsAdd, indexVars
  <2>2. OnlyPublished'
    BY <1>3 DEF SessionsAdd, indexVars
  <2>3. SessionFollowsRegistry'
    BY <1>3 DEF SessionsAdd, indexVars
  <2> QED BY <2>1, <2>2, <2>3
<1>4. CASE SubscribeChan(c)
  <2>1. PumpControl'
    BY <1>4 DEF SubscribeChan, indexVars
  <2>2. OnlyPublished'
    BY <1>4 DEF SubscribeChan, indexVars
  <2>3. SessionFollowsRegistry'
    BY <1>4 DEF SubscribeChan, indexVars
  <2> QED BY <2>1, <2>2, <2>3
<1>5. CASE SubscribeMember(c)
  BY <1>5 DEF SubscribeMember, indexVars
<1>6. CASE SpawnPumps(c)
  <2>0. /\ pc[R(c)] = "idle" /\ pc[W(c)] = "idle" /\ pc[H(c)] = "spawn"
        /\ \A b \in Actors : pc'[b] = IF b = H(c) THEN "done"
                                   ELSE IF b = R(c) \/ b = W(c) THEN "run" ELSE pc[b]
    BY <1>6 DEF SpawnPumps
  <2>1. UNCHANGED <<conns, sess, chans, tgt, todo>>
    BY <1>6 DEF SpawnPumps, indexVars
  <2>2. \A d \in Clients : /\ Published(d) <=> Published(d)'
                           /\ pc'[H(d)] = "sessAdd" <=> pc[H(d)] = "sessAdd"
    BY <2>0
  <2>3. \A b \in Actors : /\ pc'[b] \in RemoveLabels => pc[b] = pc'[b]
                          /\ pc[b] \in RemoveLabels => pc[b] = pc'[b]
    BY SMTT(30), <2>0
  <2>4. PumpControl'
    <3> SUFFICES ASSUME NEW d \in Clients
                 PROVE  /\ pc'[R(d)] \in RemoveLabels \cup {"idle", "run", "connClose", "cancel", "done"}
                        /\ pc'[W(d)] \in {"idle", "run", "closeStore", "closeCancel", "connClose", "done"}
                        /\ pc'[R(d)] # "idle" \/ pc'[W(d)] # "idle" => pc'[H(d)] = "done"
                        /\ pc'[R(d)] \in RemoveLabels => tgt'[R(d)] = d
      OBVIOUS
    <3>1. CASE d = c
      BY <2>0, <2>1, <3>1
    <3>2. CASE d # c
      <4>1. pc'[R(d)] = pc[R(d)] /\ pc'[W(d)] = pc[W(d)] /\ pc'[H(d)] = pc[H(d)]
        BY <2>0, <3>2
      <4> QED BY <2>1, <4>1
    <3> QED BY <3>1, <3>2
  <2>5. OnlyPublished'
    BY <2>1, <2>2, <2>3
  <2>6. SessionFollowsRegistry'
    <3>1. \A d \in Clients : pc'[R(d)] = pc[R(d)] \/ pc'[R(d)] = "run"
      BY <2>0
    <3>2. \A d \in sess' \ conns' : \E b \in Actors : tgt'[b] = d /\ pc'[b] = "rmSess"
      BY <2>1, <2>3
    <3>3. \A b \in Actors : pc'[b] = "rmSess" => tgt'[b] \notin conns'
      BY <2>1, <2>3
    <3> QED BY <2>1, <2>2, <3>1, <3>2, <3>3
  <2> QED BY <2>4, <2>5, <2>6
<1> QED BY <1>1, <1>2, <1>3, <1>4, <1>5, <1>6

\* RemoveClient takes a connection out of the registry and then out of the session index.
LEMMA SessionRemove ==
  ASSUME TypeOK, SessionInv, NEW a \in Actors,
         ConnManRemove(a) \/ SessionsRemove(a) \/ RemoveConnSnapshot(a) \/ UnsubscribeChan(a) \/ UnsubscribeMember(a)
  PROVE  SessionInv'
<1> USE ActorFacts DEF TypeOK, SessionInv, PumpControl, OnlyPublished, SessionFollowsRegistry,
        Published, RemoveLabels, Goto
<1>1. CASE ConnManRemove(a)
  <2>1. \A d \in Clients : Published(d) <=> Published(d)'
    BY <1>1 DEF ConnManRemove, AfterRemove
  <2>2. PumpControl'
    BY <1>1 DEF ConnManRemove, AfterRemove
  <2>3. OnlyPublished'
    <3>1. pc'[a] \notin RemoveLabels \/ pc'[a] = "rmSess"
      BY <1>1 DEF ConnManRemove, AfterRemove
    <3>2. \A b \in Actors : b # a => pc'[b] = pc[b]
      BY <1>1 DEF ConnManRemove
    <3> QED BY <1>1, <2>1, <3>1, <3>2 DEF ConnManRemove
  <2>4. SessionFollowsRegistry'
    <3>1. pc[a] = "rmConn" /\ Published(tgt[a]) /\ tgt[a] \in Clients
      BY <1>1 DEF ConnManRemove
    <3>2. \A b \in Actors : b # a => pc'[b] = pc[b]
      BY <1>1 DEF ConnManRemove
    <3>3. conns' = conns \ {tgt[a]} /\ sess' = sess /\ tgt' = tgt
      BY <1>1 DEF ConnManRemove
    <3>4. pc'[a] = IF tgt[a] \in conns THEN "rmSess" ELSE AfterRemove(a)
      BY <1>1 DEF ConnManRemove
    <3>5. \A d \in Clients : pc'[H(d)] = "sessAdd" => pc[H(d)] = "sessAdd" /\ d # tgt[a]
      <4>1. pc'[a] \in {"rmSess", "connClose", "closeStore"}
        BY <3>4, ReturnLabels
      <4>2. \A d \in Clients : pc[H(d)] = "sessAdd" => d # tgt[a]
        BY <3>1
      <4> QED BY <3>2, <4>1, <4>2
    <3>6. \A d \in sess' \ conns' : \E b \in Actors : tgt'[b] = d /\ pc'[b] = "rmSess"
      <4> TAKE d \in sess' \ conns'
      <4>1. CASE d \in conns
        <5>1. tgt'[a] = d /\ pc'[a] = "rmSess"
          BY <3>3, <3>4, <4>1
        <5> QED BY <5>1
      <4>2. CASE d \notin conns
        <5>1. PICK b \in Actors : tgt[b] = d /\ pc[b] = "rmSess"
          BY <3>3, <4>2
        <5>2. b # a
          BY <3>1, <5>1
        <5> QED BY <3>2, <3>3, <5>1, <5>2
      <4> QED BY <4>1, <4>2
    <3>7. \A d \in Clients : a = R(d) => tgt[a] = d
      BY <3>1
    <3> QED BY <2>1, <3>1, <3>2, <3>3, <3>4, <3>5, <3>6, <3>7
  <2> QED BY <2>2, <2>3, <2>4
<1>2. CASE SessionsRemove(a)
  <2>1. PumpControl'
    BY <1>2 DEF SessionsRemove, indexVars
  <2>2. OnlyPublished'
    BY <1>2 DEF SessionsRemove, indexVars
  <2>3. SessionFollowsRegistry'
    BY <1>2 DEF SessionsRemove, indexVars
  <2> QED BY <2>1, <2>2, <2>3
<1>3. CASE RemoveConnSnapshot(a)
  BY <1>3 DEF RemoveConnSnapshot, AfterRemove, indexVars
<1>4. CASE UnsubscribeChan(a)
  BY <1>4 DEF UnsubscribeChan, indexVars
<1>5. CASE UnsubscribeMember(a)
  BY <1>5 DEF UnsubscribeMember, AfterRemove, indexVars
<1> QED BY <1>1, <1>2, <1>3, <1>4, <1>5

\* Close and the loops over a snapshot take up published connections only.
LEMMA SessionLoop ==
  ASSUME TypeOK, SessionInv, NEW a \in Actors,
         CloseStore(a) \/ CloseCancel(a) \/ CloseAgain(a) \/ EachNext(a) \/ EachDone(a)
  PROVE  SessionInv'
<1> USE ActorFacts DEF TypeOK, SessionInv, PumpControl, OnlyPublished, SessionFollowsRegistry,
        Published, RemoveLabels, Goto
<1>1. CASE CloseStore(a)
  BY <1>1 DEF CloseStore, indexVars
<1>2. CASE CloseCancel(a)
  BY <1>2 DEF CloseCancel, AfterClose, indexVars
<1>3. CASE CloseAgain(a)
  BY <1>3 DEF CloseAgain, AfterClose, indexVars
<1>4. CASE EachNext(a)
  <2>1. PumpControl'
    BY <1>4 DEF EachNext, indexVars
  <2>2. OnlyPublished'
    BY <1>4 DEF EachNext, indexVars
  <2>3. SessionFollowsRegistry'
    BY <1>4 DEF EachNext, indexVars
  <2> QED BY <2>1, <2>2, <2>3
<1>5. CASE EachDone(a)
  BY <1>5 DEF EachDone, indexVars
<1> QED BY <1>1, <1>2, <1>3, <1>4, <1>5

\* The pumps go through their labels after their handler has returned.
LEMMA SessionPumps ==
  ASSUME TypeOK, SessionInv, NEW c \in Clients,
         \/ ReadPumpReturn(c) \/ ReadPumpCloseConn(c) \/ ReadPumpCancel(c)
         \/ WritePumpCtxDone(c) \/ WritePumpWriteError(c) \/ WritePumpExpire(c)
         \/ WritePumpCloseConn(c)
  PROVE  SessionInv'
<1> USE ActorFacts DEF TypeOK, SessionInv, PumpControl, OnlyPublished, SessionFollowsRegistry,
        Published, RemoveLabels, Goto
<1>1. CASE ReadPumpReturn(c)
  <2>1. PumpControl'
    BY <1>1 DEF ReadPumpReturn, indexVars
  <2>2. OnlyPublished'
    BY <1>1 DEF ReadPumpReturn, indexVars
  <2>3. SessionFollowsRegistry'
    BY <1>1 DEF ReadPumpReturn, indexVars
  <2> QED BY <2>1, <2>2, <2>3
<1>2. CASE ReadPumpCloseConn(c)
  BY <1>2 DEF ReadPumpCloseConn, indexVars
<1>3. CASE ReadPumpCancel(c)
  BY <1>3 DEF ReadPumpCancel, indexVars
<1>4. CASE WritePumpCtxDone(c)
  BY <1>4 DEF WritePumpCtxDone, indexVars
<1>5. CASE WritePumpWriteError(c)
  BY <1>5 DEF WritePumpWriteError, indexVars
<1>6. CASE WritePumpExpire(c)
  BY <1>6 DEF WritePumpExpire, indexVars
<1>7. CASE WritePumpCloseConn(c)
  BY <1>7 DEF WritePumpCloseConn, indexVars
<1> QED BY <1>1, <1>2, <1>3, <1>4, <1>5, <1>6, <1>7

\* Steps that touch neither the indexes nor any actor inside RemoveClient.
LEMMA SessionAdmin ==
  ASSUME TypeOK, SessionInv, NEW i \in Admins, NEW r \in Rooms,
         CloseRoom(i, r) \/ \E u \in Users : KickClient(i, r, u)
  PROVE  SessionInv'
<1> USE ActorFacts DEF TypeOK, SessionInv, PumpControl, OnlyPublished, SessionFollowsRegistry,
        Published, RemoveLabels, Goto
<1> DEFINE a == <<"a", i>>
<1>1. UNCHANGED <<conns, sess, chans, tgt>> /\ pc[a] = "idle" /\ pc' = [pc EXCEPT ![a] = "each"]
  BY DEF CloseRoom, KickClient, indexVars
<1>2. \E S \in SUBSET chans : todo' = [todo EXCEPT ![a] = S]
  BY DEF CloseRoom, KickClient
<1>3. a \in Actors /\ \A c \in Clients : H(c) # a /\ R(c) # a /\ W(c) # a
  BY DEF H, R, W
<1> HIDE DEF a
<1>4. \A c \in Clients : pc'[H(c)] = pc[H(c)] /\ pc'[R(c)] = pc[R(c)] /\ pc'[W(c)] = pc[W(c)]
  BY <1>1, <1>3
<1>5. \A b \in Actors : pc'[b] \in RemoveLabels \/ pc[b] \in RemoveLabels => pc'[b] = pc[b]
  BY <1>1, <1>3
<1>6. PumpControl'
  BY <1>1, <1>4
<1>7. OnlyPublished'
  <2>1. \A b \in Actors : \A c \in todo'[b] : c \in Clients /\ Published(c)
    BY <1>2, <1>3
  <2> QED BY <1>1, <1>4, <1>5, <2>1
<1>8. SessionFollowsRegistry'
  BY <1>1, <1>4, <1>5
<1> QED BY <1>6, <1>7, <1>8

\* The shutdown leaves the indexes alone.
LEMMA SessionStutter ==
  ASSUME TypeOK, SessionInv, UNCHANGED vars \/ Shutdown
  PROVE  SessionInv'
<1>1. UNCHANGED <<conns, sess, chans, pc, tgt, todo>>
  BY DEF vars, Shutdown, indexVars
<1> QED
  BY <1>1 DEF SessionInv, PumpControl, OnlyPublished, SessionFollowsRegistry, Published

\* At the start nobody is indexed.
LEMMA SessionInit == Init => SessionInv
<1> SUFFICES ASSUME Init PROVE SessionInv
  OBVIOUS
<1>1. \A a \in Actors : pc[a] = "idle" /\ todo[a] = {}
  BY DEF Init
<1>2. conns = {} /\ sess = {} /\ chans = {}
  BY DEF Init
<1> QED
  BY <1>1, <1>2, ActorFacts
     DEF SessionInv, PumpControl, OnlyPublished, SessionFollowsRegistry, RemoveLabels

\* Every step keeps the session invariant.
LEMMA SessionStep == TypeOK /\ SessionInv /\ [Next]_vars => SessionInv'
<1> SUFFICES ASSUME TypeOK, SessionInv, [Next]_vars PROVE SessionInv'
  OBVIOUS
<1>1. ASSUME NEW c \in Clients, AddClientBegin(c) \/ AddClientStep(c) PROVE SessionInv'
  BY <1>1, SessionAdd DEF AddClientStep
<1>2. ASSUME NEW a \in Actors, RemoveClientStep(a) PROVE SessionInv'
  BY <1>2, SessionRemove DEF RemoveClientStep
<1>3. ASSUME NEW a \in Actors, CloseStep(a) \/ LoopStep(a) PROVE SessionInv'
  BY <1>3, SessionLoop DEF CloseStep, LoopStep
<1>4. ASSUME NEW c \in Clients,
             \/ ReadPumpReturn(c) \/ ReadPumpCloseConn(c) \/ ReadPumpCancel(c)
             \/ WritePumpCtxDone(c) \/ WritePumpWriteError(c) \/ WritePumpExpire(c)
             \/ WritePumpCloseConn(c)
      PROVE  SessionInv'
  BY <1>4, SessionPumps
<1> QED BY <1>1, <1>2, <1>3, <1>4, SessionAdmin, SessionStutter DEF Next, Terminated

\* The indexes follow the registry in every reachable state.
LEMMA SessionInvariant == Spec => [](TypeOK /\ SessionInv)
  BY TypeCorrect, SessionInit, SessionStep, PTL DEF Spec

\* Whoever removes a connection - its ReadPump, an evicting handler, an
\* administrator - and however they overlap, once its ReadPump has ended and
\* no removal is in progress it is neither registered nor in the session index.
THEOREM NoGhostSessionHolds == Spec => []NoGhostSession
<1>1. TypeOK /\ SessionInv => NoGhostSession
  <2> SUFFICES ASSUME TypeOK, SessionInv, NEW c \in Clients, Finished(c)
               PROVE  c \notin conns /\ c \notin sess
    BY DEF NoGhostSession
  <2>1. c \notin conns
    BY DEF Finished, SessionInv, SessionFollowsRegistry
  <2>2. c \notin sess
    BY <2>1 DEF Finished, Removing, SessionInv, SessionFollowsRegistry
  <2> QED BY <2>1, <2>2
<1> QED BY <1>1, SessionInvariant, PTL

-----------------------------------------------------------------------------
(* Eviction under PolicySingleDevicePerUser *)

\* What a step may do to the state EvictionPending reads, apart from the
\* beginning of AddClient.  A handler's frame is its pc, tgt and todo.
HandlerStep ==
  \A c \in Clients :
    /\ AddReturned(c) => AddReturned(c)'
    /\ c \in conns' => c \in conns \/ ~AddReturned(c)
    /\ pc'[H(c)] = "idle" => pc[H(c)] = "idle"
    /\ \/ pc'[H(c)] = pc[H(c)] /\ tgt'[H(c)] = tgt[H(c)] /\ todo'[H(c)] = todo[H(c)]
       \/ /\ pc[H(c)] \in RemoveLabels \cup {"closeStore", "closeCancel"}
          /\ pc'[H(c)] \in (RemoveLabels \ {"rmConn"}) \cup {"each", "closeStore", "closeCancel"}
          /\ todo'[H(c)] = todo[H(c)]
          /\ pc[H(c)] = "rmConn" => tgt[H(c)] \notin conns'
       \/ /\ pc[H(c)] = "each" /\ pc'[H(c)] = "rmConn"
          /\ todo[H(c)] \subseteq todo'[H(c)] \cup {tgt'[H(c)]}
       \/ pc[H(c)] = "each" /\ todo[H(c)] = {}
       \/ pc[H(c)] \notin RemoveLabels \cup {"each", "closeStore", "closeCancel"}

\* A step that moves a handler at most along its eviction keeps EvictionPending.
LEMMA EvictionByHandlerStep ==
  ASSUME TypeOK, EvictionPending, HandlerStep, prior' = prior
  PROVE  EvictionPending'
<1> SUFFICES ASSUME NEW c \in Clients
             PROVE  /\ \A x \in prior[c] : AddReturned(x)'
                    /\ \A x \in prior[c] \cap conns' :
                         \/ /\ x \in todo'[H(c)]
                            /\ pc'[H(c)] \in RemoveLabels \cup {"each", "closeStore", "closeCancel"}
                         \/ pc'[H(c)] = "rmConn" /\ tgt'[H(c)] = x
                    /\ pc'[H(c)] = "idle" => prior[c] = {}
  BY DEF EvictionPending
<1>1. prior[c] \subseteq Clients /\ \A x \in prior[c] : AddReturned(x)
  BY DEF EvictionPending, TypeOK
<1>2. \A x \in prior[c] : AddReturned(x)' /\ (x \in conns' => x \in conns)
  BY <1>1 DEF HandlerStep
<1>3. \A x \in prior[c] \cap conns :
        \/ x \in todo[H(c)] /\ pc[H(c)] \in RemoveLabels \cup {"each", "closeStore", "closeCancel"}
        \/ pc[H(c)] = "rmConn" /\ tgt[H(c)] = x
  BY DEF EvictionPending
<1>4. pc'[H(c)] = "idle" => prior[c] = {}
  BY DEF HandlerStep, EvictionPending
<1>5. ASSUME NEW x \in prior[c] \cap conns'
      PROVE  \/ /\ x \in todo'[H(c)]
                /\ pc'[H(c)] \in RemoveLabels \cup {"each", "closeStore", "closeCancel"}
             \/ pc'[H(c)] = "rmConn" /\ tgt'[H(c)] = x
  BY <1>2, <1>3 DEF HandlerStep, RemoveLabels
<1> QED BY <1>2, <1>4, <1>5

\* The steps of AddClient move the handler along its eviction.
LEMMA HandlerStepAdd ==
  ASSUME TypeOK, NEW c \in Clients, AddClientStep(c)
  PROVE  HandlerStep /\ prior' = prior
<1> USE ActorFacts DEF TypeOK, HandlerStep, AddReturned, RemoveLabels, Goto
<1>1. CASE ConnManAdd(c)
  BY <1>1 DEF ConnManAdd
<1>2. CASE SessionsAdd(c)
  BY <1>2 DEF SessionsAdd
<1>3. CASE SubscribeChan(c)
  BY <1>3 DEF SubscribeChan
<1>4. CASE SubscribeMember(c)
  BY <1>4 DEF SubscribeMember
<1>5. CASE SpawnPumps(c)
  BY <1>5 DEF SpawnPumps, indexVars
<1> QED BY <1>1, <1>2, <1>3, <1>4, <1>5 DEF AddClientStep

\* The steps of RemoveClient, Close and the loops do so too, for whoever takes them.
LEMMA HandlerStepActor ==
  ASSUME TypeOK, NEW a \in Actors, RemoveClientStep(a) \/ CloseStep(a) \/ LoopStep(a)
  PROVE  HandlerStep /\ prior' = prior
<1> USE ActorFacts DEF TypeOK, HandlerStep, AddReturned, RemoveLabels, Goto
<1>1. CASE ConnManRemove(a)
  BY <1>1 DEF ConnManRemove, AfterRemove
<1>2. CASE SessionsRemove(a)
  BY <1>2 DEF SessionsRemove
<1>3. CASE RemoveConnSnapshot(a)
  BY <1>3 DEF RemoveConnSnapshot, AfterRemove, indexVars
<1>4. CASE UnsubscribeChan(a)
  BY <1>4 DEF UnsubscribeChan
<1>5. CASE UnsubscribeMember(a)
  BY <1>5 DEF UnsubscribeMember, AfterRemove
<1>6. CASE CloseStore(a)
  BY <1>6 DEF CloseStore, indexVars
<1>7. CASE CloseCancel(a)
  BY <1>7 DEF CloseCancel, AfterClose, indexVars
<1>8. CASE CloseAgain(a)
  BY <1>8 DEF CloseAgain, AfterClose, indexVars
<1>9. CASE EachNext(a)
  BY <1>9 DEF EachNext, indexVars
<1>10. CASE EachDone(a)
  BY <1>10 DEF EachDone, indexVars
<1> QED
  BY <1>1, <1>2, <1>3, <1>4, <1>5, <1>6, <1>7, <1>8, <1>9, <1>10
     DEF RemoveClientStep, CloseStep, LoopStep

\* A step that leaves every handler's frame and the registry alone.
LEMMA HandlerStepElsewhere ==
  ASSUME TypeOK, UNCHANGED <<conns, prior>>,
         \A c \in Clients : /\ pc'[H(c)] = pc[H(c)]
                            /\ tgt'[H(c)] = tgt[H(c)]
                            /\ todo'[H(c)] = todo[H(c)]
  PROVE  HandlerStep /\ prior' = prior
  BY DEF HandlerStep, AddReturned

\* Administrators, pumps and the shutdown leave the handlers alone.
LEMMA HandlerStepOthers ==
  ASSUME TypeOK,
         \/ \E i \in Admins, r \in Rooms : CloseRoom(i, r)
         \/ \E i \in Admins, r \in Rooms, u \in Users : KickClient(i, r, u)
         \/ \E c \in Clients :
              \/ ReadPumpReturn(c) \/ ReadPumpCloseConn(c) \/ ReadPumpCancel(c)
              \/ WritePumpCtxDone(c) \/ WritePumpWriteError(c) \/ WritePumpExpire(c)
              \/ WritePumpCloseConn(c)
         \/ Shutdown \/ UNCHANGED vars
  PROVE  HandlerStep /\ prior' = prior
<1> USE ActorFacts, HandlerStepElsewhere DEF TypeOK, Goto, indexVars
<1>1. ASSUME NEW i \in Admins, NEW r \in Rooms,
             CloseRoom(i, r) \/ \E u \in Users : KickClient(i, r, u)
      PROVE  HandlerStep /\ prior' = prior
  <2>1. \A c \in Clients : H(c) # <<"a", i>>
    BY DEF H
  <2> QED BY <1>1, <2>1 DEF CloseRoom, KickClient
<1>2. ASSUME NEW c \in Clients, ReadPumpReturn(c) \/ ReadPumpCloseConn(c) \/ ReadPumpCancel(c)
      PROVE  HandlerStep /\ prior' = prior
  BY <1>2 DEF ReadPumpReturn, ReadPumpCloseConn, ReadPumpCancel
<1>3. ASSUME NEW c \in Clients,
             WritePumpCtxDone(c) \/ WritePumpWriteError(c) \/ WritePumpExpire(c) \/ WritePumpCloseConn(c)
      PROVE  HandlerStep /\ prior' = prior
  BY <1>3 DEF WritePumpCtxDone, WritePumpWriteError, WritePumpExpire, WritePumpCloseConn
<1>4. CASE Shutdown \/ UNCHANGED vars
  BY <1>4 DEF Shutdown, vars
<1> QED BY <1>1, <1>2, <1>3, <1>4

\* The handler's snapshot holds every earlier connection still registered.
LEMMA EvictionBegin ==
  ASSUME TypeOK, SessionInv, EvictionPending, NEW c \in Clients, AddClientBegin(c)
  PROVE  EvictionPending'
<1> USE ActorFacts DEF TypeOK
<1>1. /\ pc[H(c)] = "idle" /\ pc' = [pc EXCEPT ![H(c)] = "each"]
      /\ conns' = conns /\ tgt' = tgt
  BY DEF AddClientBegin, Goto, indexVars
<1>2. \A d \in Clients : AddReturned(d) => AddReturned(d)'
  BY <1>1 DEF AddReturned
<1>3. ASSUME NEW d \in Clients, d # c
      PROVE  prior'[d] = prior[d] /\ todo'[H(d)] = todo[H(d)] /\ pc'[H(d)] = pc[H(d)]
  BY <1>1, <1>3 DEF AddClientBegin
<1>4. \A x \in prior'[c] : x \in Clients /\ AddReturned(x)
  BY DEF AddClientBegin, SameUser, EvictionPending
<1>5. \A x \in prior'[c] \cap conns : x \in todo'[H(c)]
  <2>1. CASE ConnectionPolicy = "single"
    <3>1. /\ todo'[H(c)] = (sess \cap SameUser(c)) \ {c}
          /\ prior'[c] = {x \in SameUser(c) : AddReturned(x)}
      BY <2>1 DEF AddClientBegin, UserConnections
    <3>2. \A x \in prior'[c] \cap conns : x \in sess /\ x # c
      BY <1>1, <1>4 DEF SessionInv, SessionFollowsRegistry, Published, AddReturned
    <3> QED BY <3>1, <3>2
  <2>2. CASE ConnectionPolicy # "single"
    BY <1>1, <2>2 DEF AddClientBegin, EvictionPending
  <2> QED BY <2>1, <2>2
<1> SUFFICES ASSUME NEW d \in Clients
             PROVE  /\ \A x \in prior'[d] : AddReturned(x)'
                    /\ \A x \in prior'[d] \cap conns' :
                         \/ /\ x \in todo'[H(d)]
                            /\ pc'[H(d)] \in RemoveLabels \cup {"each", "closeStore", "closeCancel"}
                         \/ pc'[H(d)] = "rmConn" /\ tgt'[H(d)] = x
                    /\ pc'[H(d)] = "idle" => prior'[d] = {}
  BY DEF EvictionPending
<1>6. CASE d = c
  BY <1>1, <1>2, <1>4, <1>5, <1>6
<1>7. CASE d # c
  BY <1>1, <1>2, <1>3, <1>7 DEF EvictionPending
<1> QED BY <1>6, <1>7

\* Every step keeps EvictionPending.
LEMMA EvictionStep == TypeOK /\ SessionInv /\ EvictionPending /\ [Next]_vars => EvictionPending'
<1> SUFFICES ASSUME TypeOK, SessionInv, EvictionPending, [Next]_vars PROVE EvictionPending'
  OBVIOUS
<1>1. CASE \E c \in Clients : AddClientBegin(c)
  BY <1>1, EvictionBegin
<1>2. CASE ~\E c \in Clients : AddClientBegin(c)
  <2>1. HandlerStep /\ prior' = prior
    BY <1>2, HandlerStepAdd, HandlerStepActor, HandlerStepOthers DEF Next, Terminated
  <2> QED BY <2>1, EvictionByHandlerStep
<1> QED BY <1>1, <1>2

\* Under the single-device policy a connection whose AddClient returned before
\* a later AddClient of the same user began is no longer registered once the
\* later one is past its eviction loop, however the two handlers, the pumps and
\* the administrators interleave.
THEOREM EvictsEarlierHolds == Spec => []EvictsEarlier
<1>1. Init => EvictionPending
  BY DEF Init, EvictionPending
<1>2. EvictionPending => EvictsEarlier
  BY DEF EvictionPending, EvictsEarlier, RemoveLabels
<1> QED BY <1>1, <1>2, SessionInvariant, EvictionStep, PTL DEF Spec

-----------------------------------------------------------------------------
(* One remover per connection, and the two tables of the subscription index *)

\* Every step keeps a connection with at most one remover past the registry.
LEMMA SoleRemoverStep ==
  ASSUME TypeOK, SessionInv, SoleRemover, [Next]_vars
  PROVE  SoleRemover'
<1> USE ActorFacts DEF SoleRemover, PastRegistry, Goto
<1> DEFINE Quiet == /\ conns' \subseteq conns
                    /\ \A b \in Actors : pc'[b] \in PastRegistry =>
                                           pc[b] \in PastRegistry /\ tgt'[b] = tgt[b]
<1>1. ASSUME Quiet PROVE SoleRemover'
  BY <1>1
<1>2. ASSUME NEW c \in Clients, ConnManAdd(c) PROVE SoleRemover'
  <2>1. \A b \in Actors : pc[b] \in PastRegistry => tgt[b] # c
    BY <1>2 DEF ConnManAdd, SessionInv, OnlyPublished, Published, RemoveLabels
  <2>2. /\ conns' = conns \cup {c} /\ tgt' = tgt
        /\ \A b \in Actors : pc'[b] \in PastRegistry => pc[b] \in PastRegistry
    BY <1>2 DEF ConnManAdd, TypeOK
  <2> QED BY <2>1, <2>2
<1>3. ASSUME NEW a \in Actors, ConnManRemove(a) PROVE SoleRemover'
  <2>1. /\ conns' = conns \ {tgt[a]} /\ tgt' = tgt
        /\ pc'[a] \in PastRegistry => tgt[a] \in conns
        /\ \A b \in Actors : b # a => pc'[b] = pc[b]
    BY <1>3, ReturnLabels DEF ConnManRemove, TypeOK
  <2> QED BY <2>1
<1> HIDE DEF SoleRemover
<1>4. ASSUME NEW c \in Clients, AddClientBegin(c) PROVE Quiet
  BY <1>4 DEF AddClientBegin, indexVars, TypeOK
<1>5. ASSUME NEW c \in Clients, SessionsAdd(c) \/ SubscribeChan(c) \/ SubscribeMember(c) PROVE Quiet
  BY <1>5 DEF SessionsAdd, SubscribeChan, SubscribeMember, TypeOK
<1>6. ASSUME NEW c \in Clients, SpawnPumps(c) PROVE Quiet
  BY <1>6 DEF SpawnPumps, indexVars, TypeOK
<1>7. ASSUME NEW a \in Actors,
             SessionsRemove(a) \/ RemoveConnSnapshot(a) \/ UnsubscribeChan(a) \/ UnsubscribeMember(a)
      PROVE  Quiet
  BY <1>7, ReturnLabels
     DEF SessionsRemove, RemoveConnSnapshot, UnsubscribeChan, UnsubscribeMember, indexVars, TypeOK
<1>8. ASSUME NEW a \in Actors, CloseStep(a) PROVE Quiet
  BY ZenonT(30), <1>8, ReturnLabels DEF CloseStep, CloseStore, CloseCancel, CloseAgain, indexVars, TypeOK
<1>9. ASSUME NEW a \in Actors, LoopStep(a) PROVE Quiet
  BY <1>9 DEF LoopStep, EachNext, EachDone, indexVars, TypeOK
<1>10. ASSUME NEW i \in Admins, NEW r \in Rooms, CloseRoom(i, r) \/ \E u \in Users : KickClient(i, r, u)
       PROVE  Quiet
  BY <1>10 DEF CloseRoom, KickClient, indexVars, TypeOK
<1>11. ASSUME NEW c \in Clients, ReadPumpReturn(c) \/ ReadPumpCloseConn(c) \/ ReadPumpCancel(c)
       PROVE  Quiet
  BY <1>11 DEF ReadPumpReturn, ReadPumpCloseConn, ReadPumpCancel, indexVars, TypeOK
<1>12. ASSUME NEW c \in Clients, \/ WritePumpCtxDone(c) \/ WritePumpWriteError(c)
                                \/ WritePumpExpire(c) \/ WritePumpCloseConn(c)
       PROVE  Quiet
  BY <1>12 DEF WritePumpCtxDone, WritePumpWriteError, WritePumpExpire, WritePumpCloseConn, indexVars, TypeOK
<1>13. ASSUME Shutdown \/ UNCHANGED vars PROVE Quiet
  BY <1>13 DEF Shutdown, vars, indexVars
<1> QED
  BY <1>1, <1>2, <1>3, <1>4, <1>5, <1>6, <1>7, <1>8, <1>9, <1>10, <1>11, <1>12, <1>13
     DEF Next, AddClientStep, RemoveClientStep, Terminated

\* A step that leaves the two tables, Subscribe and Unsubscribe alone.
TableCalm ==
  /\ chans' = chans /\ member' = member
  /\ \A c \in Clients : /\ AddReturned(c)' <=> AddReturned(c)
                        /\ pc'[H(c)] = "subMember" <=> pc[H(c)] = "subMember"
  /\ \A b \in Actors :
       pc'[b] \in {"unsubChan", "unsubMember"} \/ pc[b] \in {"unsubChan", "unsubMember"} =>
         pc'[b] = pc[b] /\ tgt'[b] = tgt[b]

\* A step that leaves both tables and their users alone keeps TablesFollow.
LEMMA TablesCalm ==
  ASSUME TypeOK, TablesFollow, TableCalm
  PROVE  TablesFollow'
<1>1. \A b \in Actors : pc[b] \in {"unsubChan", "unsubMember"} => tgt[b] \in Clients
  BY DEF TypeOK
<1>2. ASSUME NEW c \in Clients PROVE
        /\ ~AddReturned(c)' => member'[c] = 0
        /\ ~AddReturned(c)' => (c \in chans' <=> pc'[H(c)] = "subMember")
        /\ AddReturned(c)' => member'[c] \in {0, 1} /\ (c \in chans' => member'[c] = 1)
        /\ AddReturned(c)' /\ member'[c] = 1 /\ c \notin chans' =>
             \E a \in Actors : tgt'[a] = c /\ pc'[a] = "unsubMember"
  BY DEF TablesFollow, TableCalm
<1>3. ASSUME NEW b \in Actors PROVE
        /\ pc'[b] = "unsubChan" =>
             AddReturned(tgt[b])' /\ tgt'[b] \in chans' /\ member'[tgt'[b]] = 1
        /\ pc'[b] = "unsubMember" =>
             AddReturned(tgt[b])' /\ tgt'[b] \notin chans' /\ member'[tgt'[b]] = 1
  BY <1>1 DEF TablesFollow, TableCalm
<1> QED BY <1>2, <1>3 DEF TablesFollow

\* The two critical sections of Subscribe keep TablesFollow.
LEMMA TablesSubscribe ==
  ASSUME TypeOK, TablesFollow, NEW c \in Clients, SubscribeChan(c) \/ SubscribeMember(c)
  PROVE  TablesFollow'
<1> USE ActorFacts DEF TypeOK, TablesFollow, AddReturned, Goto
<1>1. \A b \in Actors : pc[b] \in {"unsubChan", "unsubMember"} => tgt[b] # c
  BY DEF SubscribeChan, SubscribeMember
<1>2. CASE SubscribeChan(c)
  BY <1>1, <1>2 DEF SubscribeChan
<1>3. CASE SubscribeMember(c)
  BY <1>1, <1>3 DEF SubscribeMember
<1> QED BY <1>2, <1>3

\* The critical sections of Unsubscribe keep TablesFollow.
LEMMA TablesUnsubscribe ==
  ASSUME TypeOK, SoleRemover, TablesFollow, NEW a \in Actors,
         RemoveConnSnapshot(a) \/ UnsubscribeChan(a) \/ UnsubscribeMember(a)
  PROVE  TablesFollow'
<1> USE ActorFacts DEF TypeOK, Goto
<1>1. \A b \in Actors : b # a => pc'[b] = pc[b]
  BY DEF RemoveConnSnapshot, UnsubscribeChan, UnsubscribeMember
<1>2. tgt' = tgt /\ tgt[a] \in Clients
  BY DEF RemoveConnSnapshot, UnsubscribeChan, UnsubscribeMember
<1>3. \A b \in Actors : b # a /\ pc[b] \in {"unsubChan", "unsubMember"} => tgt[b] # tgt[a]
  BY DEF SoleRemover, PastRegistry, RemoveConnSnapshot, UnsubscribeChan, UnsubscribeMember
<1>4. \A c \in Clients : /\ AddReturned(c)' <=> AddReturned(c)
                         /\ pc'[H(c)] = "subMember" <=> pc[H(c)] = "subMember"
  BY ReturnLabels DEF RemoveConnSnapshot, UnsubscribeChan, UnsubscribeMember, AddReturned
<1>5. CASE RemoveConnSnapshot(a)
  <2>1. /\ chans' = chans /\ member' = member
        /\ pc[a] = "rmSnap" /\ pc'[a] \in {"unsubChan", "connClose", "closeStore"}
        /\ pc'[a] = "unsubChan" => member[tgt[a]] > 0
    BY <1>5, ReturnLabels DEF RemoveConnSnapshot, indexVars
  <2>2. pc'[a] = "unsubChan" => AddReturned(tgt[a]) /\ tgt[a] \in chans /\ member[tgt[a]] = 1
    <3> SUFFICES ASSUME pc'[a] = "unsubChan"
                 PROVE  AddReturned(tgt[a]) /\ tgt[a] \in chans /\ member[tgt[a]] = 1
      OBVIOUS
    <3>1. AddReturned(tgt[a]) /\ member[tgt[a]] = 1
      BY <1>2, <2>1 DEF TablesFollow
    <3>2. ASSUME tgt[a] \notin chans PROVE FALSE
      <4>1. PICK b \in Actors : tgt[b] = tgt[a] /\ pc[b] = "unsubMember"
        BY <1>2, <3>1, <3>2 DEF TablesFollow
      <4> QED BY <1>3, <2>1, <4>1
    <3> QED BY <3>1, <3>2
  <2>3. \A c \in Clients : AddReturned(c)' /\ member'[c] = 1 /\ c \notin chans' =>
          \E b \in Actors : tgt'[b] = c /\ pc'[b] = "unsubMember"
    BY SMTT(30), <1>1, <1>2, <1>4, <2>1 DEF TablesFollow
  <2> QED BY <1>1, <1>2, <1>4, <2>1, <2>2, <2>3 DEF TablesFollow
<1>6. CASE UnsubscribeChan(a)
  <2>1. /\ chans' = chans \ {tgt[a]} /\ member' = member
        /\ pc[a] = "unsubChan" /\ pc'[a] = "unsubMember"
    BY <1>6 DEF UnsubscribeChan
  <2>2. AddReturned(tgt[a]) /\ member[tgt[a]] = 1
    BY <2>1 DEF TablesFollow
  <2>3. \A c \in Clients : AddReturned(c)' /\ member'[c] = 1 /\ c \notin chans' =>
          \E b \in Actors : tgt'[b] = c /\ pc'[b] = "unsubMember"
    <3> SUFFICES ASSUME NEW c \in Clients, AddReturned(c)', member'[c] = 1, c \notin chans'
                 PROVE  \E b \in Actors : tgt'[b] = c /\ pc'[b] = "unsubMember"
      OBVIOUS
    <3>1. CASE c = tgt[a]
      BY <1>2, <2>1, <3>1
    <3>2. CASE c # tgt[a]
      <4>1. PICK b \in Actors : tgt[b] = c /\ pc[b] = "unsubMember"
        BY <1>4, <2>1, <3>2 DEF TablesFollow
      <4> QED BY <1>1, <1>2, <2>1, <4>1
    <3> QED BY <3>1, <3>2
  <2>4. \A b \in Actors : b # a =>
          /\ pc'[b] = "unsubChan" =>
               AddReturned(tgt[b])' /\ tgt'[b] \in chans' /\ member'[tgt'[b]] = 1
          /\ pc'[b] = "unsubMember" =>
               AddReturned(tgt[b])' /\ tgt'[b] \notin chans' /\ member'[tgt'[b]] = 1
    BY <1>1, <1>2, <1>3, <1>4, <2>1 DEF TablesFollow
  <2>5. \A c \in Clients :
          /\ ~AddReturned(c)' => member'[c] = 0
          /\ ~AddReturned(c)' => (c \in chans' <=> pc'[H(c)] = "subMember")
          /\ AddReturned(c)' => member'[c] \in {0, 1} /\ (c \in chans' => member'[c] = 1)
    BY <1>4, <2>1, <2>2 DEF TablesFollow
  <2> QED BY <1>2, <1>4, <2>1, <2>2, <2>3, <2>4, <2>5 DEF TablesFollow
<1>7. CASE UnsubscribeMember(a)
  <2>1. /\ chans' = chans /\ pc[a] = "unsubMember" /\ pc'[a] \in {"connClose", "closeStore"}
        /\ member' = [member EXCEPT ![tgt[a]] = MemberAfterUnsubscribe(@)]
    BY <1>7, ReturnLabels DEF UnsubscribeMember
  <2>2. AddReturned(tgt[a]) /\ member[tgt[a]] = 1 /\ tgt[a] \notin chans
    BY <2>1 DEF TablesFollow
  <2>3. member'[tgt[a]] = 0 /\ \A c \in Clients : c # tgt[a] => member'[c] = member[c]
    BY <1>2, <2>1, <2>2 DEF MemberAfterUnsubscribe
  <2>4. \A c \in Clients : AddReturned(c)' /\ member'[c] = 1 /\ c \notin chans' =>
          \E b \in Actors : tgt'[b] = c /\ pc'[b] = "unsubMember"
    <3> SUFFICES ASSUME NEW c \in Clients, AddReturned(c)', member'[c] = 1, c \notin chans'
                 PROVE  \E b \in Actors : tgt'[b] = c /\ pc'[b] = "unsubMember"
      OBVIOUS
    <3>1. PICK b \in Actors : tgt[b] = c /\ pc[b] = "unsubMember"
      BY <1>4, <2>1, <2>3 DEF TablesFollow
    <3>2. b # a
      BY <2>3, <3>1
    <3> QED BY <1>1, <1>2, <3>1, <3>2
  <2>5. \A b \in Actors : pc[b] \in {"unsubChan", "unsubMember"} => tgt[b] \in Clients
    OBVIOUS
  <2>6. \A b \in Actors :
          /\ pc'[b] = "unsubChan" =>
               AddReturned(tgt[b])' /\ tgt'[b] \in chans' /\ member'[tgt'[b]] = 1
          /\ pc'[b] = "unsubMember" =>
               AddReturned(tgt[b])' /\ tgt'[b] \notin chans' /\ member'[tgt'[b]] = 1
    BY <1>1, <1>2, <1>3, <1>4, <2>1, <2>3, <2>5 DEF TablesFollow
  <2> QED BY <1>2, <1>4, <2>1, <2>2, <2>3, <2>4, <2>6 DEF TablesFollow
<1> QED BY <1>5, <1>6, <1>7

\* Every step keeps TablesFollow.
LEMMA TablesStep ==
  ASSUME TypeOK, SessionInv, SoleRemover, TablesFollow, [Next]_vars
  PROVE  TablesFollow'
<1> USE ActorFacts DEF TypeOK, TableCalm, AddReturned, Goto
<1>1. ASSUME NEW c \in Clients, AddClientBegin(c) PROVE TableCalm
  BY <1>1 DEF AddClientBegin, indexVars
<1>2. ASSUME NEW c \in Clients, ConnManAdd(c) \/ SessionsAdd(c) PROVE TableCalm
  BY <1>2 DEF ConnManAdd, SessionsAdd
<1>3. ASSUME NEW c \in Clients, SpawnPumps(c) PROVE TableCalm
  <2>1. pc[R(c)] = "idle" /\ pc[W(c)] = "idle"
    BY <1>3 DEF SpawnPumps, SessionInv, PumpControl
  <2> QED BY <1>3, <2>1 DEF SpawnPumps, indexVars
<1>4. ASSUME NEW a \in Actors, ConnManRemove(a) PROVE TableCalm
  <2>1. pc'[a] \in {"rmSess", "connClose", "closeStore"} /\ pc[a] = "rmConn"
    BY <1>4, ReturnLabels DEF ConnManRemove
  <2> QED BY <1>4, <2>1 DEF ConnManRemove
<1>5. ASSUME NEW a \in Actors, SessionsRemove(a) PROVE TableCalm
  BY <1>5 DEF SessionsRemove
<1>6. ASSUME NEW a \in Actors, CloseStep(a) PROVE TableCalm
  BY ZenonT(30), <1>6, ReturnLabels DEF CloseStep, CloseStore, CloseCancel, CloseAgain, indexVars
<1>7. ASSUME NEW a \in Actors, LoopStep(a) PROVE TableCalm
  BY <1>7 DEF LoopStep, EachNext, EachDone, indexVars
<1>8. ASSUME NEW i \in Admins, NEW r \in Rooms, CloseRoom(i, r) \/ \E u \in Users : KickClient(i, r, u)
      PROVE  TableCalm
  BY ZenonT(30), <1>8 DEF CloseRoom, KickClient, indexVars
<1>9. ASSUME NEW c \in Clients, ReadPumpReturn(c) \/ ReadPumpCloseConn(c) \/ ReadPumpCancel(c)
      PROVE  TableCalm
  BY <1>9 DEF ReadPumpReturn, ReadPumpCloseConn, ReadPumpCancel, indexVars
<1>10. ASSUME NEW c \in Clients, \/ WritePumpCtxDone(c) \/ WritePumpWriteError(c)
                                \/ WritePumpExpire(c) \/ WritePumpCloseConn(c)
       PROVE  TableCalm
  BY <1>10 DEF WritePumpCtxDone, WritePumpWriteError, WritePumpExpire, WritePumpCloseConn, indexVars
<1>11. ASSUME Shutdown \/ UNCHANGED vars PROVE TableCalm
  BY <1>11 DEF Shutdown, vars, indexVars
<1> HIDE DEF TypeOK, TableCalm, AddReturned, Goto
<1> QED
  BY <1>1, <1>2, <1>3, <1>4, <1>5, <1>6, <1>7, <1>8, <1>9, <1>10, <1>11,
     TablesCalm, TablesSubscribe, TablesUnsubscribe
     DEF Next, AddClientStep, RemoveClientStep, Terminated

\* Outside the two sections of Subscribe and Unsubscribe the channel table and its
\* reverse table agree for every connection, however AddClient, evictions,
\* administrators and the pumps interleave: RemoveConn, which reads the reverse
\* table, finds the channel of every connection whose Subscribe is complete.
THEOREM ReverseTableHolds == Spec => []ReverseTableAgrees
<1>1. Init => SoleRemover /\ TablesFollow
  <2> SUFFICES ASSUME Init PROVE SoleRemover /\ TablesFollow
    OBVIOUS
  <2>1. \A a \in Actors : pc[a] = "idle"
    BY DEF Init
  <2>2. chans = {} /\ \A c \in Clients : member[c] = 0
    BY DEF Init
  <2> QED BY <2>1, <2>2, ActorFacts DEF SoleRemover, PastRegistry, TablesFollow, AddReturned
<1>2. TypeOK /\ TablesFollow => ReverseTableAgrees
  <2> SUFFICES ASSUME TypeOK, TablesFollow, NEW c \in Clients
               PROVE  \/ c \in chans <=> member[c] = 1
                      \/ pc[H(c)] = "subMember" /\ c \in chans /\ member[c] = 0
                      \/ \E a \in Actors : tgt[a] = c /\ pc[a] = "unsubMember" /\ member[c] = 1
    BY DEF ReverseTableAgrees
  <2>1. CASE AddReturned(c)
    BY <2>1 DEF TablesFollow
  <2>2. CASE ~AddReturned(c)
    BY <2>2 DEF TablesFollow
  <2> QED BY <2>1, <2>2
<1>3. TypeOK /\ SessionInv /\ SoleRemover /\ TablesFollow /\ [Next]_vars
        => (SoleRemover /\ TablesFollow)'
  BY SoleRemoverStep, TablesStep
<1> QED BY <1>1, <1>2, <1>3, SessionInvariant, PTL DEF Spec

-----------------------------------------------------------------------------
(* The close frame *)

\* Every step keeps CloseOrder, and with it the honesty of the close frame.
LEMMA CloseOrderStep ==
  ASSUME TypeOK, SessionInv, CloseOrder, CloseFrameHonest, [Next]_vars
  PROVE  CloseOrder' /\ CloseFrameHonest'
<1> USE ActorFacts DEF TypeOK, CloseOrder, CloseFrameHonest, Goto, Codes, Replaced, AdminClosed,
        SessionExpired, NoCode, GoingAway
<1>1. ASSUME NEW c \in Clients, AddClientBegin(c) \/ AddClientStep(c)
      PROVE  CloseOrder' /\ CloseFrameHonest'
  <2>1. UNCHANGED <<closeVars, wireVars, tgt, shutdown>>
    BY <1>1 DEF AddClientBegin, AddClientStep, ConnManAdd, SessionsAdd, SubscribeChan, SubscribeMember,
                SpawnPumps
  <2>2. /\ \A d \in Clients : pc'[R(d)] \in {"cancel", "done"} => pc[R(d)] \in {"cancel", "done"}
        /\ \A b \in Actors : pc'[b] = "closeCancel" => pc[b] = "closeCancel"
    <3>1. CASE SpawnPumps(c)
      <4>1. \A b \in Actors : pc'[b] = pc[b] \/ (b = H(c) /\ pc'[b] = "done") \/ pc'[b] = "run"
        BY <3>1 DEF SpawnPumps
      <4> QED BY <4>1
    <3>2. CASE ~SpawnPumps(c)
      <4>1. \A b \in Actors : b # H(c) => pc'[b] = pc[b]
        BY <1>1, <3>2 DEF AddClientBegin, AddClientStep, ConnManAdd, SessionsAdd, SubscribeChan, SubscribeMember
      <4>2. pc'[H(c)] # "closeCancel"
        BY <1>1, <3>2 DEF AddClientBegin, AddClientStep, ConnManAdd, SessionsAdd, SubscribeChan, SubscribeMember
      <4> QED BY <4>1, <4>2
    <3> QED BY <3>1, <3>2
  <2> QED BY <2>1, <2>2 DEF closeVars, wireVars
<1>2. ASSUME NEW a \in Actors, RemoveClientStep(a) \/ LoopStep(a)
      PROVE  CloseOrder' /\ CloseFrameHonest'
  <2>1. UNCHANGED <<closeVars, wireVars, shutdown>>
    BY <1>2 DEF RemoveClientStep, ConnManRemove, SessionsRemove, RemoveConnSnapshot, UnsubscribeChan,
                UnsubscribeMember, LoopStep, EachNext, EachDone
  <2>2. \A b \in Actors : b # a => pc'[b] = pc[b] /\ tgt'[b] = tgt[b]
    BY <1>2 DEF RemoveClientStep, ConnManRemove, SessionsRemove, RemoveConnSnapshot, UnsubscribeChan,
                UnsubscribeMember, LoopStep, EachNext, EachDone
  <2>3. pc'[a] \notin {"cancel", "done", "closeCancel"}
    BY SMTT(30), <1>2, ReturnLabels
       DEF RemoveClientStep, ConnManRemove, SessionsRemove, RemoveConnSnapshot, UnsubscribeChan,
           UnsubscribeMember, LoopStep, EachNext, EachDone
  <2>4. /\ \A d \in Clients : pc'[R(d)] \in {"cancel", "done"} => pc[R(d)] \in {"cancel", "done"}
        /\ \A b \in Actors : pc'[b] = "closeCancel" => pc[b] = "closeCancel" /\ tgt'[b] = tgt[b]
    BY <2>2, <2>3
  <2> QED BY <2>1, <2>4 DEF closeVars, wireVars
<1>3. ASSUME NEW a \in Actors, CloseStore(a) PROVE CloseOrder' /\ CloseFrameHonest'
  <2>1. CloseCode(a) \in Codes /\ CloseCode(a) # NoCode
    BY CloseCodeType
  <2>2. tgt[a] \in Clients /\ closeInfo[tgt[a]] = NoCode
    BY <1>3 DEF CloseStore
  <2>3. UNCHANGED <<cancelled, wireVars, tgt, shutdown>>
    BY <1>3 DEF CloseStore
  <2>4. /\ closeInfo' = [closeInfo EXCEPT ![tgt[a]] = CloseCode(a)]
        /\ once' = [once EXCEPT ![tgt[a]] = "busy"]
        /\ pc' = [pc EXCEPT ![a] = "closeCancel"]
    BY <1>3 DEF CloseStore
  <2>5. CloseOrder'
    BY <2>1, <2>2, <2>3, <2>4 DEF wireVars
  <2>6. CloseFrameHonest'
    BY <2>1, <2>2, <2>3, <2>4 DEF wireVars
  <2> QED BY <2>5, <2>6
<1>4. ASSUME NEW a \in Actors, CloseCancel(a) PROVE CloseOrder' /\ CloseFrameHonest'
  <2>1. pc'[a] \notin {"cancel", "done", "closeCancel"}
    BY SMTT(30), <1>4, ReturnLabels DEF CloseCancel
  <2> QED BY <1>4, <2>1 DEF CloseCancel, wireVars
<1>5. ASSUME NEW a \in Actors, CloseAgain(a) PROVE CloseOrder' /\ CloseFrameHonest'
  <2>1. pc'[a] \notin {"cancel", "done", "closeCancel"}
    BY <1>5, ReturnLabels DEF CloseAgain
  <2> QED BY <1>5, <2>1 DEF CloseAgain, wireVars, closeVars
<1>6. ASSUME NEW i \in Admins, NEW r, NEW u, CloseRoom(i, r) \/ KickClient(i, r, u)
      PROVE  CloseOrder' /\ CloseFrameHonest'
  <2>1. /\ tgt' = tgt /\ shutdown' = shutdown /\ sock' = sock /\ sent' = sent
        /\ once' = once /\ closeInfo' = closeInfo /\ cancelled' = cancelled
    BY <1>6 DEF CloseRoom, KickClient, closeVars, wireVars
  <2>2. pc' = [pc EXCEPT ![<<"a", i>>] = "each"]
    BY <1>6 DEF CloseRoom, KickClient
  <2>3. \A b \in Actors : pc'[b] = pc[b] \/ pc'[b] = "each"
    BY <2>2
  <2> QED BY <2>1, <2>3
<1>7. ASSUME NEW c \in Clients, ReadPumpReturn(c) PROVE CloseOrder' /\ CloseFrameHonest'
  BY <1>7 DEF ReadPumpReturn, wireVars, closeVars
<1>8. ASSUME NEW c \in Clients, ReadPumpCloseConn(c) PROVE CloseOrder' /\ CloseFrameHonest'
  BY <1>8 DEF ReadPumpCloseConn, closeVars
<1>9. ASSUME NEW c \in Clients, ReadPumpCancel(c) PROVE CloseOrder' /\ CloseFrameHonest'
  BY <1>9 DEF ReadPumpCancel, wireVars
<1>10. ASSUME NEW c \in Clients, WritePumpCtxDone(c) PROVE CloseOrder' /\ CloseFrameHonest'
  <2>1. CloseOrder'
    BY <1>10 DEF WritePumpCtxDone, closeVars
  <2>2. \A d \in Clients : d # c => sent'[d] = sent[d]
    BY <1>10 DEF WritePumpCtxDone
  <2>3. sent'[c] = sent[c] \/ sent'[c] = closeInfo[c] \/ (sent'[c] = GoingAway /\ shutdown)
    BY <1>10 DEF WritePumpCtxDone, Done
  <2> QED BY <1>10, <2>1, <2>2, <2>3 DEF WritePumpCtxDone, closeVars
<1>11. ASSUME NEW c \in Clients, WritePumpWriteError(c) \/ WritePumpExpire(c)
       PROVE  CloseOrder' /\ CloseFrameHonest'
  BY <1>11 DEF WritePumpWriteError, WritePumpExpire, wireVars, closeVars
<1>12. ASSUME NEW c \in Clients, WritePumpCloseConn(c) PROVE CloseOrder' /\ CloseFrameHonest'
  BY <1>12 DEF WritePumpCloseConn, closeVars
<1>13. ASSUME Shutdown \/ UNCHANGED vars PROVE CloseOrder' /\ CloseFrameHonest'
  BY <1>13 DEF Shutdown, vars, wireVars, closeVars
<1> HIDE DEF TypeOK, CloseOrder, CloseFrameHonest, Goto
<1> QED
  BY <1>1, <1>2, <1>3, <1>4, <1>5, <1>6, <1>7, <1>8, <1>9, <1>10, <1>11, <1>12, <1>13
     DEF Next, CloseStep, Terminated

\* The code of the close frame that reaches a peer is the one the first Close
\* stored; 1001 is sent only when the gateway shuts down, although ReadPump,
\* WritePump and Close callers cancel, close the socket and store the code in
\* any interleaving.
THEOREM CloseFrameHolds == Spec => []CloseFrameHonest
<1>1. Init => CloseOrder /\ CloseFrameHonest
  <2> SUFFICES ASSUME Init PROVE CloseOrder /\ CloseFrameHonest
    OBVIOUS
  <2>1. \A a \in Actors : pc[a] = "idle"
    BY DEF Init
  <2>2. \A c \in Clients : once[c] = "new" /\ closeInfo[c] = NoCode /\ ~cancelled[c] /\ sent[c] = NoCode
    BY DEF Init
  <2> QED BY <2>1, <2>2, ActorFacts DEF CloseOrder, CloseFrameHonest
<1>2. TypeOK /\ SessionInv /\ CloseOrder /\ CloseFrameHonest /\ [Next]_vars
        => (CloseOrder /\ CloseFrameHonest)'
  BY CloseOrderStep
<1> QED BY <1>1, <1>2, SessionInvariant, PTL DEF Spec

-----------------------------------------------------------------------------
(* The refinement of Presence *)

\* A handler publishes its connection with SessionIndex.Add and nowhere else,
\* and what is published stays published.
LEMMA PublishedStep ==
  ASSUME TypeOK, SessionInv, [Next]_vars, \A c \in Clients : ~SessionsAdd(c)
  PROVE  \A d \in Clients : Published(d)' <=> Published(d)
<1> USE ActorFacts DEF TypeOK, Published, Goto
<1>1. ASSUME NEW c \in Clients, AddClientBegin(c) \/ ConnManAdd(c) \/ SubscribeChan(c) \/ SubscribeMember(c)
      PROVE  \A d \in Clients : Published(d)' <=> Published(d)
  <2>1. \A b \in Actors : b # H(c) => pc'[b] = pc[b]
    BY <1>1 DEF AddClientBegin, ConnManAdd, SubscribeChan, SubscribeMember
  <2>2. Published(c)' <=> Published(c)
    BY <1>1 DEF AddClientBegin, ConnManAdd, SubscribeChan, SubscribeMember
  <2> QED BY <2>1, <2>2
<1>2. ASSUME NEW c \in Clients, SpawnPumps(c) PROVE \A d \in Clients : Published(d)' <=> Published(d)
  BY <1>2 DEF SpawnPumps
<1>3. ASSUME NEW a \in Actors, RemoveClientStep(a) \/ CloseStep(a) \/ LoopStep(a)
      PROVE  \A d \in Clients : Published(d)' <=> Published(d)
  <2>1. \A b \in Actors : b # a => pc'[b] = pc[b]
    BY <1>3 DEF RemoveClientStep, CloseStep, LoopStep, ConnManRemove, SessionsRemove, RemoveConnSnapshot,
                UnsubscribeChan, UnsubscribeMember, CloseStore, CloseCancel, CloseAgain, EachNext, EachDone
  <2>2. /\ pc[a] \in RemoveLabels \cup {"closeStore", "closeCancel", "each"}
        /\ pc'[a] \in RemoveLabels \cup {"connAdd", "idle", "each", "run", "connClose", "closeStore", "closeCancel"}
    BY <1>3, ReturnLabels
       DEF RemoveClientStep, CloseStep, LoopStep, ConnManRemove, SessionsRemove, RemoveConnSnapshot,
           UnsubscribeChan, UnsubscribeMember, CloseStore, CloseCancel, CloseAgain, EachNext, EachDone, RemoveLabels
  <2> QED BY <2>1, <2>2 DEF RemoveLabels
<1>4. ASSUME NEW i \in Admins, NEW r, NEW u, CloseRoom(i, r) \/ KickClient(i, r, u)
      PROVE  \A d \in Clients : Published(d)' <=> Published(d)
  <2>1. /\ pc' = [pc EXCEPT ![<<"a", i>>] = "each"]
        /\ \A d \in Clients : H(d) # <<"a", i>>
    BY <1>4 DEF CloseRoom, KickClient, H
  <2> QED BY <2>1
<1>5. ASSUME NEW c \in Clients,
             \/ ReadPumpReturn(c) \/ ReadPumpCloseConn(c) \/ ReadPumpCancel(c)
             \/ WritePumpCtxDone(c) \/ WritePumpWriteError(c) \/ WritePumpExpire(c) \/ WritePumpCloseConn(c)
      PROVE  \A d \in Clients : Published(d)' <=> Published(d)
  <2>1. \A d \in Clients : pc'[H(d)] = pc[H(d)]
    BY <1>5 DEF ReadPumpReturn, ReadPumpCloseConn, ReadPumpCancel, WritePumpCtxDone, WritePumpWriteError,
                WritePumpExpire, WritePumpCloseConn
  <2> QED BY <2>1
<1>6. ASSUME Shutdown \/ UNCHANGED vars PROVE \A d \in Clients : Published(d)' <=> Published(d)
  BY <1>6 DEF Shutdown, vars
<1> HIDE DEF TypeOK, Published, Goto
<1> QED
  BY <1>1, <1>2, <1>3, <1>4, <1>5, <1>6 DEF Next, AddClientStep, Terminated

\* The users online in Presence are those of the session index.
LEMMA OnlineConnections ==
  ASSUME TypeOK'
  PROVE  Presence!UsersOf(PresenceStatus') = {UID[x] : x \in sess'}
<1>1. {x \in Clients : PresenceStatus'[x] = "online"} = sess'
  BY DEF TypeOK, PresenceStatus
<1> QED BY <1>1 DEF Presence!UsersOf

\* The instance of Presence counts as ConnKernel does.
LEMMA SameCardinality == \A S : Presence!Cardinality(S) = Cardinality(S)
  BY DEF Presence!Cardinality, Cardinality

\* SessionIndex.Add is the connection coming online.
LEMMA PresenceConnect ==
  ASSUME TypeOK, TypeOK', SessionInv, CountersExact', NEW c \in Clients, SessionsAdd(c)
  PROVE  Presence!Connect(c)
<1>1. /\ ~Published(c) /\ c \notin sess /\ Published(c)' /\ sess' = sess \cup {c}
      /\ \A d \in Clients : d # c => (Published(d)' <=> Published(d))
  BY ZenonT(30), ActorFacts DEF TypeOK, SessionInv, OnlyPublished, SessionsAdd, Published, Goto
<1>2. PresenceStatus[c] = "offline" /\ PresenceStatus' = [PresenceStatus EXCEPT ![c] = "online"]
  BY <1>1 DEF PresenceStatus
<1> QED BY <1>2, OnlineConnections, SameCardinality DEF Presence!Connect, CountersExact

\* SessionIndex.Remove is the connection leaving, or nothing if it is gone.
LEMMA PresenceDisconnect ==
  ASSUME TypeOK, TypeOK', SessionInv, CountersExact', NEW a \in Actors, SessionsRemove(a),
         \A d \in Clients : Published(d)' <=> Published(d)
  PROVE  Presence!Disconnect(tgt[a]) \/ UNCHANGED Presence!vars
<1> DEFINE c == tgt[a]
<1>1. c \in Clients /\ Published(c)
  BY DEF TypeOK, SessionInv, OnlyPublished, SessionsRemove, RemoveLabels
<1>2. sess' = sess \ {c} /\ userCount' = Uncount(userCount, sess, SameUser(c), c)
  BY DEF SessionsRemove
<1>3. CASE c \in sess
  <2>1. PresenceStatus[c] = "online" /\ PresenceStatus' = [PresenceStatus EXCEPT ![c] = "gone"]
    BY <1>1, <1>2, <1>3 DEF PresenceStatus
  <2> QED BY <2>1, OnlineConnections, SameCardinality DEF Presence!Disconnect, CountersExact
<1>4. CASE c \notin sess
  <2>1. sess' = sess /\ userCount' = userCount
    BY <1>2, <1>4 DEF Uncount
  <2>2. PresenceStatus' = PresenceStatus
    BY <2>1 DEF PresenceStatus
  <2> QED BY <2>1, <2>2 DEF Presence!vars
<1> QED BY <1>3, <1>4

\* Every step of the kernel is a step of the atomic registry or none.
LEMMA PresenceStep ==
  ASSUME TypeOK, TypeOK', SessionInv, CountersExact', [Next]_vars
  PROVE  [Presence!Next]_Presence!vars
<1>1. ASSUME NEW c \in Clients, SessionsAdd(c) PROVE [Presence!Next]_Presence!vars
  BY <1>1, PresenceConnect DEF Presence!Next
<1>2. ASSUME \A c \in Clients : ~SessionsAdd(c) PROVE [Presence!Next]_Presence!vars
  <2>1. \A d \in Clients : Published(d)' <=> Published(d)
    BY <1>2, PublishedStep
  <2>2. ASSUME NEW a \in Actors, SessionsRemove(a) PROVE [Presence!Next]_Presence!vars
    <3>1. tgt[a] \in Clients
      BY <2>2 DEF SessionsRemove, TypeOK
    <3>2. Presence!Disconnect(tgt[a]) \/ UNCHANGED Presence!vars
      BY <2>1, <2>2, PresenceDisconnect
    <3> QED BY <3>1, <3>2 DEF Presence!Next
  <2>3. ASSUME \A a \in Actors : ~SessionsRemove(a) PROVE UNCHANGED Presence!vars
    <3>1. sess' = sess /\ userCount' = userCount
      BY <1>2, <2>3
         DEF Next, AddClientStep, RemoveClientStep, CloseStep, LoopStep, AddClientBegin, ConnManAdd,
             SubscribeChan, SubscribeMember, SpawnPumps, ConnManRemove, RemoveConnSnapshot, UnsubscribeChan,
             UnsubscribeMember, CloseStore, CloseCancel, CloseAgain, EachNext, EachDone, CloseRoom, KickClient,
             ReadPumpReturn, ReadPumpCloseConn, ReadPumpCancel, WritePumpCtxDone, WritePumpWriteError,
             WritePumpExpire, WritePumpCloseConn, Shutdown, Terminated, vars, indexVars
    <3>2. PresenceStatus' = PresenceStatus
      BY <2>1, <3>1 DEF PresenceStatus
    <3> QED BY <3>1, <3>2 DEF Presence!vars
  <2> QED BY <2>2, <2>3
<1> QED BY <1>1, <1>2

\* The kernel's three separately locked indexes implement one atomic registry:
\* every connection comes online once, leaves once and never returns, and
\* OnlineUserCount is exact at every moment (hub.go 101-125, 205-219).
THEOREM PresenceImplemented == Spec => PresenceRefinement
<1>1. Init => Presence!Init
  <2> SUFFICES ASSUME Init PROVE Presence!Init
    OBVIOUS
  <2>1. \A c \in Clients : c \notin sess /\ ~Published(c)
    BY ActorFacts DEF Init, Published
  <2>2. PresenceStatus = [c \in Clients |-> "offline"]
    BY <2>1 DEF PresenceStatus
  <2> QED BY <2>2 DEF Init, Presence!Init
<1>2. TypeOK /\ TypeOK' /\ SessionInv /\ CountersExact' /\ [Next]_vars => [Presence!Next]_Presence!vars
  BY PresenceStep
<1> QED BY <1>1, <1>2, SessionInvariant, CountersCorrect, PTL DEF Spec, PresenceRefinement, Presence!Spec
=============================================================================
