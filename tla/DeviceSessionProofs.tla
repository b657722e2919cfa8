------------------------ MODULE DeviceSessionProofs ------------------------
(***************************************************************************)
(* The invariants of DeviceSession, proved for any number of devices,      *)
(* requests and WebSockets.                                                *)
(*                                                                         *)
(* TypeOK is not inductive by itself: that a watcher looks up a device in  *)
(* ACTIVE_PROCESSES by a name that exists needs the order in which a       *)
(* handler, its guard, its child and its watcher come and go.  The rest is *)
(* proved on top of that base, one theorem per shared structure.           *)
(***************************************************************************)
EXTENDS DeviceSession, TLAPS

\* A watcher exists only once its handler has answered, a guard's removal task
\* only once the handler has left, and a child only from the spawn on.
LifeOrder ==
  \A r \in Requests :
    /\ watcher[r] # "none" => pc[r] = "done"
    /\ r \in unguard => pc[r] \in {"done", "failed"}
    /\ child[r] # "none" => pc[r] \in {"track", "done", "failed"}

Base == TypeOK /\ LifeOrder

\* The device of a request that has arrived is a device.
LEMMA DevType == ASSUME TypeOK, NEW r \in Requests, pc[r] # "idle" PROVE Dev(r) \in Devices
  BY DEF TypeOK, Request, Dev

\* Every step preserves the types and the order of a request's life.
LEMMA BaseStep == Base /\ [Next]_vars => Base'
<1> SUFFICES ASSUME Base, [Next]_vars PROVE Base'
  OBVIOUS
<1> USE DEF Base, TypeOK, LifeOrder, Phases, Waiting, Guarded, Registering, Sending,
        Goto, Leave, Released, Resolved, RemoveDevice,
        handlerVars, cleanupVars, guardVars, childVars
<1>1. ASSUME NEW r \in Requests, Handler(r) PROVE Base'
  <2>0. pc[r] # "idle" => Dev(r) \in Devices
    BY DevType
  <2>1. CASE CheckControlled(r) BY <2>1 DEF CheckControlled
  <2>2. CASE Reserve(r) BY <2>0, <2>2 DEF Reserve
  <2>3. CASE ChooseRole(r) BY <2>3 DEF ChooseRole
  <2>4. CASE Register(r)
    <3>1. controlled' \subseteq Entry
      <4> DEFINE e == [dev |-> Dev(r), scid |-> r, main |-> pc[r] = "registerMain"]
      <4>1. Dev(r) \in Devices BY <2>0, <2>4 DEF Register
      <4>2. (pc[r] = "registerMain") \in BOOLEAN OBVIOUS
      <4>3. e \in Entry BY <4>1, <4>2, Zenon DEF Entry
      <4> QED BY <2>4, <4>3 DEF Register, AddDevice
    <3>2. pc' = [pc EXCEPT ![r] = "sendVideo"] \/ pc' = [pc EXCEPT ![r] = "sendControl"]
            \/ pc' = [pc EXCEPT ![r] = "sendSub"]
      BY <2>4 DEF Register
    <3> QED BY <2>4, <3>1, <3>2 DEF Register
  <2>5. CASE SendConnect(r) BY <2>5 DEF SendConnect
  <2>6. CASE SpawnChild(r) BY <2>6 DEF SpawnChild
  <2>7. CASE Track(r) BY <2>0, <2>7 DEF Track
  <2>8. CASE FindForReconnect(r) BY <2>8 DEF FindForReconnect
  <2>9. CASE TakeAndKill(r) BY <2>0, <2>9 DEF TakeAndKill
  <2>10. CASE LookupMisses(r) BY <2>10 DEF LookupMisses
  <2>11. CASE SendShutdown(r) BY <2>11 DEF SendShutdown, Entry, Target
  <2>12. CASE Unregister(r) BY <2>12 DEF Unregister
  <2> QED
    BY <1>1, <2>1, <2>2, <2>3, <2>4, <2>5, <2>6, <2>7, <2>8, <2>9, <2>10, <2>11, <2>12
    DEF Handler
<1>2. ASSUME NEW r \in Requests, Watcher(r) PROVE Base'
  <2>0. watcher[r] # "none" => Dev(r) \in Devices
    BY DevType
  <2>1. CASE WatcherWakes(r) BY <2>1 DEF WatcherWakes, Reaped
  <2>2. CASE WatcherUnregisters(r) BY <2>2 DEF WatcherUnregisters
  <2>3. CASE WatcherUntracks(r) BY <2>0, <2>3 DEF WatcherUntracks
  <2> QED BY <1>2, <2>1, <2>2, <2>3 DEF Watcher
<1>3. ASSUME NEW r \in Requests, Environment(r) PROVE Base'
  <2>1. CASE Arrive(r)
    <3>1. PICK q \in Request :
            /\ req' = [req EXCEPT ![r] = q]
            /\ Goto(r, CASE q.op = "control"   -> "check"
                         [] q.op = "decontrol" -> "kill"
                         [] q.op = "reconnect" -> "find")
      BY <2>1 DEF Arrive
    <3>2. q.op \in {"control", "decontrol", "reconnect"}
      BY DEF Request
    <3>3. \E phase \in {"check", "kill", "find"} : pc' = [pc EXCEPT ![r] = phase]
      BY <3>1, <3>2
    <3>4. PICK phase \in {"check", "kill", "find"} : pc' = [pc EXCEPT ![r] = phase]
      BY <3>3
    <3>5. /\ pc[r] = "idle"
          /\ req' = [req EXCEPT ![r] = q]
          /\ UNCHANGED <<found, cleanupVars, controlled, guardVars, childVars>>
      BY <2>1, <3>1 DEF Arrive
    <3>6. TypeOK'
      BY <3>4, <3>5
    <3>7. LifeOrder'
      BY <3>4, <3>5
    <3> QED BY <3>6, <3>7
  <2>2. CASE PushFails(r) BY <2>2 DEF PushFails
  <2>3. CASE SpawnFails(r) BY <2>3 DEF SpawnFails
  <2>4. CASE ClientGone(r) BY <2>4 DEF ClientGone
  <2>5. CASE ChildExits(r) BY <2>5 DEF ChildExits
  <2>6. CASE AcceptFails(r) BY <2>6 DEF AcceptFails
  <2> QED BY <1>3, <2>1, <2>2, <2>3, <2>4, <2>5, <2>6 DEF Environment
<1>4. ASSUME NEW r \in Requests, Unguard(r) PROVE Base'
  BY <1>4 DEF Unguard
<1>5. ASSUME NEW w \in Sockets, SocketCloses(w) \/ Cleanup(w) PROVE Base'
  BY <1>5 DEF SocketCloses, Cleanup, CleanupSends, CleanupRemoves, Entry, Target
<1>6. CASE UNCHANGED vars
  BY <1>6 DEF vars
<1> QED
  BY <1>1, <1>2, <1>3, <1>4, <1>5, <1>6 DEF Next

LEMMA BaseHolds == Spec => []Base
<1>1. Init => Base
  BY DEF Init, Base, TypeOK, LifeOrder, Phases
<1> QED
  BY <1>1, BaseStep, PTL DEF Spec

\* Every variable has its type in every reachable state.
THEOREM TypeCorrect == Spec => []TypeOK
<1>1. Base => TypeOK
  BY DEF Base
<1> QED
  BY <1>1, BaseHolds, PTL

-----------------------------------------------------------------------------
(* The kill senders.                                                        *)

\* HandleFresh is inductive together with what makes the next insertion
\* fresh: a child without a watcher has not been told to die.
Handles ==
  /\ HandleFresh
  /\ KillHandleOwned
  /\ \A r \in killed : watcher[r] # "none"

\* The steps that leave the senders and the devices of the watched alone.
LEMMA HandlesFrame ==
  ASSUME Base, Handles, UNCHANGED <<processes, watcher, killed>>,
         \A r \in Requests : watcher[r] # "none" => req'[r] = req[r]
  PROVE  Handles'
<1> USE DEF Handles, HandleFresh, KillHandleOwned, Base, TypeOK, Dev
<1>1. HandleFresh'
  OBVIOUS
<1>2. KillHandleOwned'
  OBVIOUS
<1> QED
  BY <1>1, <1>2

LEMMA HandlesStep == Base /\ Handles /\ [Next]_vars => Handles'
<1> SUFFICES ASSUME Base, Handles, [Next]_vars PROVE Handles'
  OBVIOUS
<1> USE DEF handlerVars, cleanupVars, guardVars, childVars
<1>a. ASSUME NEW r \in Requests, pc[r] # "idle" PROVE Dev(r) \in Devices
  BY <1>a, DevType DEF Base
<1>b. ASSUME NEW r \in Requests, watcher[r] # "none" PROVE Dev(r) \in Devices
  BY <1>a, <1>b DEF Base, LifeOrder
<1>1. ASSUME NEW r \in Requests, Track(r) PROVE Handles'
  <2>1. /\ pc[r] = "track" /\ watcher[r] = "none" /\ r \notin killed
        /\ req' = req
        /\ killed' = killed \cup Resolved(Dev(r))
        /\ processes' = [processes EXCEPT ![Dev(r)] = r]
        /\ watcher' = [watcher EXCEPT ![r] = "waiting"]
    BY <1>1 DEF Track, Base, LifeOrder, Handles
  <2>2. Dev(r) \in Devices
    BY <1>a, <2>1
  <2>3. HandleFresh'
    BY <2>1, <2>2, NoneAssumption
    DEF Handles, HandleFresh, Resolved, Base, TypeOK, Dev
  <2>4. KillHandleOwned'
    BY <2>1, <2>2, NoneAssumption
    DEF Handles, KillHandleOwned, Resolved, Base, TypeOK, Dev
  <2>5. \A q \in killed' : watcher'[q] # "none"
    BY <2>1, <2>2 DEF Handles, HandleFresh, Resolved, Base, TypeOK
  <2> QED
    BY <2>3, <2>4, <2>5 DEF Handles
<1>2. ASSUME NEW r \in Requests, TakeAndKill(r) \/ WatcherUntracks(r) PROVE Handles'
  <2>1. /\ req' = req
        /\ killed' = killed \cup Resolved(Dev(r))
        /\ processes' = [processes EXCEPT ![Dev(r)] = None]
        /\ watcher' = watcher \/ watcher' = [watcher EXCEPT ![r] = "done"]
        /\ watcher' # watcher => watcher[r] = "untrack"
    BY <1>2 DEF TakeAndKill, WatcherUntracks
  <2>2. Dev(r) \in Devices
    BY <1>2, <1>a, <1>b DEF TakeAndKill, WatcherUntracks
  <2>3. HandleFresh'
    BY <2>1, <2>2, NoneAssumption
    DEF Handles, HandleFresh, Resolved, Base, TypeOK, Dev
  <2>4. KillHandleOwned'
    BY <2>1, <2>2, NoneAssumption
    DEF Handles, KillHandleOwned, Resolved, Base, TypeOK, Dev
  <2>5. \A q \in killed' : watcher'[q] # "none"
    BY <2>1, <2>2 DEF Handles, HandleFresh, Resolved, Base, TypeOK
  <2> QED
    BY <2>3, <2>4, <2>5 DEF Handles
<1>3. ASSUME NEW r \in Requests, WatcherWakes(r) \/ WatcherUnregisters(r) PROVE Handles'
  BY <1>3 DEF WatcherWakes, WatcherUnregisters, Handles, HandleFresh, KillHandleOwned,
              Base, TypeOK, Dev
<1>4. ASSUME NEW r \in Requests, Arrive(r) PROVE Handles'
  <2>1. \A q \in Requests : watcher[q] # "none" => req'[q] = req[q]
    BY <1>4 DEF Arrive, Base, LifeOrder, TypeOK
  <2> QED
    BY <1>4, <2>1, HandlesFrame DEF Arrive
<1>5. ASSUME UNCHANGED <<processes, watcher, killed, req>> PROVE Handles'
  BY <1>5, HandlesFrame
<1> QED
  BY <1>1, <1>2, <1>3, <1>4, <1>5
  DEF Next, Handler, Watcher, Environment, Cleanup, vars,
      CheckControlled, Reserve, ChooseRole, Register, SendConnect, SpawnChild,
      FindForReconnect, LookupMisses, SendShutdown, Unregister,
      PushFails, SpawnFails, ClientGone, ChildExits, AcceptFails, Unguard,
      SocketCloses, CleanupSends, CleanupRemoves

LEMMA HandlesHold == Spec => []Handles
<1>1. Init => Handles
  BY DEF Init, Handles, HandleFresh, KillHandleOwned
<1> QED
  BY <1>1, BaseHolds, HandlesStep, PTL DEF Spec

\* No child runs on that a decontrol of its device could not reach.
THEOREM EveryChildKillable == Spec => []KillHandleOwned
<1>1. Handles => KillHandleOwned
  BY DEF Handles
<1> QED
  BY <1>1, HandlesHold, PTL

\* ACTIVE_PROCESSES holds only senders of children whose watcher is alive.
THEOREM NoStaleHandle == Spec => []HandleFresh
<1>1. Handles => HandleFresh
  BY DEF Handles
<1> QED
  BY <1>1, HandlesHold, PTL

-----------------------------------------------------------------------------
(* CONNECTING_DEVICES.                                                      *)

\* The steps that keep every request's hold on its device.
LEMMA ReservationFrame ==
  ASSUME Base, ReservationExclusive, connecting' = connecting, Holders' = Holders,
         \A r \in Holders : req'[r] = req[r]
  PROVE  ReservationExclusive'
  BY DEF ReservationExclusive, Dev

LEMMA ReservationStep == Base /\ ReservationExclusive /\ [Next]_vars => ReservationExclusive'
<1> SUFFICES ASSUME Base, ReservationExclusive, [Next]_vars PROVE ReservationExclusive'
  OBVIOUS
<1> USE DEF handlerVars, cleanupVars, guardVars, childVars
<1>a. pc \in [Requests -> Phases] /\ unguard \subseteq Requests
  BY DEF Base, TypeOK
<1>b. \A r \in unguard : pc[r] \in {"done", "failed"}
  BY <1>a DEF Base, LifeOrder
<1>1. ASSUME NEW r \in Requests, Arrive(r) PROVE ReservationExclusive'
  <2>1. pc[r] = "idle" /\ pc'[r] \notin Guarded
    BY <1>1, <1>a DEF Arrive, Request, Goto, Guarded, Registering, Sending
  <2>2. \A q \in Requests \ {r} : pc'[q] = pc[q] /\ req'[q] = req[q]
    BY <1>1, <1>a DEF Arrive, Goto, Base, TypeOK
  <2>3. r \notin Holders /\ Holders' = Holders
    BY <1>1, <1>b, <2>1, <2>2 DEF Arrive, Holders, Guarded, Registering, Sending
  <2> QED
    BY <1>1, <1>a, <2>2, <2>3, ReservationFrame DEF Arrive, Holders
<1>2. ASSUME NEW r \in Requests, Reserve(r) PROVE ReservationExclusive'
  <2>1. CASE IsConnecting(Dev(r))
    <3>1. Holders' = Holders
      BY <1>2, <1>a, <2>1 DEF Reserve, Goto, Holders, Guarded, Registering, Sending
    <3> QED
      BY <1>2, <2>1, <3>1, ReservationFrame DEF Reserve
  <2>2. CASE ~IsConnecting(Dev(r))
    <3>1. Holders' = Holders \cup {r}
      BY <1>2, <1>a, <2>2 DEF Reserve, Goto, Holders, Guarded, Registering, Sending
    <3>2. \A q \in Holders : Dev(q) # Dev(r)
      BY <2>2 DEF IsConnecting, ReservationExclusive
    <3> QED
      BY <1>2, <2>2, <3>1, <3>2 DEF Reserve, ReservationExclusive, Dev
  <2> QED
    BY <2>1, <2>2
<1>3. ASSUME NEW r \in Requests, Unguard(r) PROVE ReservationExclusive'
  <2>1. Holders' = Holders \ {r}
    BY <1>3, <1>a, <1>b DEF Unguard, Holders, Guarded, Registering, Sending
  <2>2. r \in Holders
    BY <1>3 DEF Unguard, Holders
  <2> QED
    BY <1>3, <2>1, <2>2 DEF Unguard, ReservationExclusive, Dev
<1>4. ASSUME NEW r \in Requests, NEW phase \in {"done", "failed"},
             Leave(r, phase), connecting' = connecting, req' = req
      PROVE  ReservationExclusive'
  <2>1. Holders' = Holders
    BY <1>4, <1>a DEF Leave, Goto, Released, Holders, Guarded, Registering, Sending
  <2> QED
    BY <1>4, <2>1, ReservationFrame
<1>5. ASSUME NEW r \in Requests, NEW phase \in Phases, Goto(r, phase),
             pc[r] \in Guarded <=> phase \in Guarded,
             UNCHANGED <<connecting, unguard, req>>
      PROVE  ReservationExclusive'
  <2>1. Holders' = Holders
    BY <1>5, <1>a DEF Goto, Holders
  <2> QED
    BY <1>5, <2>1, ReservationFrame
<1>6. ASSUME UNCHANGED <<connecting, unguard, req, pc>> PROVE ReservationExclusive'
  BY <1>6, ReservationFrame DEF Holders
<1>7. ASSUME NEW r \in Requests, Handler(r) PROVE ReservationExclusive'
  <2> USE DEF Phases, Waiting, Guarded, Registering, Sending
  <2>1. CASE Track(r) BY <2>1, <1>4 DEF Track
  <2>2. CASE CheckControlled(r) BY <2>2, <1>5 DEF CheckControlled
  <2>3. CASE ChooseRole(r) BY <2>3, <1>5 DEF ChooseRole
  <2>4. CASE Register(r) BY <2>4, <1>5 DEF Register
  <2>5. CASE SendConnect(r) BY <2>5, <1>5 DEF SendConnect
  <2>6. CASE SpawnChild(r) BY <2>6, <1>5 DEF SpawnChild
  <2>7. CASE FindForReconnect(r) BY <2>7, <1>5 DEF FindForReconnect
  <2>8. CASE TakeAndKill(r) BY <2>8, <1>5 DEF TakeAndKill
  <2>9. CASE LookupMisses(r) BY <2>9, <1>5 DEF LookupMisses
  <2>10. CASE SendShutdown(r) BY <2>10, <1>5 DEF SendShutdown
  <2>11. CASE Unregister(r) BY <2>11, <1>5 DEF Unregister
  <2> QED
    BY <1>2, <1>7, <2>1, <2>2, <2>3, <2>4, <2>5, <2>6, <2>7, <2>8, <2>9, <2>10, <2>11
    DEF Handler
<1>8. ASSUME NEW r \in Requests, PushFails(r) \/ SpawnFails(r) \/ ClientGone(r)
      PROVE  ReservationExclusive'
  BY <1>8, <1>4 DEF PushFails, SpawnFails, ClientGone
<1> QED
  BY <1>1, <1>3, <1>6, <1>7, <1>8
  DEF Next, Watcher, Environment, Cleanup, vars, WatcherWakes, WatcherUnregisters,
      WatcherUntracks, ChildExits, AcceptFails, SocketCloses, CleanupSends, CleanupRemoves

\* A reservation in CONNECTING_DEVICES belongs to exactly one request, and a
\* guard's removal task frees its own.
THEOREM OneReservationPerDevice == Spec => []ReservationExclusive
<1>1. Init => ReservationExclusive
  BY DEF Init, ReservationExclusive, Holders, Guarded, Registering, Sending
<1> QED
  BY <1>1, BaseHolds, ReservationStep, PTL DEF Spec

-----------------------------------------------------------------------------
(* The registry.                                                            *)

\* remove_device keeps the entries it does not name.
LEMMA RemoveKeeps == ASSUME NEW scid, RemoveDevice(scid) PROVE controlled' \subseteq controlled
  BY DEF RemoveDevice

LEMMA UniqueStep == RegistryUnique /\ [Next]_vars => RegistryUnique'
<1> SUFFICES ASSUME RegistryUnique, [Next]_vars PROVE RegistryUnique'
  OBVIOUS
<1>1. ASSUME controlled' \subseteq controlled PROVE RegistryUnique'
  BY <1>1 DEF RegistryUnique
<1>2. ASSUME NEW r \in Requests, Register(r) PROVE RegistryUnique'
  <2>1. CASE IsListed(Dev(r), r)
    BY <1>1, <1>2, <2>1 DEF Register, AddDevice
  <2>2. CASE ~IsListed(Dev(r), r)
    <3> DEFINE new == [dev |-> Dev(r), scid |-> r, main |-> pc[r] = "registerMain"]
    <3>1. controlled' = controlled \cup {new}
      BY <1>2, <2>2 DEF Register, AddDevice
    <3>2. new.dev = Dev(r) /\ new.scid = r
      OBVIOUS
    <3>3. \A e \in controlled : e.dev # new.dev /\ e.scid # new.scid
      BY <2>2, <3>2 DEF IsListed, RegisteredDevices, Scids
    <3> HIDE DEF new
    <3> QED
      BY <3>1, <3>3 DEF RegistryUnique
  <2> QED
    BY <2>1, <2>2
<1>3. ASSUME NEW r \in Requests,
             Unregister(r) \/ WatcherUnregisters(r) \/ AcceptFails(r)
      PROVE  RegistryUnique'
  BY <1>1, <1>3, RemoveKeeps DEF Unregister, WatcherUnregisters, AcceptFails
<1>4. ASSUME NEW w \in Sockets, CleanupRemoves(w) PROVE RegistryUnique'
  BY <1>1, <1>4, RemoveKeeps DEF CleanupRemoves
<1>5. ASSUME controlled' = controlled PROVE RegistryUnique'
  BY <1>1, <1>5
<1> QED
  BY <1>2, <1>3, <1>4, <1>5
  DEF Next, Handler, Watcher, Environment, Cleanup, vars,
      CheckControlled, Reserve, ChooseRole, SendConnect, SpawnChild, Track, FindForReconnect,
      TakeAndKill, LookupMisses, SendShutdown, Arrive, PushFails, SpawnFails, ClientGone,
      ChildExits, Unguard, WatcherWakes, WatcherUntracks, SocketCloses, CleanupSends

\* A device and a scid are each registered at most once: the dedup under the
\* registry's own lock is enough, whatever let two handlers through.
THEOREM OneEntryPerDevice == Spec => []RegistryUnique
<1>1. Init => RegistryUnique
  BY DEF Init, RegistryUnique
<1> QED
  BY <1>1, UniqueStep, PTL DEF Spec

\* What RegistryBacked says of one entry, and what a step must keep of it.
Backed(e) ==
  /\ e.dev = Dev(e.scid)
  /\ \/ pc[e.scid] \in Sending \cup {"spawn", "track", "failed"}
     \/ watcher[e.scid] \in {"waiting", "unregister"}

LEMMA BackedFrame ==
  ASSUME Base, RegistryBacked, controlled' \subseteq controlled,
         NEW r \in Requests,
         \A q \in Requests \ {r} : pc'[q] = pc[q] /\ watcher'[q] = watcher[q] /\ req'[q] = req[q],
         \A e \in controlled' : e.scid = r => Backed(e)'
  PROVE  RegistryBacked'
<1> SUFFICES ASSUME NEW e \in controlled' PROVE Backed(e)'
  BY DEF RegistryBacked, Backed
<1>1. e \in controlled /\ e.scid \in Requests /\ Backed(e)
  BY DEF RegistryBacked, Backed, Base, TypeOK, Entry
<1> QED
  BY <1>1 DEF Backed, Dev

LEMMA BackedStep == Base /\ RegistryBacked /\ [Next]_vars => RegistryBacked'
<1> SUFFICES ASSUME Base, RegistryBacked, [Next]_vars PROVE RegistryBacked'
  OBVIOUS
<1> USE DEF handlerVars, cleanupVars, guardVars, childVars
<1>a. /\ pc \in [Requests -> Phases] /\ watcher \in [Requests -> {"none", "waiting", "unregister", "untrack", "done"}]
      /\ req \in [Requests -> Request \cup {None}] /\ controlled \subseteq Entry
  BY DEF Base, TypeOK
<1>b. \A r \in Requests : watcher[r] # "none" => pc[r] = "done"
  BY DEF Base, LifeOrder
<1>c. \A e \in controlled : Backed(e) /\ e.scid \in Requests
  BY <1>a DEF RegistryBacked, Backed, Entry
<1>1. ASSUME UNCHANGED <<req, pc, watcher>>, controlled' \subseteq controlled
      PROVE  RegistryBacked'
  BY <1>1 DEF RegistryBacked, Dev
<1>2. ASSUME NEW r \in Requests, NEW phase, Goto(r, phase),
             UNCHANGED <<req, watcher>>, controlled' \subseteq controlled,
             pc[r] \in Sending \cup {"spawn", "track", "failed"}
               => phase \in Sending \cup {"spawn", "track", "failed"}
      PROVE  RegistryBacked'
  <2>1. pc' = [pc EXCEPT ![r] = phase]
    BY <1>2 DEF Goto
  <2>2. \A e \in controlled' : e.scid = r => Backed(e)'
    BY <1>2, <1>a, <1>c, <2>1 DEF Backed, Dev
  <2>3. \A q \in Requests \ {r} : pc'[q] = pc[q]
    BY <1>a, <2>1
  <2> QED
    BY <1>2, <2>2, <2>3, BackedFrame
<1>3. ASSUME NEW r \in Requests, Arrive(r) PROVE RegistryBacked'
  <2>1. \A e \in controlled : e.scid # r
    BY <1>3, <1>b, <1>c DEF Arrive, Backed, Sending
  <2>2. /\ \A q \in Requests \ {r} : pc'[q] = pc[q] /\ req'[q] = req[q]
        /\ controlled' = controlled /\ watcher' = watcher
    BY <1>3, <1>a DEF Arrive, Goto
  <2> QED
    BY <2>1, <2>2, BackedFrame
<1>4. ASSUME NEW r \in Requests, Register(r) PROVE RegistryBacked'
  <2>0. PICK new : new = [dev |-> Dev(r), scid |-> r, main |-> pc[r] = "registerMain"]
    OBVIOUS
  <2>1. /\ controlled' \subseteq controlled \cup {new}
        /\ req' = req /\ watcher' = watcher
        /\ \E phase \in Sending : pc' = [pc EXCEPT ![r] = phase]
    BY <1>4, <2>0 DEF Register, AddDevice, Goto, Sending
  <2>2. pc'[r] \in Sending /\ \A q \in Requests \ {r} : pc'[q] = pc[q]
    BY <2>1, <1>a
  <2>3. new.dev = Dev(r) /\ new.scid = r
    BY <2>0
  <2>4. Backed(new)'
    BY <2>1, <2>2, <2>3 DEF Backed, Dev
  <2>5. ASSUME NEW e \in controlled PROVE Backed(e)'
    BY <2>1, <2>2, <1>c DEF Backed, Dev
  <2> QED
    BY <2>1, <2>4, <2>5 DEF RegistryBacked, Backed
<1>5. ASSUME NEW r \in Requests, Track(r) PROVE RegistryBacked'
  <2>1. /\ pc' = [pc EXCEPT ![r] = "done"] /\ watcher' = [watcher EXCEPT ![r] = "waiting"]
        /\ req' = req /\ controlled' = controlled
    BY <1>5 DEF Track, Leave, Goto
  <2> QED
    BY <2>1, <1>a, <1>c DEF Backed, RegistryBacked, Dev
<1>6. ASSUME NEW r \in Requests, Watcher(r) PROVE RegistryBacked'
  <2>1. CASE WatcherWakes(r)
    BY <2>1, <1>a, <1>c DEF WatcherWakes, RegistryBacked, Backed, Dev
  <2>2. CASE WatcherUnregisters(r)
    BY <2>2, <1>a, <1>c DEF WatcherUnregisters, RemoveDevice, RegistryBacked, Backed, Dev
  <2>3. CASE WatcherUntracks(r)
    <3>1. \A e \in controlled : e.scid # r
      BY <2>3, <1>b, <1>c DEF WatcherUntracks, Backed, Sending
    <3> QED
      BY <2>3, <3>1, <1>a, <1>c DEF WatcherUntracks, RegistryBacked, Backed, Dev
  <2> QED
    BY <1>6, <2>1, <2>2, <2>3 DEF Watcher
<1>7. ASSUME NEW r \in Requests, Handler(r) PROVE RegistryBacked'
  <2> USE DEF Sending, Registering
  <2>1. CASE CheckControlled(r) BY <2>1, <1>2 DEF CheckControlled
  <2>2. CASE Reserve(r) BY <2>2, <1>2 DEF Reserve
  <2>3. CASE ChooseRole(r) BY <2>3, <1>2 DEF ChooseRole
  <2>4. CASE SendConnect(r) BY <2>4, <1>2 DEF SendConnect
  <2>5. CASE SpawnChild(r) BY <2>5, <1>2 DEF SpawnChild
  <2>6. CASE FindForReconnect(r) BY <2>6, <1>2 DEF FindForReconnect
  <2>7. CASE TakeAndKill(r) BY <2>7, <1>2 DEF TakeAndKill
  <2>8. CASE LookupMisses(r) BY <2>8, <1>2 DEF LookupMisses
  <2>9. CASE SendShutdown(r) BY <2>9, <1>2 DEF SendShutdown
  <2>10. CASE Unregister(r) BY <2>10, <1>2, RemoveKeeps DEF Unregister
  <2> QED
    BY <1>4, <1>5, <1>7, <2>1, <2>2, <2>3, <2>4, <2>5, <2>6, <2>7, <2>8, <2>9, <2>10
    DEF Handler
<1>8. ASSUME NEW r \in Requests, PushFails(r) \/ SpawnFails(r) \/ ClientGone(r)
      PROVE  RegistryBacked'
  BY <1>8, <1>2 DEF PushFails, SpawnFails, ClientGone, Leave
<1>9. ASSUME NEW r \in Requests, ChildExits(r) \/ AcceptFails(r) \/ Unguard(r)
      PROVE  RegistryBacked'
  BY <1>9, <1>1, RemoveKeeps DEF ChildExits, AcceptFails, Unguard
<1>10. ASSUME NEW w \in Sockets, SocketCloses(w) \/ Cleanup(w) PROVE RegistryBacked'
  BY <1>10, <1>1, RemoveKeeps DEF SocketCloses, Cleanup, CleanupSends, CleanupRemoves
<1>11. CASE UNCHANGED vars
  BY <1>11, <1>1 DEF vars
<1> QED
  BY <1>3, <1>6, <1>7, <1>8, <1>9, <1>10, <1>11 DEF Next, Environment

\* Every registry entry has somebody who will remove it, unless its handler
\* failed or was dropped after add_device.
THEOREM EveryEntryBacked == Spec => []RegistryBacked
<1>1. Init => RegistryBacked
  BY DEF Init, RegistryBacked
<1> QED
  BY <1>1, BaseHolds, BackedStep, PTL DEF Spec

-----------------------------------------------------------------------------
(* The children.                                                            *)

LEMMA WatchedStep == Base /\ ChildWatched /\ [Next]_vars => ChildWatched'
<1> SUFFICES ASSUME Base, ChildWatched, [Next]_vars PROVE ChildWatched'
  OBVIOUS
<1> USE DEF handlerVars, cleanupVars, guardVars, childVars
<1>a. /\ pc \in [Requests -> Phases] /\ watcher \in [Requests -> {"none", "waiting", "unregister", "untrack", "done"}]
      /\ child \in [Requests -> {"none", "running", "gone"}]
  BY DEF Base, TypeOK
<1>b. \A r \in Requests : child[r] # "none" => pc[r] \in {"track", "done", "failed"}
  BY DEF Base, LifeOrder
<1>1. ASSUME UNCHANGED <<pc, watcher, child>> PROVE ChildWatched'
  BY <1>1 DEF ChildWatched
<1>2. ASSUME NEW r \in Requests, NEW phase, Goto(r, phase), UNCHANGED <<watcher, child>>,
             pc[r] \in {"track", "failed"} => phase = "failed"
      PROVE  ChildWatched'
  BY <1>2, <1>a DEF Goto, ChildWatched
<1>3. ASSUME NEW r \in Requests, SpawnChild(r) PROVE ChildWatched'
  BY <1>3, <1>a DEF SpawnChild, Goto, ChildWatched
<1>4. ASSUME NEW r \in Requests, Track(r) PROVE ChildWatched'
  BY <1>4, <1>a DEF Track, Leave, Goto, ChildWatched
<1>5. ASSUME NEW r \in Requests, ChildExits(r) PROVE ChildWatched'
  BY <1>5, <1>a DEF ChildExits, ChildWatched
<1>6. ASSUME NEW r \in Requests, Watcher(r) PROVE ChildWatched'
  BY <1>6, <1>a DEF Watcher, WatcherWakes, Reaped, WatcherUnregisters, WatcherUntracks, ChildWatched
<1>7. ASSUME NEW r \in Requests, Arrive(r) PROVE ChildWatched'
  <2>1. child[r] = "none" /\ \A q \in Requests \ {r} : pc'[q] = pc[q]
    BY <1>7, <1>a, <1>b DEF Arrive, Goto
  <2> QED
    BY <1>7, <2>1 DEF Arrive, ChildWatched
<1>8. ASSUME NEW r \in Requests, Handler(r) PROVE ChildWatched'
  <2> USE DEF Sending, Registering
  <2>1. CASE CheckControlled(r) BY <2>1, <1>2 DEF CheckControlled
  <2>2. CASE Reserve(r) BY <2>2, <1>2 DEF Reserve
  <2>3. CASE ChooseRole(r) BY <2>3, <1>2 DEF ChooseRole
  <2>4. CASE Register(r) BY <2>4, <1>2 DEF Register
  <2>5. CASE SendConnect(r) BY <2>5, <1>2 DEF SendConnect
  <2>6. CASE FindForReconnect(r) BY <2>6, <1>2 DEF FindForReconnect
  <2>7. CASE TakeAndKill(r) BY <2>7, <1>2 DEF TakeAndKill
  <2>8. CASE LookupMisses(r) BY <2>8, <1>2 DEF LookupMisses
  <2>9. CASE SendShutdown(r) BY <2>9, <1>2 DEF SendShutdown
  <2>10. CASE Unregister(r) BY <2>10, <1>2 DEF Unregister
  <2> QED
    BY <1>3, <1>4, <1>8, <2>1, <2>2, <2>3, <2>4, <2>5, <2>6, <2>7, <2>8, <2>9, <2>10
    DEF Handler
<1>9. ASSUME NEW r \in Requests, PushFails(r) \/ SpawnFails(r) \/ ClientGone(r)
      PROVE  ChildWatched'
  BY <1>9, <1>2 DEF PushFails, SpawnFails, ClientGone, Leave
<1> QED
  BY <1>1, <1>5, <1>6, <1>7, <1>8, <1>9
  DEF Next, Environment, Cleanup, vars, AcceptFails, Unguard,
      SocketCloses, CleanupSends, CleanupRemoves

\* A running adb child is watched, or about to be, unless its handler was
\* dropped between the spawn and the watcher's spawn.
THEOREM EveryChildWatched == Spec => []ChildWatched
<1>1. Init => ChildWatched
  BY DEF Init, ChildWatched
<1> QED
  BY <1>1, BaseHolds, WatchedStep, PTL DEF Spec
=============================================================================
