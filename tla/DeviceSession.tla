---------------------------- MODULE DeviceSession ----------------------------
(***************************************************************************)
(* The life cycle of a device session as the web server drives it: the     *)
(* handlers of /control_device, /decontrol_device and /reconnect_device    *)
(* (src/src/web/device.rs), the registry they share (utils/share.rs), the  *)
(* watcher task of every adb child process, and the cleanup a closed       *)
(* browser WebSocket runs (web/ws.rs).  The commands the handlers send to  *)
(* the connection server are steps here; the queue they go to belongs to   *)
(* the server.                                                             *)
(*                                                                         *)
(* The tasks run on a multi-threaded tokio runtime and take each lock for  *)
(* one statement only, so what a task does between two points where        *)
(* another task can see or change the shared state is one action.          *)
(*                                                                         *)
(* A control or reconnect request draws one fresh random scid, so the      *)
(* request stands for its scid.  The registry is a vector that is only     *)
(* searched by device_id or scid: it is modelled by the set of its         *)
(* entries.                                                                *)
(***************************************************************************)
EXTENDS Naturals, FiniteSets

CONSTANTS
  Devices,    \* adb serials
  Requests,   \* HTTP requests; also the scids the control requests draw
  Sockets,    \* browser WebSocket connections
  None        \* no request, no scid, no kill sender

ASSUME NoneAssumption == None \notin Requests

VARIABLES
  req,          \* what each request asks, None before it arrives
  pc,           \* where the handler of each request stands
  found,        \* the scid a decontrol handler shut down and has yet to remove
  open,         \* the WebSockets whose task has not reached its cleanup
  doomed,       \* the registry entries a cleanup has yet to shut down
  ending,       \* the scid a cleanup shut down and has yet to remove
  controlled,   \* CONTROLLED_DEVICES
  connecting,   \* CONNECTING_DEVICES
  unguard,      \* requests whose ConnectingGuard is dropped and not yet removed
  processes,    \* ACTIVE_PROCESSES: per device, whose kill sender is stored
  child,        \* the adb shell process of each scid
  watcher,      \* the task waiting for that process
  killed        \* scids whose kill receiver has resolved

handlerVars == <<req, pc, found>>
cleanupVars == <<open, doomed, ending>>
guardVars   == <<connecting, unguard>>
childVars   == <<processes, child, watcher, killed>>
vars == <<handlerVars, cleanupVars, controlled, guardVars, childVars>>

Entry   == [dev : Devices, scid : Requests, main : BOOLEAN]
Request == [op : {"control", "decontrol", "reconnect"}, dev : Devices]

Registering == {"registerMain", "registerSub"}
Sending     == {"sendVideo", "sendControl", "sendSub"}
\* The phases in which a control handler owns a live ConnectingGuard.
Guarded == {"role", "spawn", "track"} \cup Registering \cup Sending
\* The phases that begin with an .await, where hyper can drop the handler.
Waiting == (Guarded \ Sending)
             \cup {"check", "reserve", "find", "kill", "lookup", "unregister"}
Phases  == Waiting \cup Sending \cup {"idle", "done", "failed"}

Dev(r)  == req[r].dev
Holders == {r \in Requests : pc[r] \in Guarded} \cup unguard
Scids   == {e.scid : e \in controlled}
RegisteredDevices == {e.dev : e \in controlled}

TypeOK ==
  /\ req \in [Requests -> Request \cup {None}]
  /\ pc \in [Requests -> Phases]
  /\ found \in [Requests -> Requests \cup {None}]
  /\ open \subseteq Sockets
  /\ doomed \in [Sockets -> SUBSET Entry]
  /\ ending \in [Sockets -> Requests \cup {None}]
  /\ controlled \subseteq Entry
  /\ connecting \subseteq Devices
  /\ unguard \subseteq Requests
  /\ processes \in [Devices -> Requests \cup {None}]
  /\ child \in [Requests -> {"none", "running", "gone"}]
  /\ watcher \in [Requests -> {"none", "waiting", "unregister", "untrack", "done"}]
  /\ killed \subseteq Requests
  /\ \A r \in Requests : pc[r] # "idle" => req[r] \in Request

-----------------------------------------------------------------------------
(* The registry, utils/share.rs, and the kill senders.                      *)

RemoveDevice(scid) == controlled' = {e \in controlled : e.scid # scid}

IsListed(dev, scid) == dev \in RegisteredDevices \/ scid \in Scids

AddDevice(dev, scid, isMain) ==
  controlled' = IF IsListed(dev, scid)
                THEN controlled
                ELSE controlled \cup {[dev |-> dev, scid |-> scid, main |-> isMain]}

\* (variant) the watcher waits for Ok(()) only: a dropped sender goes unnoticed.
Resolved_SentOnly(dev) == {}
\* A oneshot receiver resolves when its sender fires and when it is dropped:
\* whatever takes the sender of a device out of ACTIVE_PROCESSES resolves the
\* receiver of the child the sender belongs to.
Resolved(dev) == {processes[dev]} \ {None}

-----------------------------------------------------------------------------
(* _control_device, web/device.rs.                                          *)

Goto(r, phase) == pc' = [pc EXCEPT ![r] = phase]

\* (variant) the guard is only dropped by a handler that fails.
Released_OnFailure(r, phase) == IF phase = "failed" /\ pc[r] \in Guarded THEN {r} ELSE {}
\* A handler that leaves for phase drops its guard, which spawns a removal task.
Released(r, phase) == IF pc[r] \in Guarded THEN {r} ELSE {}

\* The handler returns, or is dropped, and its locals with it.
Leave(r, phase) ==
  /\ Goto(r, phase)
  /\ found' = [found EXCEPT ![r] = None]
  /\ unguard' = unguard \cup Released(r, phase)

Arrive(r) ==
  /\ pc[r] = "idle"
  /\ \E q \in Request :
       /\ req' = [req EXCEPT ![r] = q]
       /\ Goto(r, CASE q.op = "control"   -> "check"
                    [] q.op = "decontrol" -> "kill"
                    [] q.op = "reconnect" -> "find")
  /\ UNCHANGED <<found, cleanupVars, controlled, guardVars, childVars>>

\* Step 1: a device that is already controlled is refused.
CheckControlled(r) ==
  /\ pc[r] = "check"
  /\ Goto(r, IF Dev(r) \in RegisteredDevices THEN "failed" ELSE "reserve")
  /\ UNCHANGED <<req, found, cleanupVars, controlled, guardVars, childVars>>

\* (variant) the set is not consulted before the insertion.
IsConnecting_Unchecked(dev) == FALSE
IsConnecting(dev) == dev \in connecting

\* Step 2: check-and-insert in CONNECTING_DEVICES under its lock.
Reserve(r) ==
  /\ pc[r] = "reserve"
  /\ IF IsConnecting(Dev(r))
     THEN Goto(r, "failed") /\ UNCHANGED connecting
     ELSE Goto(r, "role")   /\ connecting' = connecting \cup {Dev(r)}
  /\ UNCHANGED <<req, found, cleanupVars, controlled, unguard, childVars>>

\* adb push or adb reverse fails.
PushFails(r) ==
  /\ pc[r] = "role"
  /\ Leave(r, "failed")
  /\ UNCHANGED <<req, cleanupVars, controlled, connecting, childVars>>

\* The handler that finds the registry empty takes the main role.
ChooseRole(r) ==
  /\ pc[r] = "role"
  /\ Goto(r, IF controlled = {} THEN "registerMain" ELSE "registerSub")
  /\ UNCHANGED <<req, found, cleanupVars, controlled, guardVars, childVars>>

\* The commands follow the role; the payload's video flag, read here only,
\* decides whether a main session also gets a video connection.
Register(r) ==
  /\ pc[r] \in Registering
  /\ AddDevice(Dev(r), r, pc[r] = "registerMain")
  /\ \E phase \in IF pc[r] = "registerMain" THEN {"sendVideo", "sendControl"} ELSE {"sendSub"} :
       Goto(r, phase)
  /\ UNCHANGED <<req, found, cleanupVars, guardVars, childVars>>

\* One d_tx.send of the loop; the last one is followed by the 500 ms sleep.
SendConnect(r) ==
  /\ pc[r] \in Sending
  /\ Goto(r, IF pc[r] = "sendVideo" THEN "sendControl" ELSE "spawn")
  /\ UNCHANGED <<req, found, cleanupVars, controlled, guardVars, childVars>>

\* adb cannot be started: the entry and the commands stay behind.
SpawnFails(r) ==
  /\ pc[r] = "spawn"
  /\ Leave(r, "failed")
  /\ UNCHANGED <<req, cleanupVars, controlled, connecting, childVars>>

SpawnChild(r) ==
  /\ pc[r] = "spawn"
  /\ child' = [child EXCEPT ![r] = "running"]
  /\ Goto(r, "track")
  /\ UNCHANGED <<req, found, cleanupVars, controlled, guardVars, processes, watcher, killed>>

\* processes.insert drops the kill sender it replaces; then the watcher task
\* is spawned and the request is answered.
Track(r) ==
  /\ pc[r] = "track"
  /\ killed' = killed \cup Resolved(Dev(r))
  /\ processes' = [processes EXCEPT ![Dev(r)] = r]
  /\ watcher' = [watcher EXCEPT ![r] = "waiting"]
  /\ Leave(r, "done")
  /\ UNCHANGED <<req, cleanupVars, controlled, connecting, child>>

-----------------------------------------------------------------------------
(* _decontrol_device and reconnect_device, web/device.rs.                   *)

\* (variant) the shutdown is addressed by device_id.
Target_DeviceId(e) == e.dev
\* What a shutdown command and the removal that follows it are addressed by.
Target(e) == e.scid

\* reconnect_device looks for its device before it decontrols it.
FindForReconnect(r) ==
  /\ pc[r] = "find"
  /\ Goto(r, IF Dev(r) \in RegisteredDevices THEN "kill" ELSE "failed")
  /\ UNCHANGED <<req, found, cleanupVars, controlled, guardVars, childVars>>

\* _decontrol_device takes the kill sender of the device and fires it.
TakeAndKill(r) ==
  /\ pc[r] = "kill"
  /\ killed' = killed \cup Resolved(Dev(r))
  /\ processes' = [processes EXCEPT ![Dev(r)] = None]
  /\ Goto(r, "lookup")
  /\ UNCHANGED <<req, found, cleanupVars, controlled, guardVars, child, watcher>>

LookupMisses(r) ==
  /\ pc[r] = "lookup"
  /\ Dev(r) \notin RegisteredDevices
  /\ Goto(r, "failed")
  /\ UNCHANGED <<req, found, cleanupVars, controlled, guardVars, childVars>>

SendShutdown(r) ==
  /\ pc[r] = "lookup"
  /\ \E e \in controlled :
       /\ e.dev = Dev(r)
       /\ found' = [found EXCEPT ![r] = Target(e)]
  /\ Goto(r, "unregister")
  /\ UNCHANGED <<req, cleanupVars, controlled, guardVars, childVars>>

\* A decontrol request is answered here; a reconnect goes on as a control.
Unregister(r) ==
  /\ pc[r] = "unregister"
  /\ RemoveDevice(found[r])
  /\ found' = [found EXCEPT ![r] = None]
  /\ Goto(r, IF req[r].op = "reconnect" THEN "check" ELSE "done")
  /\ UNCHANGED <<req, cleanupVars, guardVars, childVars>>

\* The client closes its connection: hyper drops the handler at its .await.
\* A child that is spawned and not yet tracked keeps running, unwatched.
ClientGone(r) ==
  /\ pc[r] \in Waiting
  /\ Leave(r, "failed")
  /\ UNCHANGED <<req, cleanupVars, controlled, connecting, childVars>>

\* The task ConnectingGuard::drop spawned.
Unguard(r) ==
  /\ r \in unguard
  /\ connecting' = connecting \ {Dev(r)}
  /\ unguard' = unguard \ {r}
  /\ UNCHANGED <<handlerVars, cleanupVars, controlled, childVars>>

-----------------------------------------------------------------------------
(* The watcher task of a child, web/device.rs.                              *)

\* The scrcpy server on the device ends, or adb loses it.
ChildExits(r) ==
  /\ child[r] = "running"
  /\ child' = [child EXCEPT ![r] = "gone"]
  /\ UNCHANGED <<handlerVars, cleanupVars, controlled, guardVars, processes, watcher, killed>>

\* (variant) the kill_rx branch of the select! is missing.
WokenBy_ExitOnly(r) == child[r] = "gone"
\* select!: the child has exited, or the kill receiver has resolved.
WokenBy(r) == child[r] = "gone" \/ r \in killed

\* (variant) the child is neither killed nor waited for.
Reaped_NotKilled(r) == child
\* On the second branch the child is killed and waited for.
Reaped(r) == [child EXCEPT ![r] = "gone"]

WatcherWakes(r) ==
  /\ watcher[r] = "waiting"
  /\ WokenBy(r)
  /\ child' = Reaped(r)
  /\ watcher' = [watcher EXCEPT ![r] = "unregister"]
  /\ UNCHANGED <<handlerVars, cleanupVars, controlled, guardVars, processes, killed>>

\* (variant) remove_device is not called.
WatcherUnregisters_Forgets(r) ==
  /\ watcher[r] = "unregister"
  /\ watcher' = [watcher EXCEPT ![r] = "untrack"]
  /\ UNCHANGED <<handlerVars, cleanupVars, controlled, guardVars, processes, child, killed>>

WatcherUnregisters(r) ==
  /\ watcher[r] = "unregister"
  /\ RemoveDevice(r)
  /\ watcher' = [watcher EXCEPT ![r] = "untrack"]
  /\ UNCHANGED <<handlerVars, cleanupVars, guardVars, processes, child, killed>>

\* (variant) processes.remove is not called.
WatcherUntracks_Forgets(r) ==
  /\ watcher[r] = "untrack"
  /\ watcher' = [watcher EXCEPT ![r] = "done"]
  /\ UNCHANGED <<handlerVars, cleanupVars, controlled, guardVars, processes, child, killed>>

\* The map is keyed by device: the sender dropped is the one of the latest
\* child of the device, whoever asks.
WatcherUntracks(r) ==
  /\ watcher[r] = "untrack"
  /\ killed' = killed \cup Resolved(Dev(r))
  /\ processes' = [processes EXCEPT ![Dev(r)] = None]
  /\ watcher' = [watcher EXCEPT ![r] = "done"]
  /\ UNCHANGED <<handlerVars, cleanupVars, controlled, guardVars, child>>

-----------------------------------------------------------------------------
(* The cleanup of a closed WebSocket, web/ws.rs, and the connection server, *)
(* scrcpy/controller.rs, as far as they touch the registry.                 *)

SocketCloses(w) ==
  /\ w \in open
  /\ open' = open \ {w}
  /\ doomed' = [doomed EXCEPT ![w] = controlled]
  /\ UNCHANGED <<handlerVars, ending, controlled, guardVars, childVars>>

\* One iteration of the cleanup loop: the command first, then the entry.
CleanupSends(w) ==
  /\ ending[w] = None
  /\ \E e \in doomed[w] :
       /\ ending' = [ending EXCEPT ![w] = Target(e)]
       /\ doomed' = [doomed EXCEPT ![w] = @ \ {e}]
  /\ UNCHANGED <<handlerVars, open, controlled, guardVars, childVars>>

CleanupRemoves(w) ==
  /\ ending[w] # None
  /\ RemoveDevice(ending[w])
  /\ ending' = [ending EXCEPT ![w] = None]
  /\ UNCHANGED <<handlerVars, open, doomed, guardVars, childVars>>

\* listener.accept fails for a connect command the handler has sent.
AcceptFails(r) ==
  /\ r \in Scids
  /\ pc[r] \notin {"sendVideo", "sendSub"}
  /\ RemoveDevice(r)
  /\ UNCHANGED <<handlerVars, cleanupVars, guardVars, childVars>>

-----------------------------------------------------------------------------
Init ==
  /\ req = [r \in Requests |-> None]
  /\ pc = [r \in Requests |-> "idle"]
  /\ found = [r \in Requests |-> None]
  /\ open = Sockets
  /\ doomed = [w \in Sockets |-> {}]
  /\ ending = [w \in Sockets |-> None]
  /\ controlled = {}
  /\ connecting = {}
  /\ unguard = {}
  /\ processes = [d \in Devices |-> None]
  /\ child = [r \in Requests |-> "none"]
  /\ watcher = [r \in Requests |-> "none"]
  /\ killed = {}

\* What a handler does of its own accord.
Handler(r) ==
  \/ CheckControlled(r) \/ Reserve(r) \/ ChooseRole(r) \/ Register(r)
  \/ SendConnect(r) \/ SpawnChild(r) \/ Track(r)
  \/ FindForReconnect(r) \/ TakeAndKill(r) \/ LookupMisses(r)
  \/ SendShutdown(r) \/ Unregister(r)
Watcher(r) == WatcherWakes(r) \/ WatcherUnregisters(r) \/ WatcherUntracks(r)
Cleanup(w) == CleanupSends(w) \/ CleanupRemoves(w)
\* What comes from outside: clients, adb, the devices, the network.
Environment(r) ==
  \/ Arrive(r) \/ PushFails(r) \/ SpawnFails(r) \/ ClientGone(r)
  \/ ChildExits(r) \/ AcceptFails(r)

Next ==
  \/ \E r \in Requests : Handler(r) \/ Unguard(r) \/ Watcher(r) \/ Environment(r)
  \/ \E w \in Sockets : SocketCloses(w) \/ Cleanup(w)

Spec == Init /\ [][Next]_vars

\* The runtime polls every ready task; nobody owes an event from outside.
Fairness ==
  /\ \A r \in Requests : WF_vars(Handler(r)) /\ WF_vars(Unguard(r)) /\ WF_vars(Watcher(r))
  /\ \A w \in Sockets : WF_vars(Cleanup(w))

FairSpec == Spec /\ Fairness

-----------------------------------------------------------------------------
(* Properties.                                                              *)

\* A device and a scid are each registered at most once, whatever control
\* handlers, reconnects, cleanups and watchers interleave: the dedup in
\* add_device holds where the checks of _control_device let two through.
RegistryUnique ==
  \A e, f \in controlled : e.dev = f.dev \/ e.scid = f.scid => e = f

\* CONNECTING_DEVICES is exactly the devices some request holds a guard for,
\* live or waiting for its removal task, and no two requests hold the same
\* device: a removal task never frees the reservation of another request.
ReservationExclusive ==
  /\ connecting = {Dev(r) : r \in Holders}
  /\ \A r, q \in Holders : Dev(r) = Dev(q) => r = q

\* A watched child that has not been told to die is the one whose kill
\* sender ACTIVE_PROCESSES holds: no child runs on that a decontrol of its
\* device could not reach, and a device has at most one.
KillHandleOwned ==
  \A r \in Requests : watcher[r] = "waiting" /\ r \notin killed => processes[Dev(r)] = r

\* A sender in ACTIVE_PROCESSES is stored under its own device, has not
\* fired, and belongs to a child whose watcher has yet to remove it: the map
\* keeps nothing of a session whose watcher has ended.
HandleFresh ==
  \A d \in Devices : processes[d] # None =>
    /\ Dev(processes[d]) = d
    /\ processes[d] \notin killed
    /\ watcher[processes[d]] \in {"waiting", "unregister", "untrack"}

\* Every registry entry has somebody who will remove it, the handler that is
\* still starting the child or the watcher of the child, unless its handler
\* failed or was dropped after add_device; in particular no step brings back
\* the entry of a session its watcher has removed.
RegistryBacked ==
  \A e \in controlled :
    /\ e.dev = Dev(e.scid)
    /\ \/ pc[e.scid] \in Sending \cup {"spawn", "track", "failed"}
       \/ watcher[e.scid] \in {"waiting", "unregister"}

\* A running adb child is watched, or about to be; the exception is the child
\* of a handler that was dropped between the spawn and the watcher's spawn.
ChildWatched ==
  \A r \in Requests : child[r] = "running" =>
    pc[r] \in {"track", "failed"} \/ watcher[r] = "waiting"

\* No reservation outlives its request: a device that is being connected is
\* free again later, whether the handler succeeds, fails or is dropped.
ReservationReleased ==
  \A d \in Devices : d \in connecting ~> d \notin connecting

\* A child whose kill receiver resolves is killed, its entry leaves the
\* registry and its watcher ends.
KilledChildReaped ==
  \A r \in Requests :
    watcher[r] = "waiting" /\ r \in killed
      ~> watcher[r] = "done" /\ child[r] # "running" /\ r \notin Scids

\* device.rs:333: a child is killed on a kill signal.  The end of a watcher
\* sends none, so it leaves every other watched child alone.
WatcherSparesOthers ==
  [][\A r, q \in Requests :
       watcher[r] = "untrack" /\ watcher'[r] = "done" /\ watcher[q] = "waiting"
         => (q \in killed' <=> q \in killed)]_vars
=============================================================================
