---------------------------- MODULE SessionProofs ----------------------------
(***************************************************************************)
(* The composition implements its two parts: every behaviour of Session is *)
(* one of DeviceSession and one of ConnectionServer.                       *)
(***************************************************************************)
EXTENDS Session, TLAPS

-----------------------------------------------------------------------------
(* The invariant that links the two parts.                                  *)

\* The phases of a handler once it may have sent a connect command.
After == {"sendControl", "spawn", "track", "done", "failed"}

\* A child is there before its handler tracks it, and its watcher after it.
Watched ==
  /\ child \in [Requests -> {"none", "running", "gone"}]
  /\ DOMAIN watcher = Requests
  /\ \A r \in Requests : watcher[r] # "none" \/ pc[r] = "track" => child[r] # "none"

WebBase ==
  /\ pc \in [Requests -> Web!Phases]
  /\ Watched
  /\ video \in [Requests -> BOOLEAN]
  /\ \A e \in controlled : e.scid \in Requests
  /\ DOMAIN doomed = Sockets
  /\ \A w \in Sockets : \A e \in doomed[w] : e.scid \in Requests

ServerBase ==
  /\ d_rx \in Seq(Server!Connect \cup Server!Shutdown)
  /\ accepting \in Server!Connect \cup {None}
  /\ m_rx \in Seq(Server!Change)
  /\ conn \in [Server!Connect -> Server!Phases]

\* Whatever the server works on has been sent to it.
Issued ==
  /\ \A i \in DOMAIN d_rx : d_rx[i] \in Server!Connect => conn[d_rx[i]] # "none"
  /\ accepting # None => conn[accepting] # "none"
  /\ \A i \in DOMAIN m_rx : conn[m_rx[i].from] # "none"

\* A session's connect commands come while its handler sends, the video before
\* the control; its child comes after them, and its sockets after its child,
\* again the video before the control.
Order ==
  /\ \A c \in Server!Connect : conn[c] # "none" =>
       /\ pc[c.scid] \in After
       /\ pc[c.scid] = "sendControl" => c.cmd = "MainVideo"
  /\ \A r \in Requests : pc[r] \in {"spawn", "track"} \/ child[r] # "none" =>
       \E c \in Server!Connect : c.scid = r /\ conn[c] # "none"
  /\ \A k \in dialed : k.scid \in Requests /\ child[k.scid] # "none"
  /\ \A r \in Requests : video[r] /\ [stream |-> "control", scid |-> r] \in dialed =>
       [stream |-> "video", scid |-> r] \in dialed

Linked == WebBase /\ ServerBase /\ Issued /\ Order

-----------------------------------------------------------------------------
(* Queues.                                                                  *)

LEMMA TailMembers ==
  ASSUME NEW S, NEW q \in Seq(S), q # <<>>
  PROVE  /\ Head(q) \in S /\ Tail(q) \in Seq(S)
         /\ 1 \in DOMAIN q /\ Head(q) = q[1]
         /\ \A i \in DOMAIN Tail(q) : \E j \in DOMAIN q : Tail(q)[i] = q[j]
<1>1. Len(q) \in Nat \ {0} /\ DOMAIN q = 1..Len(q)
  OBVIOUS
<1>2. Head(q) \in S /\ Head(q) = q[1] /\ 1 \in DOMAIN q
  BY <1>1
<1>3. Tail(q) \in Seq(S) /\ DOMAIN Tail(q) = 1..(Len(q) - 1)
  BY <1>1
<1>4. \A i \in 1..(Len(q) - 1) : i + 1 \in DOMAIN q /\ Tail(q)[i] = q[i + 1]
  BY <1>1
<1>5. QED
  BY <1>2, <1>3, <1>4

LEMMA AppendMembers ==
  ASSUME NEW S, NEW q \in Seq(S), NEW x \in S
  PROVE  /\ Append(q, x) \in Seq(S)
         /\ \A i \in DOMAIN Append(q, x) :
              Append(q, x)[i] = x \/ \E j \in DOMAIN q : Append(q, x)[i] = q[j]
<1>1. Len(q) \in Nat /\ DOMAIN q = 1..Len(q) /\ DOMAIN Append(q, x) = 1..(Len(q) + 1)
  OBVIOUS
<1>2. \A i \in 1..Len(q) : Append(q, x)[i] = q[i]
  BY <1>1
<1>3. Append(q, x)[Len(q) + 1] = x
  BY <1>1
<1>4. QED
  BY <1>1, <1>2, <1>3

-----------------------------------------------------------------------------
(* Steps of the web server that send nothing.                               *)

\* What such a step does to what the connection server sees of it.
WebMoves ==
  /\ pc' \in [Requests -> Web!Phases]
  /\ Watched'
  /\ \A r \in Requests : pc[r] \in After =>
       pc'[r] \in After /\ (pc'[r] = "sendControl" => pc[r] = "sendControl")
  /\ \A r \in Requests : pc'[r] \in {"spawn", "track"} \/ child'[r] # "none" =>
       pc[r] \in {"spawn", "track"} \/ child[r] # "none"
  /\ \A r \in Requests : child[r] # "none" => child'[r] # "none"
  /\ \/ controlled' = controlled
     \/ \E s : controlled' = {e \in controlled : e.scid # s}
     \/ \E r \in Requests : \E e :
          e.scid = r /\ pc[r] \in Web!Registering /\ controlled' = controlled \cup {e}
  /\ DOMAIN doomed' = Sockets
  /\ \A w \in Sockets : doomed'[w] \subseteq doomed[w] \cup controlled

LEMMA HandlerMoves ==
  ASSUME WebBase, NEW r \in Requests,
         Web!Arrive(r) \/ Web!CheckControlled(r) \/ Web!Reserve(r) \/ Web!ChooseRole(r)
           \/ Web!SpawnChild(r) \/ Web!Track(r) \/ Web!FindForReconnect(r)
           \/ Web!TakeAndKill(r) \/ Web!LookupMisses(r) \/ Web!SendShutdown(r)
           \/ Web!PushFails(r) \/ Web!SpawnFails(r) \/ Web!ClientGone(r)
  PROVE  WebMoves /\ controlled' = controlled
<1>1. PICK p \in Web!Phases :
        /\ pc' = [pc EXCEPT ![r] = p]
        /\ pc[r] \in After => p \in After \ {"sendControl"}
        /\ p \in {"spawn", "track"} => pc[r] \in {"spawn", "track"}
        /\ p = "track" => Web!SpawnChild(r)
  <2>0. {"check", "reserve", "role", "registerMain", "registerSub", "track", "kill", "find",
         "lookup", "unregister", "done", "failed"} \subseteq Web!Phases
    BY DEF Web!Phases, Web!Waiting, Web!Guarded, Web!Registering, Web!Sending
  <2> USE <2>0 DEF Web!Goto, Web!Leave, After
  <2>1. CASE Web!Arrive(r)
    <3>1. PICK q \in Web!Request :
            Web!Goto(r, CASE q.op = "control"   -> "check"
                          [] q.op = "decontrol" -> "kill"
                          [] q.op = "reconnect" -> "find")
      BY <2>1 DEF Web!Arrive
    <3>2. q.op \in {"control", "decontrol", "reconnect"}
      BY DEF Web!Request
    <3>3. pc[r] = "idle"
      BY <2>1 DEF Web!Arrive
    <3>4. QED
      BY <3>1, <3>2, <3>3
  <2>2. CASE Web!CheckControlled(r)
    BY <2>2 DEF Web!CheckControlled
  <2>3. CASE Web!Reserve(r)          BY <2>3 DEF Web!Reserve
  <2>4. CASE Web!ChooseRole(r)       BY <2>4 DEF Web!ChooseRole
  <2>5. CASE Web!SpawnChild(r)       BY <2>5 DEF Web!SpawnChild
  <2>6. CASE Web!Track(r)            BY <2>6 DEF Web!Track
  <2>7. CASE Web!FindForReconnect(r) BY <2>7 DEF Web!FindForReconnect
  <2>8. CASE Web!TakeAndKill(r)      BY <2>8 DEF Web!TakeAndKill
  <2>9. CASE Web!LookupMisses(r)     BY <2>9 DEF Web!LookupMisses
  <2>10. CASE Web!SendShutdown(r)    BY <2>10 DEF Web!SendShutdown
  <2>11. CASE Web!PushFails(r)       BY <2>11 DEF Web!PushFails
  <2>12. CASE Web!SpawnFails(r)      BY <2>12 DEF Web!SpawnFails
  <2>13. CASE Web!ClientGone(r)      BY <2>13 DEF Web!ClientGone
  <2>14. QED
    BY <2>1, <2>2, <2>3, <2>4, <2>5, <2>6, <2>7, <2>8, <2>9, <2>10, <2>11, <2>12, <2>13
<1>2. /\ controlled' = controlled /\ doomed' = doomed
      /\ child' = child \/ (pc[r] = "spawn" /\ child' = [child EXCEPT ![r] = "running"])
  BY DEF Web!Arrive, Web!CheckControlled, Web!Reserve, Web!ChooseRole, Web!SpawnChild, Web!Track,
         Web!FindForReconnect, Web!TakeAndKill, Web!LookupMisses, Web!SendShutdown, Web!PushFails,
         Web!SpawnFails, Web!ClientGone, Web!cleanupVars, Web!childVars
<1>3. pc'[r] = p /\ \A q \in Requests \ {r} : pc'[q] = pc[q]
  BY <1>1 DEF WebBase
<1>4. /\ child' \in [Requests -> {"none", "running", "gone"}]
      /\ Web!SpawnChild(r) => child'[r] # "none"
      /\ \A q \in Requests : child[q] # "none" => child'[q] # "none"
      /\ \A q \in Requests : child'[q] # "none" => child[q] # "none" \/ pc[q] = "spawn"
  BY <1>2 DEF WebBase, Watched, Web!SpawnChild
<1>8. Watched'
  <2>1. watcher' = watcher \/ (pc[r] = "track" /\ watcher' = [watcher EXCEPT ![r] = "waiting"])
    BY DEF Web!Arrive, Web!CheckControlled, Web!Reserve, Web!ChooseRole, Web!SpawnChild, Web!Track,
           Web!FindForReconnect, Web!TakeAndKill, Web!LookupMisses, Web!SendShutdown, Web!PushFails,
           Web!SpawnFails, Web!ClientGone, Web!childVars
  <2>2. DOMAIN watcher' = Requests
    BY <2>1 DEF WebBase, Watched
  <2>3. \A q \in Requests : watcher'[q] # "none" => watcher[q] # "none" \/ pc[q] = "track"
    BY <2>1 DEF WebBase, Watched
  <2>4. ASSUME NEW q \in Requests, watcher'[q] # "none" \/ pc'[q] = "track" PROVE child'[q] # "none"
    BY <2>3, <2>4, <1>1, <1>3, <1>4 DEF WebBase, Watched
  <2>5. QED
    BY <1>4, <2>2, <2>4 DEF Watched
<1>5. pc' \in [Requests -> Web!Phases]
  BY <1>1 DEF WebBase
<1>6. DOMAIN doomed' = Sockets /\ \A w \in Sockets : doomed'[w] \subseteq doomed[w] \cup controlled
  BY <1>2 DEF WebBase
<1>7. QED
  BY <1>1, <1>2, <1>3, <1>4, <1>5, <1>6, <1>8 DEF WebMoves

\* The steps that change the registry.
LEMMA RegistryMoves ==
  ASSUME WebBase, NEW r \in Requests,
         Web!Register(r) \/ Web!Unregister(r) \/ Web!WatcherUnregisters(r)
  PROVE  WebMoves
<1>1. PICK p \in Web!Phases :
        /\ pc' = [pc EXCEPT ![r] = p]
        /\ pc[r] \in After => p = pc[r]
        /\ p \in {"spawn", "track"} => p = pc[r]
  <2> USE DEF WebBase, Web!Phases, Web!Waiting, Web!Guarded, Web!Registering, Web!Sending, After, Web!Goto
  <2>1. CASE Web!Register(r)
    <3>1. PICK q \in {"sendVideo", "sendControl", "sendSub"} : Web!Goto(r, q)
      BY <2>1 DEF Web!Register
    <3>2. QED
      BY <2>1, <3>1 DEF Web!Register
  <2>2. CASE Web!Unregister(r)
    <3>1. PICK q \in {"check", "done"} : Web!Goto(r, q)
      BY <2>2 DEF Web!Unregister
    <3>2. QED
      BY <2>2, <3>1 DEF Web!Unregister
  <2>3. CASE Web!WatcherUnregisters(r)
    <3>1. pc' = [pc EXCEPT ![r] = pc[r]]
      BY <2>3 DEF Web!WatcherUnregisters, Web!handlerVars
    <3>2. QED
      BY <3>1
  <2>4. QED
    BY <2>1, <2>2, <2>3
<1>2. doomed' = doomed /\ child' = child
  BY DEF Web!Register, Web!Unregister, Web!WatcherUnregisters, Web!cleanupVars, Web!childVars
<1>3. \/ controlled' = controlled
      \/ \E s : controlled' = {e \in controlled : e.scid # s}
      \/ \E q \in Requests : \E e :
           e.scid = q /\ pc[q] \in Web!Registering /\ controlled' = controlled \cup {e}
  <2>1. CASE Web!Register(r)
    <3> DEFINE e == [dev |-> Web!Dev(r), scid |-> r, main |-> pc[r] = "registerMain"]
    <3>1. pc[r] \in Web!Registering /\ (controlled' = controlled \/ controlled' = controlled \cup {e})
      BY <2>1 DEF Web!Register, Web!AddDevice
    <3>2. e.scid = r
      OBVIOUS
    <3>3. QED
      BY <3>1, <3>2
  <2>2. CASE Web!Unregister(r)
    BY <2>2 DEF Web!Unregister, Web!RemoveDevice
  <2>3. CASE Web!WatcherUnregisters(r)
    BY <2>3 DEF Web!WatcherUnregisters, Web!RemoveDevice
  <2>4. QED
    BY <2>1, <2>2, <2>3
<1>4. pc'[r] = p /\ \A q \in Requests \ {r} : pc'[q] = pc[q]
  BY <1>1 DEF WebBase
<1>5. pc' \in [Requests -> Web!Phases]
  BY <1>1 DEF WebBase
<1>6. Watched'
  <2>1. watcher' = watcher \/ (watcher[r] # "none" /\ watcher' = [watcher EXCEPT ![r] = "untrack"])
    BY DEF Web!Register, Web!Unregister, Web!WatcherUnregisters, Web!childVars
  <2>2. QED
    BY <1>1, <1>2, <1>4, <2>1 DEF WebBase, Watched
<1>7. QED
  BY <1>1, <1>2, <1>3, <1>4, <1>5, <1>6 DEF WebMoves, WebBase, Watched

\* The tasks around a handler, and the WebSockets.
LEMMA TaskMoves ==
  ASSUME WebBase,
         \/ \E r \in Requests : Web!Unguard(r) \/ Web!WatcherWakes(r) \/ Web!WatcherUntracks(r)
                                  \/ Web!ChildExits(r)
         \/ \E w \in Sockets : Web!SocketCloses(w) \/ Web!CleanupSends(w) \/ Web!CleanupRemoves(w)
  PROVE  WebMoves
<1>1. pc' = pc
  BY DEF Web!Unguard, Web!WatcherWakes, Web!WatcherUntracks, Web!ChildExits, Web!SocketCloses,
         Web!CleanupSends, Web!CleanupRemoves, Web!handlerVars
<1>2. ASSUME NEW r \in Requests,
             Web!Unguard(r) \/ Web!WatcherWakes(r) \/ Web!WatcherUntracks(r) \/ Web!ChildExits(r)
      PROVE  WebMoves
  <2>1. controlled' = controlled /\ doomed' = doomed
    BY <1>2 DEF Web!Unguard, Web!WatcherWakes, Web!WatcherUntracks, Web!ChildExits, Web!cleanupVars
  <2>2. child' = child \/ child' = [child EXCEPT ![r] = "gone"]
    BY <1>2 DEF Web!Unguard, Web!WatcherWakes, Web!WatcherUntracks, Web!ChildExits, Web!Reaped, Web!childVars
  <2>3. child' # child => child[r] # "none"
    BY <1>2 DEF Web!Unguard, Web!WatcherWakes, Web!WatcherUntracks, Web!ChildExits, Web!childVars,
                WebBase, Watched
  <2>4. watcher' = watcher \/ (watcher[r] # "none" /\ \E p : watcher' = [watcher EXCEPT ![r] = p])
    BY <1>2 DEF Web!Unguard, Web!WatcherWakes, Web!WatcherUntracks, Web!ChildExits, Web!childVars
  <2>5. /\ child' \in [Requests -> {"none", "running", "gone"}]
        /\ \A q \in Requests : child'[q] # "none" <=> child[q] # "none"
    BY <2>2, <2>3 DEF WebBase, Watched
  <2>6. Watched'
    BY <1>1, <2>4, <2>5 DEF WebBase, Watched
  <2>7. QED
    BY <1>1, <2>1, <2>5, <2>6 DEF WebMoves, WebBase
<1>3. ASSUME NEW w \in Sockets,
             Web!SocketCloses(w) \/ Web!CleanupSends(w) \/ Web!CleanupRemoves(w)
      PROVE  WebMoves
  <2>1. child' = child /\ watcher' = watcher
    BY <1>3 DEF Web!SocketCloses, Web!CleanupSends, Web!CleanupRemoves, Web!childVars
  <2>2. controlled' = controlled \/ \E s : controlled' = {e \in controlled : e.scid # s}
    BY <1>3 DEF Web!SocketCloses, Web!CleanupSends, Web!CleanupRemoves, Web!RemoveDevice
  <2>3. DOMAIN doomed' = Sockets /\ \A v \in Sockets : doomed'[v] \subseteq doomed[v] \cup controlled
    <3>1. CASE Web!SocketCloses(w)
      BY <3>1 DEF Web!SocketCloses, WebBase
    <3>2. CASE Web!CleanupSends(w)
      <4>1. PICK e \in doomed[w] : doomed' = [doomed EXCEPT ![w] = doomed[w] \ {e}]
        BY <3>2 DEF Web!CleanupSends
      <4>2. QED
        BY <4>1 DEF WebBase
    <3>3. CASE Web!CleanupRemoves(w)
      BY <3>3 DEF Web!CleanupRemoves, WebBase
    <3>4. QED
      BY <1>3, <3>1, <3>2, <3>3
  <2>4. QED
    BY <1>1, <2>1, <2>2, <2>3 DEF WebMoves, WebBase, Watched
<1>4. QED
  BY <1>2, <1>3

-----------------------------------------------------------------------------
(* The link is kept.                                                        *)

\* A shutdown command may be queued along with a step of the web server.
ShutdownQueued ==
  d_rx' = d_rx \/ \E c \in Server!Shutdown : d_rx' = Append(d_rx, c)

LEMMA LinkedWeb ==
  ASSUME Linked, WebMoves, ShutdownQueued, UNCHANGED <<accepting, m_rx, conn, dialed>>,
         video' \in [Requests -> BOOLEAN],
         \A r \in Requests : child[r] # "none" => video'[r] = video[r]
  PROVE  Linked'
<1> USE DEF Linked
<1>1. WebBase'
  <2>1. ASSUME NEW e \in controlled' PROVE e.scid \in Requests
    BY <2>1 DEF WebMoves, WebBase
  <2>2. ASSUME NEW w \in Sockets, NEW e \in doomed'[w] PROVE e.scid \in Requests
    BY <2>2 DEF WebMoves, WebBase
  <2>3. QED
    BY <2>1, <2>2 DEF WebMoves, WebBase
<1>2. ServerBase' /\ Issued'
  <2>1. CASE d_rx' = d_rx
    BY <2>1 DEF ServerBase, Issued
  <2>2. ASSUME NEW c \in Server!Shutdown, d_rx' = Append(d_rx, c) PROVE ServerBase' /\ Issued'
    <3>1. c \notin Server!Connect
      BY DEF Server!Connect, Server!Shutdown
    <3>2. /\ d_rx' \in Seq(Server!Connect \cup Server!Shutdown)
          /\ \A i \in DOMAIN d_rx' : d_rx'[i] = c \/ \E j \in DOMAIN d_rx : d_rx'[i] = d_rx[j]
      BY <2>2, AppendMembers DEF ServerBase
    <3>3. QED
      BY <3>1, <3>2 DEF ServerBase, Issued
  <2>3. QED
    BY <2>1, <2>2 DEF ShutdownQueued
<1>3. Order'
  <2>1. ASSUME NEW c \in Server!Connect, conn'[c] # "none"
        PROVE  pc'[c.scid] \in After /\ (pc'[c.scid] = "sendControl" => c.cmd = "MainVideo")
    <3>1. c.scid \in Requests
      BY DEF Server!Connect
    <3>2. QED
      BY <2>1, <3>1 DEF Order, WebMoves
  <2>2. ASSUME NEW r \in Requests, pc'[r] \in {"spawn", "track"} \/ child'[r] # "none"
        PROVE  \E c \in Server!Connect : c.scid = r /\ conn'[c] # "none"
    BY <2>2 DEF Order, WebMoves
  <2>3. \A k \in dialed' : k.scid \in Requests /\ child'[k.scid] # "none"
    BY DEF Order, WebMoves
  <2>4. ASSUME NEW r \in Requests, video'[r], [stream |-> "control", scid |-> r] \in dialed'
        PROVE  [stream |-> "video", scid |-> r] \in dialed'
    <3>1. child[r] # "none"
      BY <2>4 DEF Order
    <3>2. QED
      BY <2>4, <3>1 DEF Order
  <2>5. QED
    BY <2>1, <2>2, <2>3, <2>4 DEF Order
<1>4. QED
  BY <1>1, <1>2, <1>3

\* A connect command: the only one its session may send now.
LEMMA ConnectSent ==
  ASSUME Linked, NEW r \in Requests, SendConnect(r)
  PROVE  \E c \in Server!Connect :
           /\ c.scid = r /\ conn[c] = "none"
           /\ \A b \in Server!Connect :
                b.scid = r /\ conn[b] # "none" => b.cmd = "MainVideo" /\ c.cmd = "MainControl"
           /\ conn' = [conn EXCEPT ![c] = "queued"]
           /\ d_rx' = Append(d_rx, c)
           /\ \E p \in Web!Phases \cap {"sendControl", "spawn"} :
                pc' = [pc EXCEPT ![r] = p] /\ (p = "sendControl" => c.cmd = "MainVideo")
           /\ pc[r] \notin {"spawn", "track", "done", "failed"}
           /\ UNCHANGED <<accepting, signal_map, cancelled, dialed, backlog, peer, m_rx, mask, video,
                          controlled, child, watcher, doomed>>
<1> DEFINE c == [cmd |-> ConnectCommand[pc[r]], scid |-> r]
<1>1. /\ Web!SendConnect(r) /\ Queued(c) /\ conn' = [conn EXCEPT ![c] = "queued"]
  BY DEF SendConnect
<1>2. /\ pc[r] \in {"sendVideo", "sendControl", "sendSub"}
      /\ pc' = [pc EXCEPT ![r] = IF pc[r] = "sendVideo" THEN "sendControl" ELSE "spawn"]
      /\ UNCHANGED <<controlled, child, watcher, doomed>>
  BY <1>1 DEF Web!SendConnect, Web!Sending, Web!Goto, Web!childVars, Web!cleanupVars
<1>3. {"sendControl", "spawn"} \subseteq Web!Phases
  BY DEF Web!Phases, Web!Waiting, Web!Guarded, Web!Sending
<1>4. /\ pc[r] = "sendVideo" => ConnectCommand[pc[r]] = "MainVideo"
      /\ pc[r] = "sendControl" => ConnectCommand[pc[r]] = "MainControl"
      /\ pc[r] = "sendSub" => ConnectCommand[pc[r]] = "SubControl"
  BY DEF ConnectCommand
<1>5. c \in Server!Connect /\ c.scid = r /\ c.cmd = ConnectCommand[pc[r]]
  BY <1>2, <1>4 DEF Server!Connect
<1>6. \A b \in Server!Connect :
        b.scid = r /\ conn[b] # "none" => b.cmd = "MainVideo" /\ c.cmd = "MainControl"
  BY <1>2, <1>4, <1>5 DEF Linked, Order, After
<1>7. conn[c] = "none"
  BY <1>5, <1>6
<1>8. /\ d_rx' = Append(d_rx, c)
      /\ UNCHANGED <<accepting, signal_map, cancelled, dialed, backlog, peer, m_rx, mask, video>>
  BY <1>1 DEF Queued
<1> HIDE DEF c
<1>9. \E p \in Web!Phases \cap {"sendControl", "spawn"} :
        pc' = [pc EXCEPT ![r] = p] /\ (p = "sendControl" => c.cmd = "MainVideo")
  <2>1. CASE pc[r] = "sendVideo"
    BY <1>2, <1>3, <1>4, <1>5, <2>1
  <2>2. CASE pc[r] # "sendVideo"
    <3>1. pc' = [pc EXCEPT ![r] = "spawn"]
      BY <1>2, <2>2
    <3>2. "spawn" \in Web!Phases \cap {"sendControl", "spawn"} /\ "spawn" # "sendControl"
      BY <1>3
    <3>3. QED
      BY <3>1, <3>2, Zenon
  <2>3. QED
    BY <2>1, <2>2
<1>10. pc[r] \notin {"spawn", "track", "done", "failed"}
  BY <1>2
<1>11. QED
  BY <1>1, <1>2, <1>5, <1>6, <1>7, <1>8, <1>9, <1>10

LEMMA LinkedSend == ASSUME Linked, NEW r \in Requests, SendConnect(r) PROVE Linked'
<1> USE DEF Linked
<1>1. PICK c \in Server!Connect :
        /\ c.scid = r /\ conn[c] = "none"
        /\ \A b \in Server!Connect :
             b.scid = r /\ conn[b] # "none" => b.cmd = "MainVideo" /\ c.cmd = "MainControl"
        /\ conn' = [conn EXCEPT ![c] = "queued"]
        /\ d_rx' = Append(d_rx, c)
        /\ \E p \in Web!Phases \cap {"sendControl", "spawn"} :
             pc' = [pc EXCEPT ![r] = p] /\ (p = "sendControl" => c.cmd = "MainVideo")
        /\ pc[r] \notin {"spawn", "track", "done", "failed"}
        /\ UNCHANGED <<accepting, dialed, m_rx, video, controlled, child, watcher, doomed>>
  BY ConnectSent
<1>2. PICK p \in Web!Phases \cap {"sendControl", "spawn"} :
        pc' = [pc EXCEPT ![r] = p] /\ (p = "sendControl" => c.cmd = "MainVideo")
  BY <1>1
<1>3. pc'[r] = p /\ \A q \in Requests \ {r} : pc'[q] = pc[q]
  BY <1>2 DEF WebBase
<1>4. conn'[c] = "queued" /\ \A b \in Server!Connect \ {c} : conn'[b] = conn[b]
  BY <1>1 DEF ServerBase
<1>5. WebBase'
  <2>1. pc' \in [Requests -> Web!Phases]
    BY <1>2 DEF WebBase
  <2>2. Watched'
    BY <1>1, <1>2, <1>3 DEF WebBase, Watched
  <2>3. QED
    BY <1>1, <2>1, <2>2 DEF WebBase
<1>6. ServerBase'
  <2>1. d_rx' \in Seq(Server!Connect \cup Server!Shutdown)
    BY <1>1, AppendMembers DEF ServerBase
  <2>2. conn' \in [Server!Connect -> Server!Phases]
    BY <1>1 DEF ServerBase, Server!Phases
  <2>3. QED
    BY <1>1, <2>1, <2>2 DEF ServerBase
<1>7. Issued'
  <2>1. \A i \in DOMAIN d_rx' : d_rx'[i] = c \/ \E j \in DOMAIN d_rx : d_rx'[i] = d_rx[j]
    BY <1>1, AppendMembers DEF ServerBase
  <2>2. \A i \in DOMAIN d_rx' : d_rx'[i] \in Server!Connect => conn'[d_rx'[i]] # "none"
    BY <1>4, <2>1 DEF Issued
  <2>3. accepting' # None => conn'[accepting'] # "none"
    BY <1>1, <1>4 DEF Issued, ServerBase
  <2>4. ASSUME NEW i \in DOMAIN m_rx' PROVE conn'[m_rx'[i].from] # "none"
    <3>1. m_rx[i] \in Server!Change
      BY <1>1, <2>4 DEF ServerBase
    <3>2. m_rx[i].from \in Server!Connect
      BY <3>1 DEF Server!Change
    <3>3. QED
      BY <1>1, <1>4, <2>4, <3>2 DEF Issued
  <2>5. QED
    BY <2>2, <2>3, <2>4 DEF Issued
<1>8. Order'
  <2>1. ASSUME NEW b \in Server!Connect, conn'[b] # "none"
        PROVE  pc'[b.scid] \in After /\ (pc'[b.scid] = "sendControl" => b.cmd = "MainVideo")
    <3>1. CASE b = c
      BY <1>1, <1>2, <1>3, <3>1 DEF After
    <3>2. CASE b # c /\ b.scid = r
      BY <1>1, <1>2, <1>3, <1>4, <2>1, <3>2 DEF After
    <3>3. CASE b # c /\ b.scid # r
      <4>1. b.scid \in Requests
        BY DEF Server!Connect
      <4>2. QED
        BY <1>3, <1>4, <2>1, <3>3, <4>1 DEF Order
    <3>4. QED
      BY <3>1, <3>2, <3>3
  <2>2. ASSUME NEW q \in Requests, pc'[q] \in {"spawn", "track"} \/ child'[q] # "none"
        PROVE  \E b \in Server!Connect : b.scid = q /\ conn'[b] # "none"
    <3>1. CASE q = r
      BY <1>1, <1>4, <3>1
    <3>2. CASE q # r
      <4>1. PICK b \in Server!Connect : b.scid = q /\ conn[b] # "none"
        BY <1>1, <1>3, <2>2, <3>2 DEF Order
      <4>2. QED
        BY <1>1, <1>4, <4>1
    <3>3. QED
      BY <3>1, <3>2
  <2>3. QED
    BY <1>1, <2>1, <2>2 DEF Order
<1>9. QED
  BY <1>5, <1>6, <1>7, <1>8

\* A step of the connection server works on what has been sent to it.
LEMMA LinkedServer ==
  ASSUME Linked, UNCHANGED <<webVars, video, dialed>>, ServerBase', Issued',
         \A c \in Server!Connect : conn'[c] # "none" <=> conn[c] # "none"
  PROVE  Linked'
<1>1. UNCHANGED <<pc, child, video, watcher, controlled, doomed, dialed>>
  BY DEF webVars
<1>2. WebBase'
  BY <1>1 DEF Linked, WebBase, Watched
<1>3. Order'
  BY <1>1 DEF Linked, Order
<1>4. QED
  BY <1>2, <1>3 DEF Linked

\* The step of one connection, which may tell the mask.
LEMMA IssuedStep ==
  ASSUME ServerBase, Issued, NEW c \in Server!Connect, conn[c] # "none",
         NEW p \in Server!Phases \ {"none"}, conn' = [conn EXCEPT ![c] = p],
         UNCHANGED d_rx, accepting' \in {accepting, None},
         m_rx' = m_rx \/ \E b \in BOOLEAN : m_rx' = Append(m_rx, [connect |-> b, from |-> c])
  PROVE  /\ ServerBase' /\ Issued'
         /\ \A x \in Server!Connect : conn'[x] # "none" <=> conn[x] # "none"
<1>1. \A x \in Server!Connect : conn'[x] # "none" <=> conn[x] # "none"
  BY DEF ServerBase
<1>2. conn' \in [Server!Connect -> Server!Phases] /\ accepting' \in Server!Connect \cup {None}
  BY DEF ServerBase
<1>3. m_rx' \in Seq(Server!Change) /\ \A i \in DOMAIN m_rx' : conn'[m_rx'[i].from] # "none"
  <2>0. \A i \in DOMAIN m_rx : conn'[m_rx[i].from] # "none"
    <3> TAKE i \in DOMAIN m_rx
    <3>1. m_rx[i] \in Server!Change
      BY DEF ServerBase
    <3>2. m_rx[i].from \in Server!Connect
      BY <3>1 DEF Server!Change
    <3>3. QED
      BY <1>1, <3>2 DEF Issued
  <2>1. CASE m_rx' = m_rx
    BY <2>0, <2>1 DEF ServerBase
  <2>2. ASSUME NEW b \in BOOLEAN, m_rx' = Append(m_rx, [connect |-> b, from |-> c])
        PROVE  m_rx' \in Seq(Server!Change) /\ \A i \in DOMAIN m_rx' : conn'[m_rx'[i].from] # "none"
    <3>1. [connect |-> b, from |-> c] \in Server!Change
      BY DEF Server!Change
    <3>2. m_rx' \in Seq(Server!Change) /\ \A i \in DOMAIN m_rx' :
            m_rx'[i] = [connect |-> b, from |-> c] \/ \E j \in DOMAIN m_rx : m_rx'[i] = m_rx[j]
      BY <2>2, <3>1, AppendMembers DEF ServerBase
    <3>3. QED
      BY <1>1, <2>0, <3>2
  <2>3. QED
    BY <2>1, <2>2
<1>4. \A i \in DOMAIN d_rx' : d_rx'[i] \in Server!Connect => conn'[d_rx'[i]] # "none"
  BY <1>1 DEF Issued
<1>5. accepting' # None => conn'[accepting'] # "none"
  BY <1>1 DEF Issued, ServerBase
<1>6. QED
  BY <1>1, <1>2, <1>3, <1>4, <1>5 DEF ServerBase, Issued

LEMMA LinkedTask ==
  ASSUME Linked, NEW c \in Server!Connect, UNCHANGED <<webVars, video>>,
         Server!Task(c) \/ Server!MetaRead(c) \/ Server!MetaFails(c) \/ Server!PeerCloses(c)
  PROVE  Linked'
<1>1. /\ conn[c] # "none" /\ UNCHANGED <<d_rx, accepting, dialed>>
      /\ \E p \in {"start", "closed", "open", "connecting", "leaving"} : conn' = [conn EXCEPT ![c] = p]
      /\ m_rx' = m_rx \/ \E b \in BOOLEAN : m_rx' = Append(m_rx, [connect |-> b, from |-> c])
  <2> USE DEF Server!loopVars, Server!dialVars, Server!maskVars, Server!Phase
  <2>1. CASE Server!MetaRead(c)
    BY <2>1 DEF Server!MetaRead
  <2>2. CASE Server!MetaFails(c)
    BY <2>2 DEF Server!MetaFails
  <2>3. CASE Server!Leave(c)
    BY <2>3 DEF Server!Leave, Server!Parted, Server!Announce
  <2>4. CASE Server!Start(c)
    BY <2>4 DEF Server!Start, Server!Started, Server!Announce
  <2>5. QED
    BY <2>1, <2>2, <2>3, <2>4 DEF Server!Task, Server!Cancelled, Server!PeerCloses
<1>2. {"start", "closed", "open", "connecting", "leaving"} \subseteq Server!Phases \ {"none"}
  BY DEF Server!Phases, Server!Live, Server!Waiting
<1>3. PICK p \in Server!Phases \ {"none"} : conn' = [conn EXCEPT ![c] = p]
  BY <1>1, <1>2
<1>4. ServerBase' /\ Issued' /\ \A x \in Server!Connect : conn'[x] # "none" <=> conn[x] # "none"
  BY <1>1, <1>3, IssuedStep DEF Linked
<1>5. QED
  BY <1>1, <1>4, LinkedServer

LEMMA LinkedMask == ASSUME Linked, MaskHandles PROVE Linked'
<1> DEFINE c == Head(m_rx).from
<1>1. /\ m_rx # <<>> /\ m_rx' = Tail(m_rx) /\ UNCHANGED <<webVars, video, d_rx, accepting, dialed>>
      /\ conn' = [conn EXCEPT ![c] = IF Head(m_rx).connect THEN "open" ELSE "closed"]
  BY DEF MaskHandles, Server!MaskHandles, Server!Phase, Server!loopVars, Server!dialVars
<1>2. /\ Head(m_rx) \in Server!Change /\ m_rx' \in Seq(Server!Change)
      /\ 1 \in DOMAIN m_rx /\ Head(m_rx) = m_rx[1]
      /\ \A i \in DOMAIN m_rx' : \E j \in DOMAIN m_rx : m_rx'[i] = m_rx[j]
  BY <1>1, TailMembers DEF Linked, ServerBase
<1>3. c \in Server!Connect /\ conn[c] # "none"
  BY <1>2 DEF Server!Change, Linked, Issued
<1>4. PICK p \in {"open", "closed"} : conn' = [conn EXCEPT ![c] = p]
  BY <1>1
<1>5. \A x \in Server!Connect : conn'[x] # "none" <=> conn[x] # "none"
  BY <1>3, <1>4 DEF Linked, ServerBase
<1>6. ServerBase'
  <2>1. conn' \in [Server!Connect -> Server!Phases]
    BY <1>4 DEF Linked, ServerBase, Server!Phases, Server!Live
  <2>2. QED
    BY <1>1, <1>2, <2>1 DEF Linked, ServerBase
<1>7. Issued'
  <2>1. ASSUME NEW i \in DOMAIN m_rx' PROVE conn'[m_rx'[i].from] # "none"
    <3>1. PICK j \in DOMAIN m_rx : m_rx'[i] = m_rx[j]
      BY <1>2
    <3>2. m_rx[j] \in Server!Change
      BY DEF Linked, ServerBase
    <3>3. m_rx[j].from \in Server!Connect
      BY <3>2 DEF Server!Change
    <3>4. QED
      BY <1>5, <3>1, <3>3 DEF Linked, Issued
  <2>2. QED
    BY <1>1, <1>5, <2>1 DEF Linked, Issued, ServerBase
<1>8. QED
  BY <1>1, <1>5, <1>6, <1>7, LinkedServer

\* The command loop: the command it takes, if a connect command, has been sent.
LEMMA LinkedLoop == ASSUME Linked, Loop PROVE Linked'
<1> USE DEF Linked
<1>0. UNCHANGED <<webVars, video>> /\ Server!Loop
  BY DEF Loop
<1>1. ASSUME NEW c, Server!Takes(c), UNCHANGED m_rx,
             \/ UNCHANGED conn /\ accepting' = accepting
             \/ /\ c \in Server!Connect /\ accepting' \in {accepting, c}
                /\ \E p \in {"accepting", "refused"} : conn' = [conn EXCEPT ![c] = p]
      PROVE  ServerBase' /\ Issued' /\ \A x \in Server!Connect : conn'[x] # "none" <=> conn[x] # "none"
  <2>1. /\ d_rx # <<>> /\ c = Head(d_rx) /\ d_rx' = Tail(d_rx)
    BY <1>1 DEF Server!Takes
  <2>2. /\ d_rx' \in Seq(Server!Connect \cup Server!Shutdown)
        /\ 1 \in DOMAIN d_rx /\ Head(d_rx) = d_rx[1]
        /\ \A i \in DOMAIN d_rx' : \E j \in DOMAIN d_rx : d_rx'[i] = d_rx[j]
    BY <2>1, TailMembers DEF ServerBase
  <2>3. c \in Server!Connect => conn[c] # "none"
    BY <2>1, <2>2 DEF Issued
  <2>4. \A x \in Server!Connect : conn'[x] # "none" <=> conn[x] # "none"
    BY <1>1, <2>3 DEF ServerBase
  <2>5. ServerBase'
    <3>1. conn' \in [Server!Connect -> Server!Phases]
      BY <1>1 DEF ServerBase, Server!Phases
    <3>2. QED
      BY <1>1, <2>2, <3>1 DEF ServerBase
  <2>6. \A i \in DOMAIN d_rx' : d_rx'[i] \in Server!Connect => conn'[d_rx'[i]] # "none"
    BY <2>2, <2>4 DEF Issued
  <2>7. accepting' # None => conn'[accepting'] # "none"
    BY <1>1, <2>3, <2>4 DEF Issued, ServerBase
  <2>8. ASSUME NEW i \in DOMAIN m_rx' PROVE conn'[m_rx'[i].from] # "none"
    <3>1. m_rx[i] \in Server!Change
      BY <1>1, <2>8 DEF ServerBase
    <3>2. m_rx[i].from \in Server!Connect
      BY <3>1 DEF Server!Change
    <3>3. QED
      BY <1>1, <2>4, <2>8, <3>2 DEF Issued
  <2>9. QED
    BY <2>4, <2>5, <2>6, <2>7, <2>8 DEF Issued
<1>2. CASE Server!HandleConnect
  <2>1. PICK c \in Server!Connect :
          /\ Server!Takes(c) /\ UNCHANGED <<m_rx, dialed>> /\ accepting' \in {accepting, c}
          /\ \E p \in {"accepting", "refused"} : conn' = [conn EXCEPT ![c] = p]
    BY <1>2 DEF Server!HandleConnect, Server!Phase, Server!dialVars, Server!maskVars
  <2>2. QED
    BY <1>0, <1>1, <2>1, LinkedServer
<1>3. CASE Server!HandleShutdownMain \/ Server!HandleShutdownSub
  <2>1. PICK c \in Server!Shutdown : Server!Takes(c) /\ UNCHANGED <<m_rx, dialed, conn, accepting>>
    BY <1>3 DEF Server!HandleShutdownMain, Server!HandleShutdownSub, Server!dialVars, Server!maskVars
  <2>2. QED
    BY <1>0, <1>1, <2>1, LinkedServer
<1>4. CASE Server!Accept
  <2>1. /\ accepting \in Server!Connect /\ accepting # None /\ accepting' = None
        /\ UNCHANGED <<d_rx, m_rx, dialed>>
        /\ \E p \in {"meta", "start"} : conn' = [conn EXCEPT ![accepting] = p]
    BY <1>4 DEF Server!Accept, Server!Phase, Server!maskVars, ServerBase
  <2>2. {"meta", "start"} \subseteq Server!Phases \ {"none"} /\ conn[accepting] # "none"
    BY <2>1 DEF Server!Phases, Server!Live, Issued
  <2>3. ServerBase' /\ Issued' /\ \A x \in Server!Connect : conn'[x] # "none" <=> conn[x] # "none"
    BY <2>1, <2>2, IssuedStep
  <2>4. QED
    BY <1>0, <2>1, <2>3, LinkedServer
<1>5. QED
  BY <1>0, <1>2, <1>3, <1>4 DEF Server!Loop

LEMMA LinkedAcceptFails == ASSUME Linked, AcceptFails PROVE Linked'
<1> USE DEF Linked
<1>1. /\ accepting \in Server!Connect /\ accepting # None /\ accepting' = None
      /\ conn' = [conn EXCEPT ![accepting] = "closed"]
      /\ controlled' \subseteq controlled
      /\ UNCHANGED <<pc, doomed, child, watcher, video, d_rx, dialed, m_rx>>
  BY DEF AcceptFails, ServerBase
<1>2. "closed" \in Server!Phases \ {"none"} /\ conn[accepting] # "none"
  BY <1>1 DEF Server!Phases, Issued
<1>3. ServerBase' /\ Issued' /\ \A x \in Server!Connect : conn'[x] # "none" <=> conn[x] # "none"
  BY <1>1, <1>2, IssuedStep
<1>4. WebBase'
  BY <1>1 DEF WebBase, Watched
<1>5. Order'
  BY <1>1, <1>3 DEF Order
<1>6. QED
  BY <1>3, <1>4, <1>5

\* What a device that dials in has to respect.
LEMMA Dialing ==
  ASSUME NEW r \in Requests, Dial(r)
  PROVE  \E stream \in {"video", "control"} :
           /\ child[r] = "running"
           /\ [stream |-> stream, scid |-> r] \notin dialed
           /\ stream = "video" => video[r]
           /\ stream = "control" /\ video[r] => [stream |-> "video", scid |-> r] \in dialed
           /\ dialed' = dialed \cup {[stream |-> stream, scid |-> r]}
           /\ backlog' = Append(backlog, [stream |-> stream, scid |-> r])
           /\ UNCHANGED <<webVars, d_rx, accepting, signal_map, cancelled, conn, peer, m_rx, mask, video>>
BY DEF Dial

LEMMA LinkedDial == ASSUME Linked, NEW r \in Requests, Dial(r) PROVE Linked'
<1> USE DEF Linked
<1>1. PICK stream \in {"video", "control"} :
        /\ child[r] = "running"
        /\ stream = "control" /\ video[r] => [stream |-> "video", scid |-> r] \in dialed
        /\ dialed' = dialed \cup {[stream |-> stream, scid |-> r]}
        /\ UNCHANGED <<webVars, d_rx, accepting, conn, m_rx, video>>
  BY Dialing
<1>2. UNCHANGED <<pc, child, video, watcher, controlled, doomed>>
  BY <1>1 DEF webVars
<1>3. WebBase' /\ ServerBase' /\ Issued'
  BY <1>1, <1>2 DEF WebBase, Watched, ServerBase, Issued
<1>4. Order'
  <2>1. \A k \in dialed' : k.scid \in Requests /\ child'[k.scid] # "none"
    BY <1>1, <1>2 DEF Order
  <2>2. ASSUME NEW q \in Requests, video'[q], [stream |-> "control", scid |-> q] \in dialed'
        PROVE  [stream |-> "video", scid |-> q] \in dialed'
    <3>1. CASE [stream |-> "control", scid |-> q] \in dialed
      BY <1>1, <1>2, <2>2, <3>1 DEF Order
    <3>2. CASE [stream |-> "control", scid |-> q] \notin dialed
      <4>1. [stream |-> "control", scid |-> q] = [stream |-> stream, scid |-> r]
        BY <1>1, <2>2, <3>2
      <4>2. stream = "control" /\ q = r
        BY <4>1
      <4>3. QED
        BY <1>1, <1>2, <2>2, <4>2
    <3>3. QED
      BY <3>1, <3>2
  <2>3. QED
    BY <1>1, <1>2, <2>1, <2>2 DEF Order
<1>5. QED
  BY <1>3, <1>4

\* A step of the web server that sends no connect command.
Silent(r) == Arrive(r) \/ Register(r) \/ SendShutdown(r) \/ Handler(r) \/ Unguard(r) \/ Watcher(r)

LEMMA SilentMoves ==
  ASSUME Linked,
         \/ \E r \in Requests : Silent(r)
         \/ \E w \in Sockets : CleanupSends(w) \/ CleanupRemoves(w)
         \/ Outside
  PROVE  /\ WebMoves /\ ShutdownQueued
         /\ UNCHANGED <<accepting, signal_map, cancelled, dialed, backlog, conn, peer, m_rx, mask>>
         /\ video' \in [Requests -> BOOLEAN]
         /\ \A r \in Requests : child[r] # "none" => video'[r] = video[r]
<1> USE DEF Linked
<1>1. ASSUME NEW r \in Requests, Silent(r) PROVE WebMoves
  <2>1. CASE Register(r) \/ Web!Unregister(r) \/ Web!WatcherUnregisters(r)
    BY <2>1, RegistryMoves DEF Register
  <2>2. CASE Unguard(r) \/ Web!WatcherWakes(r) \/ Web!WatcherUntracks(r)
    BY <2>2, TaskMoves DEF Unguard
  <2>3. CASE \/ Web!Arrive(r) \/ Web!CheckControlled(r) \/ Web!Reserve(r) \/ Web!ChooseRole(r)
             \/ Web!SpawnChild(r) \/ Web!Track(r) \/ Web!FindForReconnect(r)
             \/ Web!TakeAndKill(r) \/ Web!LookupMisses(r) \/ Web!SendShutdown(r)
    BY <2>3, HandlerMoves
  <2>4. QED
    BY <1>1, <2>1, <2>2, <2>3 DEF Silent, Arrive, SendShutdown, Handler, Watcher, Web!Watcher
<1>2. ASSUME NEW w \in Sockets, CleanupSends(w) \/ CleanupRemoves(w) PROVE WebMoves
  BY <1>2, TaskMoves DEF CleanupSends, CleanupRemoves
<1>3. ASSUME Outside PROVE WebMoves
  <2>1. ASSUME NEW r \in Requests, Web!PushFails(r) \/ Web!SpawnFails(r) \/ Web!ClientGone(r)
        PROVE  WebMoves
    BY <2>1, HandlerMoves
  <2>2. ASSUME NEW r \in Requests, Web!ChildExits(r) PROVE WebMoves
    BY <2>2, TaskMoves
  <2>3. ASSUME NEW w \in Sockets, Web!SocketCloses(w) PROVE WebMoves
    BY <2>3, TaskMoves
  <2>4. QED
    BY <1>3, <2>1, <2>2, <2>3 DEF Outside
<1>4. ShutdownQueued /\ UNCHANGED <<accepting, signal_map, cancelled, dialed, backlog, conn, peer, m_rx, mask>>
  <2>1. ASSUME NEW e, e.scid \in Requests, Queued(ShutdownCommand(e)) PROVE ShutdownQueued
    <3>1. ShutdownCommand(e) \in Server!Shutdown
      BY <2>1 DEF ShutdownCommand, Server!Shutdown
    <3>2. QED
      BY <2>1, <3>1 DEF ShutdownQueued, Queued
  <2>2. ASSUME NEW r \in Requests, SendShutdown(r)
        PROVE  ShutdownQueued /\ UNCHANGED <<accepting, signal_map, cancelled, dialed, backlog, conn, peer, m_rx, mask>>
    <3>1. PICK e \in controlled : Queued(ShutdownCommand(e))
      BY <2>2 DEF SendShutdown
    <3>2. QED
      BY <2>1, <2>2, <3>1 DEF SendShutdown, Queued, WebBase
  <2>3. ASSUME NEW w \in Sockets, CleanupSends(w)
        PROVE  ShutdownQueued /\ UNCHANGED <<accepting, signal_map, cancelled, dialed, backlog, conn, peer, m_rx, mask>>
    <3>1. PICK e \in doomed[w] : Queued(ShutdownCommand(e))
      BY <2>3 DEF CleanupSends
    <3>2. QED
      BY <2>1, <2>3, <3>1 DEF CleanupSends, Queued, WebBase
  <2>4. ASSUME UNCHANGED serverVars
        PROVE  ShutdownQueued /\ UNCHANGED <<accepting, signal_map, cancelled, dialed, backlog, conn, peer, m_rx, mask>>
    BY <2>4 DEF serverVars, ShutdownQueued
  <2>5. QED
    BY <2>2, <2>3, <2>4 DEF Silent, Arrive, Register, Handler, Unguard, Watcher, CleanupRemoves, Outside
<1>5. video' \in [Requests -> BOOLEAN] /\ \A r \in Requests : child[r] # "none" => video'[r] = video[r]
  <2>1. ASSUME NEW r \in Requests, Arrive(r)
        PROVE  video' \in [Requests -> BOOLEAN] /\ \A q \in Requests : child[q] # "none" => video'[q] = video[q]
    <3>1. PICK flag \in BOOLEAN : video' = [video EXCEPT ![r] = flag]
      BY <2>1 DEF Arrive
    <3>2. child[r] = "none"
      <4>1. pc[r] = "idle"
        BY <2>1 DEF Arrive, Web!Arrive
      <4>2. \A c \in Server!Connect : c.scid = r => conn[c] = "none"
        BY <4>1 DEF Order, After
      <4>3. QED
        BY <4>2 DEF Order
    <3>3. QED
      BY <3>1, <3>2 DEF WebBase
  <2>2. ASSUME UNCHANGED video
        PROVE  video' \in [Requests -> BOOLEAN] /\ \A q \in Requests : child[q] # "none" => video'[q] = video[q]
    BY <2>2 DEF WebBase
  <2>3. QED
    BY <2>1, <2>2 DEF Silent, Register, SendShutdown, CleanupSends, Queued, Handler, Unguard, Watcher,
                      CleanupRemoves, Outside
<1>6. QED
  BY <1>1, <1>2, <1>3, <1>4, <1>5

LEMMA LinkedNext == ASSUME Linked, [Next]_vars PROVE Linked'
<1>1. CASE \/ \E r \in Requests : Silent(r)
           \/ \E w \in Sockets : CleanupSends(w) \/ CleanupRemoves(w)
           \/ Outside
  BY <1>1, SilentMoves, LinkedWeb
<1>2. ASSUME NEW r \in Requests, SendConnect(r) \/ Dial(r) PROVE Linked'
  BY <1>2, LinkedSend, LinkedDial
<1>3. ASSUME NEW c \in Server!Connect, Task(c) PROVE Linked'
  BY <1>3, LinkedTask DEF Task
<1>4. CASE Network
  BY <1>4, LinkedTask DEF Network
<1>5. CASE Loop \/ MaskHandles \/ AcceptFails
  BY <1>5, LinkedLoop, LinkedMask, LinkedAcceptFails
<1>6. CASE UNCHANGED vars
  BY <1>6 DEF vars, webVars, serverVars, Linked, WebBase, Watched, ServerBase, Issued, Order
<1>7. QED
  BY <1>1, <1>2, <1>3, <1>4, <1>5, <1>6 DEF Next, Request, Silent

LEMMA LinkedInit == Init => Linked
<1> SUFFICES ASSUME Init PROVE Linked  OBVIOUS
<1> USE DEF Init, Web!Init, Server!Init
<1>1. WebBase
  BY DEF WebBase, Watched, Web!Phases
<1>2. ServerBase
  <2>1. d_rx \in Seq(Server!Connect \cup Server!Shutdown) /\ m_rx \in Seq(Server!Change)
    OBVIOUS
  <2>2. QED
    BY <2>1 DEF ServerBase, Server!Phases
<1>3. Issued
  <2>1. DOMAIN d_rx = {} /\ DOMAIN m_rx = {} /\ accepting = None
    OBVIOUS
  <2>2. QED
    BY <2>1 DEF Issued
<1>4. Order
  BY DEF Order
<1>5. QED
  BY <1>1, <1>2, <1>3, <1>4 DEF Linked

LEMMA LinkedHolds == Spec => []Linked
<1>1. QED
  BY LinkedInit, LinkedNext, PTL DEF Spec

-----------------------------------------------------------------------------
(* The web server.                                                          *)

LEMMA WebStep == ASSUME Linked, [Next]_vars PROVE [Web!Next]_(Web!vars)
<1> USE DEF Web!Next, Web!Handler, Web!Watcher, Web!Cleanup, Web!Environment
<1>1. ASSUME NEW r \in Requests, Request(r) PROVE Web!Next
  BY <1>1 DEF Request, Register, SendConnect, SendShutdown, Handler, Unguard, Watcher
<1>2. ASSUME NEW r \in Requests, Arrive(r) PROVE Web!Next
  BY <1>2 DEF Arrive
<1>3. ASSUME NEW w \in Sockets, CleanupSends(w) \/ CleanupRemoves(w) PROVE Web!Next
  BY <1>3 DEF CleanupSends, CleanupRemoves
<1>4. CASE Outside
  BY <1>4 DEF Outside
<1>5. CASE AcceptFails
  <2> DEFINE r == accepting.scid
  <2>1. /\ controlled' = {e \in controlled : e.scid # r}
        /\ UNCHANGED <<req, pc, found, open, doomed, ending, connecting, unguard,
                       processes, child, watcher, killed>>
    BY <1>5 DEF AcceptFails, Failed
  <2>2. accepting \in Server!Connect /\ conn[accepting] # "none"
    BY <1>5 DEF AcceptFails, Linked, ServerBase, Issued
  <2>3. r \in Requests /\ pc[r] \notin {"sendVideo", "sendSub"}
    BY <2>2 DEF Server!Connect, Linked, Order, After
  <2>4. CASE r \in Web!Scids
    BY <2>1, <2>3, <2>4 DEF Web!AcceptFails, Web!RemoveDevice, Web!handlerVars, Web!cleanupVars,
                            Web!guardVars, Web!childVars
  <2>5. CASE r \notin Web!Scids
    <3>1. controlled' = controlled
      BY <2>1, <2>5 DEF Web!Scids
    <3>2. QED
      BY <2>1, <3>1 DEF Web!vars, Web!handlerVars, Web!cleanupVars, Web!guardVars, Web!childVars
  <2>6. QED
    BY <2>4, <2>5
<1>6. ASSUME UNCHANGED webVars PROVE UNCHANGED Web!vars
  BY <1>6 DEF webVars, Web!vars, Web!handlerVars, Web!cleanupVars, Web!guardVars, Web!childVars
<1>7. ASSUME NEW r \in Requests, Dial(r) PROVE UNCHANGED webVars
  BY <1>7 DEF Dial
<1>8. CASE Loop \/ MaskHandles \/ Network \/ (\E c \in Server!Connect : Task(c)) \/ UNCHANGED vars
  BY <1>6, <1>8 DEF Loop, MaskHandles, Network, Task, vars
<1>9. QED
  BY <1>1, <1>2, <1>3, <1>4, <1>5, <1>6, <1>7, <1>8 DEF Next

\* The composition implements the web server of DeviceSession: a failed accept
\* never removes the entry of a session whose first command is still to be
\* sent, and nothing else of the connection server touches the web server.
THEOREM WebImplemented == Spec => ImplementsWeb
<1>1. Init => Web!Init
  BY DEF Init
<1>2. QED
  BY <1>1, WebStep, LinkedHolds, PTL DEF Spec, ImplementsWeb, Web!Spec

\* Across the two components: a connection exists only once its session's
\* handler has come to its commands, the video before the control; a child runs
\* only after one of its session's commands was sent, and no device dials
\* before its child (device.rs:217-305), whatever fails or is dropped.
THEOREM CommandsBeforeSockets == Spec => []Order
<1>1. Linked => Order
  BY DEF Linked
<1>2. QED
  BY <1>1, LinkedHolds, PTL

-----------------------------------------------------------------------------
(* The connection server.                                                   *)

LEMMA ServerStep ==
  ASSUME Linked, [Next]_vars PROVE [Server!Next]_(Server!vars)
<1> USE DEF Linked
<1> DEFINE registered == {e.scid : e \in controlled}
<1> USE DEF Server!Next, Server!Environment
<1>1. CASE \/ \E r \in Requests : Silent(r)
           \/ \E w \in Sockets : CleanupSends(w) \/ CleanupRemoves(w)
           \/ Outside
  <2>1. /\ WebMoves /\ ShutdownQueued
        /\ UNCHANGED <<accepting, signal_map, cancelled, dialed, backlog, conn, peer, m_rx, mask>>
    BY <1>1, SilentMoves
  <2>2. CASE d_rx' = d_rx
    <3>1. CASE controlled' = controlled
      BY <2>1, <2>2, <3>1 DEF Server!vars, Server!loopVars, Server!dialVars, Server!maskVars
    <3>2. ASSUME NEW s, controlled' = {e \in controlled : e.scid # s} PROVE [Server!Next]_(Server!vars)
      <4>1. registered' = registered \ {s}
        BY <3>2
      <4>2. CASE s \in Requests
        <5>1. Server!RegistryChanges
          BY <2>1, <2>2, <4>1, <4>2 DEF Server!RegistryChanges, Server!loopVars, Server!dialVars, Server!maskVars
        <5>2. QED
          BY <5>1
      <4>3. CASE s \notin Requests
        <5>1. registered' = registered
          BY <4>1, <4>3 DEF WebBase
        <5>2. QED
          BY <2>1, <2>2, <5>1 DEF Server!vars, Server!loopVars, Server!dialVars, Server!maskVars
      <4>4. QED
        BY <4>2, <4>3
    <3>3. ASSUME NEW r \in Requests, NEW e, e.scid = r, pc[r] \in Web!Registering,
                 controlled' = controlled \cup {e}
          PROVE  [Server!Next]_(Server!vars)
      <4>1. registered' = registered \cup {r}
        BY <3>3
      <4>2. Server!Sent(r) = {}
        BY <3>3 DEF Order, After, Web!Registering, Server!Sent
      <4>3. Server!RegistryChanges
        BY <2>1, <2>2, <4>1, <4>2 DEF Server!RegistryChanges, Server!loopVars, Server!dialVars, Server!maskVars
      <4>4. QED
        BY <4>3
    <3>4. QED
      BY <2>1, <3>1, <3>2, <3>3 DEF WebMoves
  <2>3. ASSUME NEW c \in Server!Shutdown, d_rx' = Append(d_rx, c) PROVE [Server!Next]_(Server!vars)
    <3>1. d_rx' # d_rx
      <4>1. Len(d_rx') = Len(d_rx) + 1 /\ Len(d_rx) \in Nat
        BY <2>3 DEF ServerBase
      <4>2. QED
        BY <4>1
    <3>2. controlled' = controlled
      BY <1>1, <3>1 DEF Silent, Arrive, Register, Handler, Unguard, Watcher, CleanupRemoves, Outside,
         SendShutdown, CleanupSends, Web!SendShutdown, Web!CleanupSends, serverVars
    <3>3. Server!SendShutdown(c)
      BY <2>1, <2>3, <3>2 DEF Server!SendShutdown, Server!dialVars, Server!maskVars
    <3>4. QED
      BY <3>3
  <2>4. QED
    BY <2>1, <2>2, <2>3 DEF ShutdownQueued
<1>2. ASSUME NEW r \in Requests, SendConnect(r) PROVE Server!Next
  <2>1. PICK c \in Server!Connect :
           /\ c.scid = r /\ conn[c] = "none"
           /\ \A b \in Server!Connect :
                b.scid = r /\ conn[b] # "none" => b.cmd = "MainVideo" /\ c.cmd = "MainControl"
           /\ conn' = [conn EXCEPT ![c] = "queued"]
           /\ d_rx' = Append(d_rx, c)
           /\ UNCHANGED <<accepting, signal_map, cancelled, dialed, backlog, peer, m_rx, mask, controlled>>
    BY <1>2, ConnectSent
  <2>2. \A b \in Server!Sent(c.scid) : b.cmd = "MainVideo" /\ Server!Main(c)
    BY <2>1 DEF Server!Sent, Server!Main
  <2>3. Server!SendConnect(c)
    BY <2>1, <2>2 DEF Server!SendConnect, Server!Phase, Server!dialVars, Server!maskVars
  <2>4. QED
    BY <2>3
<1>3. ASSUME NEW r \in Requests, Dial(r) PROVE Server!Next
  <2>1. PICK stream \in {"video", "control"} :
           /\ child[r] = "running"
           /\ [stream |-> stream, scid |-> r] \notin dialed
           /\ stream = "video" => video[r]
           /\ dialed' = dialed \cup {[stream |-> stream, scid |-> r]}
           /\ backlog' = Append(backlog, [stream |-> stream, scid |-> r])
           /\ UNCHANGED <<webVars, d_rx, accepting, signal_map, cancelled, conn, peer, m_rx, mask, video>>
    BY <1>3, Dialing
  <2> DEFINE k == [stream |-> stream, scid |-> r]
  <2>2. k \in Server!Socket /\ k.stream = stream /\ k.scid = r
    BY DEF Server!Socket
  <2>3. Server!Sent(r) # {}
    BY <2>1 DEF Order, Server!Sent
  <2>4. stream = "video" => [stream |-> "control", scid |-> r] \notin dialed
    BY <2>1 DEF Order
  <2>5. registered' = registered
    BY <2>1 DEF webVars
  <2>6. Server!Dial(k)
    BY <2>1, <2>2, <2>3, <2>4, <2>5 DEF Server!Dial, Server!loopVars, Server!maskVars
  <2>7. QED
    BY <2>2, <2>6
<1>4. CASE AcceptFails
  <2>1. registered' = registered \ {accepting.scid}
    BY <1>4 DEF AcceptFails, Failed
  <2>2. Server!AcceptFails
    BY <1>4, <2>1 DEF AcceptFails, Server!AcceptFails, Server!Phase, Server!dialVars, Server!maskVars
  <2>3. QED
    BY <2>2 DEF Server!Network
<1>5. CASE Loop \/ MaskHandles \/ Network \/ \E c \in Server!Connect : Task(c)
  BY <1>5 DEF Loop, MaskHandles, Network, Task, Server!Network
<1>6. CASE UNCHANGED vars
  BY <1>6 DEF vars, webVars, serverVars, Server!vars, Server!loopVars, Server!dialVars, Server!maskVars
<1>7. QED
  BY <1>1, <1>2, <1>3, <1>4, <1>5, <1>6 DEF Next, Request, Silent

\* The composition implements ConnectionServer: the web server registers a
\* session before it sends its commands, sends each once and in their order,
\* and a device dials in only after them.
THEOREM ServerImplemented == Spec => ImplementsServer
<1>1. Init => Server!Init
  BY DEF Init, Web!Init, Server!Init
<1>2. QED
  BY <1>1, ServerStep, LinkedHolds, PTL DEF Spec, ImplementsServer, Server!Spec

=============================================================================
