------------------------------- MODULE Session -------------------------------
(***************************************************************************)
(* The web server's sessions composed with the connection server: the      *)
(* commands of DeviceSession go through d_rx to ConnectionServer, the      *)
(* connection server reads and shrinks the registry of DeviceSession, and  *)
(* a device dials in while its adb child runs.                             *)
(*                                                                         *)
(* Every step is a step of one of the two modules, or of both at once: the *)
(* composition implements each of them.                                    *)
(***************************************************************************)
EXTENDS Naturals, Sequences, FiniteSets

CONSTANTS Devices, Requests, Sockets, None

VARIABLES
  req, pc, found, open, doomed, ending, controlled, connecting, unguard,
  processes, child, watcher, killed,
  d_rx, accepting, signal_map, cancelled, dialed, backlog, conn, peer, m_rx, mask,
  video   \* the video flag of each request's payload

Web    == INSTANCE DeviceSession
Server == INSTANCE ConnectionServer WITH
            Scids <- Requests, registered <- {e.scid : e \in controlled}

webVars    == <<req, pc, found, open, doomed, ending, controlled, connecting, unguard,
                processes, child, watcher, killed>>
serverVars == <<d_rx, accepting, signal_map, cancelled, dialed, backlog, conn, peer, m_rx, mask>>
vars       == <<webVars, serverVars, video>>

TypeOK == Web!TypeOK /\ Server!TypeOK /\ video \in [Requests -> BOOLEAN]

-----------------------------------------------------------------------------
(* Steps of the web server.                                                 *)

\* A decontrol has no video flag in its payload.
Arrive(r) ==
  /\ Web!Arrive(r)
  /\ \E flag \in BOOLEAN :
       /\ flag => req'[r].op # "decontrol"
       /\ video' = [video EXCEPT ![r] = flag]
  /\ UNCHANGED serverVars

\* A main session with video gets a video connection first.
Register(r) ==
  /\ Web!Register(r)
  /\ pc[r] = "registerMain" => (pc'[r] = "sendVideo" <=> video[r])
  /\ UNCHANGED <<serverVars, video>>

\* d_tx.send, whatever else is queued.
Queued(c) ==
  /\ d_rx' = Append(d_rx, c)
  /\ UNCHANGED <<accepting, signal_map, cancelled, dialed, backlog, peer, m_rx, mask, video>>

\* (variant) the control connection is asked for before the video connection.
ConnectCommand_Swapped == [sendVideo |-> "MainControl", sendControl |-> "MainVideo", sendSub |-> "SubControl"]
ConnectCommand == [sendVideo |-> "MainVideo", sendControl |-> "MainControl", sendSub |-> "SubControl"]

SendConnect(r) ==
  LET c == [cmd |-> ConnectCommand[pc[r]], scid |-> r] IN
  /\ Web!SendConnect(r)
  /\ Queued(c)
  /\ conn' = [conn EXCEPT ![c] = "queued"]

ShutdownCommand(e) == [cmd |-> IF e.main THEN "ShutdownMain" ELSE "ShutdownSub", scid |-> e.scid]

SendShutdown(r) ==
  /\ Web!SendShutdown(r)
  /\ \E e \in controlled : e.scid = found'[r] /\ Queued(ShutdownCommand(e))
  /\ UNCHANGED conn

\* The command is the one of the entry the cleanup has copied.
CleanupSends(w) ==
  /\ Web!CleanupSends(w)
  /\ \E e \in doomed[w] : e.scid = ending'[w] /\ Queued(ShutdownCommand(e))
  /\ UNCHANGED conn

\* The other steps of a handler, its guard and its watcher.
Handler(r) ==
  /\ \/ Web!CheckControlled(r) \/ Web!Reserve(r) \/ Web!ChooseRole(r)
     \/ Web!SpawnChild(r) \/ Web!Track(r) \/ Web!FindForReconnect(r)
     \/ Web!TakeAndKill(r) \/ Web!LookupMisses(r) \/ Web!Unregister(r)
  /\ UNCHANGED <<serverVars, video>>
Unguard(r) == Web!Unguard(r) /\ UNCHANGED <<serverVars, video>>
Watcher(r) == Web!Watcher(r) /\ UNCHANGED <<serverVars, video>>
CleanupRemoves(w) == Web!CleanupRemoves(w) /\ UNCHANGED <<serverVars, video>>

\* What clients, adb and the devices do to the web server.
Outside ==
  /\ \/ \E r \in Requests :
          Web!PushFails(r) \/ Web!SpawnFails(r) \/ Web!ClientGone(r) \/ Web!ChildExits(r)
     \/ \E w \in Sockets : Web!SocketCloses(w)
  /\ UNCHANGED <<serverVars, video>>

-----------------------------------------------------------------------------
(* Steps of the connection server and of the devices.                       *)

Loop ==
  /\ UNCHANGED <<webVars, video>>
  /\ Server!Loop
MaskHandles ==
  /\ UNCHANGED <<webVars, video>>
  /\ Server!MaskHandles
Task(c) ==
  /\ UNCHANGED <<webVars, video>>
  /\ Server!Task(c)
Network ==
  /\ UNCHANGED <<webVars, video>>
  /\ \E c \in Server!Connect :
       Server!MetaRead(c) \/ Server!MetaFails(c) \/ Server!PeerCloses(c)

\* (variant) the entry is removed by its device.
Failed_ByDevice(e) == e.dev = req[accepting.scid].dev
Failed(e) == e.scid = accepting.scid

\* listener.accept fails: the entry goes, if it is still there.
AcceptFails ==
  /\ accepting # None
  /\ controlled' = {e \in controlled : ~Failed(e)}
  /\ UNCHANGED <<req, pc, found, open, doomed, ending, connecting, unguard,
                 processes, child, watcher, killed, video>>
  /\ signal_map' = signal_map \ {accepting}
  /\ conn' = [conn EXCEPT ![accepting] = "closed"]
  /\ accepting' = None
  /\ UNCHANGED <<d_rx, cancelled, dialed, backlog, peer, m_rx, mask>>

\* The server on the device opens the sockets its arguments ask for, the
\* video before the control; the payload's flag is passed on in every role.
Dial(r) ==
  /\ child[r] = "running"
  /\ \E stream \in {"video", "control"} :
       LET k == [stream |-> stream, scid |-> r] IN
       /\ k \notin dialed
       /\ stream = "video" => video[r]
       /\ stream = "control" /\ video[r] => [stream |-> "video", scid |-> r] \in dialed
       /\ dialed' = dialed \cup {k}
       /\ backlog' = Append(backlog, k)
  /\ UNCHANGED <<webVars, d_rx, accepting, signal_map, cancelled, conn, peer, m_rx, mask, video>>

-----------------------------------------------------------------------------
Init == Web!Init /\ Server!Init /\ video = [r \in Requests |-> FALSE]

\* What a request's tasks do of their own accord.
Request(r) ==
  Register(r) \/ SendConnect(r) \/ SendShutdown(r) \/ Handler(r) \/ Unguard(r) \/ Watcher(r)

Next ==
  \/ \E r \in Requests : Arrive(r) \/ Request(r) \/ Dial(r)
  \/ \E w \in Sockets : CleanupSends(w) \/ CleanupRemoves(w)
  \/ \E c \in Server!Connect : Task(c)
  \/ Outside \/ Loop \/ MaskHandles \/ Network \/ AcceptFails

Spec == Init /\ [][Next]_vars

\* The runtime polls every ready task, Bevy updates, and a device whose child
\* runs dials in; nobody else owes an event.
Fairness ==
  /\ \A r \in Requests : WF_vars(Request(r)) /\ WF_vars(Dial(r))
  /\ \A w \in Sockets : WF_vars(CleanupSends(w) \/ CleanupRemoves(w))
  /\ \A c \in Server!Connect : WF_vars(Task(c))
  /\ WF_vars(Loop) /\ WF_vars(MaskHandles)
FairSpec == Spec /\ Fairness

-----------------------------------------------------------------------------
(* Properties.                                                              *)

\* Seen from the web server alone, the composition is DeviceSession: what the
\* connection server does to the registry is an AcceptFails of it, and never
\* of a session whose command is still to be sent.
ImplementsWeb == Web!Spec

\* Seen from the connection server alone, it is ConnectionServer: a session is
\* registered before its commands, the commands come once, in their order, and
\* of one role, and a device dials in only after them.
ImplementsServer == Server!Spec

\* A connection whose token is cancelled ends, once it has read the device
\* name, whatever the web server does meanwhile.
CancelledCloses == Server!CancelledCloses

\* controller.rs:143 "receive command from web server to accept and shutdown
\* scrcpy connection": a shutdown that is queued is received.
ShutdownReceived ==
  \A c \in Server!Shutdown :
    (\E i \in DOMAIN d_rx : d_rx[i] = c) ~> (\A i \in DOMAIN d_rx : d_rx[i] # c)
=============================================================================
