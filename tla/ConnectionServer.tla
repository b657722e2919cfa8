--------------------------- MODULE ConnectionServer ---------------------------
(***************************************************************************)
(* The connection server: the command loop of src/src/scrcpy/controller.rs *)
(* with its listener and its map of cancellation tokens, and the tasks     *)
(* that run the accepted connections (scrcpy/connection.rs) up to the      *)
(* DeviceConnectionChange commands they send to the mask.                  *)
(*                                                                         *)
(* A connect command is sent once per scid and kind, so the command stands *)
(* for its socket id, its token and the connection it leads to.  The       *)
(* registry and the devices that dial in are the environment.  What flows  *)
(* through an open connection is not modelled.                             *)
(***************************************************************************)
EXTENDS Naturals, Sequences, FiniteSets

CONSTANTS
  Scids,       \* the sessions
  None         \* no command, no socket

VARIABLES
  registered,  \* the scids in CONTROLLED_DEVICES
  d_rx,        \* the commands queued by the web server
  accepting,   \* the command whose listener.accept the loop waits for
  signal_map,  \* the commands whose token signal_map holds
  cancelled,   \* the commands whose token is cancelled
  dialed,      \* the sockets the devices have opened
  backlog,     \* those the listener has yet to accept
  conn,        \* where the connection of each connect command stands
  peer,        \* the socket the connection was given
  m_rx,        \* the connection changes queued for the mask
  mask         \* the mask shows: a main device is connected

loopVars == <<d_rx, accepting, signal_map>>
dialVars == <<dialed, backlog>>
maskVars == <<m_rx, mask>>
vars == <<registered, loopVars, cancelled, dialVars, conn, peer, maskVars>>

Connect  == [cmd : {"MainVideo", "MainControl", "SubControl"}, scid : Scids]
Shutdown == [cmd : {"ShutdownMain", "ShutdownSub"}, scid : Scids]
Socket   == [stream : {"video", "control"}, scid : Scids]
Change   == [connect : BOOLEAN, from : Connect]

\* From accept to the end of its task a connection is live.
Waiting == {"connecting", "leaving"}
Live    == Waiting \cup {"meta", "start", "open"}
Phases  == Live \cup {"none", "queued", "refused", "accepting", "closed"}

TypeOK ==
  /\ registered \subseteq Scids
  /\ d_rx \in Seq(Connect \cup Shutdown)
  /\ accepting \in Connect \cup {None}
  /\ signal_map \subseteq Connect /\ cancelled \subseteq Connect
  /\ dialed \subseteq Socket /\ backlog \in Seq(Socket)
  /\ conn \in [Connect -> Phases]
  /\ peer \in [Connect -> Socket \cup {None}]
  /\ m_rx \in Seq(Change) /\ mask \in BOOLEAN

Phase(c, phase) == conn' = [conn EXCEPT ![c] = phase]
Main(c) == c.cmd = "MainControl"

-----------------------------------------------------------------------------
(* The environment: the web server and the devices.                         *)

Sent(s) == {c \in Connect : c.scid = s /\ conn[c] # "none"}

\* add_device, before the session's first command, and remove_device.
RegistryChanges ==
  /\ \/ \E s \in Scids : Sent(s) = {} /\ registered' = registered \cup {s}
     \/ \E s \in Scids : registered' = registered \ {s}
  /\ UNCHANGED <<loopVars, cancelled, dialVars, conn, peer, maskVars>>

\* d_tx.send, the channel is unbounded: one sub control, or one main control
\* with the main video, if any, before it.
SendConnect(c) ==
  /\ conn[c] = "none"
  /\ \A b \in Sent(c.scid) : b.cmd = "MainVideo" /\ Main(c)
  /\ d_rx' = Append(d_rx, c)
  /\ Phase(c, "queued")
  /\ UNCHANGED <<registered, accepting, signal_map, cancelled, dialVars, peer, maskVars>>

SendShutdown(c) ==
  /\ d_rx' = Append(d_rx, c)
  /\ UNCHANGED <<registered, accepting, signal_map, cancelled, dialVars, conn, peer, maskVars>>

\* A device whose session has commands queued opens a socket through its adb
\* reverse tunnel: the video, when it sends any, then the control.
Dial(k) ==
  /\ k.stream = "video" => [stream |-> "control", scid |-> k.scid] \notin dialed
  /\ k \notin dialed /\ Sent(k.scid) # {}
  /\ dialed' = dialed \cup {k}
  /\ backlog' = Append(backlog, k)
  /\ UNCHANGED <<registered, loopVars, cancelled, conn, peer, maskVars>>

-----------------------------------------------------------------------------
(* The command loop, Controller::run_server.                                *)

\* The loop takes a command when it is not waiting in accept.
Takes(c) ==
  /\ accepting = None
  /\ d_rx # <<>>
  /\ c = Head(d_rx)
  /\ d_rx' = Tail(d_rx)

\* The main sockets have one id each, whatever the session.
SocketId(c) == IF c.cmd = "SubControl" THEN <<c.cmd, c.scid>> ELSE <<c.cmd, None>>
Holding(id) == {t \in signal_map : SocketId(t) = id}

\* signal_map.insert replaces the token stored under the same id.
Stored(c) == (signal_map \ Holding(SocketId(c))) \cup {c}

\* A connect command of a registered session stores a token and waits for a
\* socket; any other is skipped.
HandleConnect ==
  \E c \in Connect :
    /\ Takes(c)
    /\ \/ /\ c.scid \in registered
          /\ accepting' = c
          /\ signal_map' = Stored(c)
          /\ Phase(c, "accepting")
       \/ /\ c.scid \notin registered
          /\ Phase(c, "refused")
          /\ UNCHANGED <<accepting, signal_map>>
    /\ UNCHANGED <<registered, cancelled, dialVars, peer, maskVars>>

\* The device name comes with the first socket of a session: with the control
\* socket of a main session only when it has no video.
MetaFlag(c) == Main(c) => conn[[cmd |-> "MainVideo", scid |-> c.scid]] = "none"

\* The listener hands out the sockets in the order they were opened.
Accept ==
  /\ accepting # None
  /\ backlog # <<>>
  /\ accepting' = None
  /\ backlog' = Tail(backlog)
  /\ peer' = [peer EXCEPT ![accepting] = Head(backlog)]
  /\ Phase(accepting, IF MetaFlag(accepting) THEN "meta" ELSE "start")
  /\ UNCHANGED <<registered, d_rx, signal_map, cancelled, dialed, maskVars>>

AcceptFails ==
  /\ accepting # None
  /\ registered' = registered \ {accepting.scid}
  /\ signal_map' = signal_map \ {accepting}
  /\ accepting' = None
  /\ Phase(accepting, "closed")
  /\ UNCHANGED <<d_rx, cancelled, dialVars, peer, maskVars>>

\* (variant) the map is cleared without cancelling the sub connections.
Ended_MainOnly == {t \in signal_map : t.cmd # "SubControl"}
\* A main shutdown cancels every token of the map.
Ended == signal_map

\* The scid of the command is not looked at.
HandleShutdownMain ==
  \E c \in Shutdown :
    /\ c.cmd = "ShutdownMain"
    /\ Takes(c)
    /\ \/ /\ Holding(<<"MainControl", None>>) = {}
          /\ UNCHANGED <<signal_map, cancelled>>
       \/ /\ Holding(<<"MainControl", None>>) # {}
          /\ cancelled' = cancelled \cup Ended
          /\ signal_map' = {}
    /\ UNCHANGED <<registered, accepting, dialVars, conn, peer, maskVars>>

HandleShutdownSub ==
  \E c \in Shutdown :
    /\ c.cmd = "ShutdownSub"
    /\ Takes(c)
    /\ LET held == Holding(<<"SubControl", c.scid>>) IN
         /\ cancelled' = cancelled \cup held
         /\ signal_map' = signal_map \ held
    /\ UNCHANGED <<registered, accepting, dialVars, conn, peer, maskVars>>

-----------------------------------------------------------------------------
(* The task of a connection, handle_control and handle_video.               *)

\* The name arrives.  The read does not watch the token.
MetaRead(c) ==
  /\ conn[c] = "meta"
  /\ Phase(c, "start")
  /\ UNCHANGED <<registered, loopVars, cancelled, dialVars, peer, maskVars>>

\* The socket closes instead: the task cancels its own token and ends.
MetaFails(c) ==
  /\ conn[c] = "meta"
  /\ cancelled' = cancelled \cup {c}
  /\ Phase(c, "closed")
  /\ UNCHANGED <<registered, loopVars, dialVars, peer, maskVars>>

\* (variant) the command carries the scid, not the sender to answer.
Announce_Scid(c, connect) == m_rx' = Append(m_rx, [connect |-> connect, from |-> c.scid])
Announce(c, connect) == m_rx' = Append(m_rx, [connect |-> connect, from |-> c])

\* (variant) the answer of the mask is not waited for.
Started_NoWait(c) ==
  IF Main(c) THEN Announce(c, TRUE) /\ Phase(c, "open") ELSE UNCHANGED m_rx /\ Phase(c, "open")
\* A main control connection tells the mask and waits for its answer.
Started(c) ==
  IF Main(c) THEN Announce(c, TRUE) /\ Phase(c, "connecting") ELSE UNCHANGED m_rx /\ Phase(c, "open")

Start(c) ==
  /\ conn[c] = "start"
  /\ Started(c)
  /\ UNCHANGED <<registered, loopVars, cancelled, dialVars, peer, mask>>

\* (variant) a cancelled connection does not tell the mask.
Tells_Uncancelled(c) == Main(c) /\ c \notin cancelled
\* Only a main control connection tells the mask that it ends.
Tells(c) == Main(c)

Parted(c) ==
  IF Tells(c) THEN Announce(c, FALSE) /\ Phase(c, "leaving") ELSE UNCHANGED m_rx /\ Phase(c, "closed")

\* The select! ends, the token is cancelled for the other half.
Leave(c) ==
  /\ conn[c] = "open"
  /\ Parted(c)
  /\ cancelled' = cancelled \cup {c}
  /\ UNCHANGED <<registered, loopVars, dialVars, peer, mask>>

\* (variant) the select! of a video connection does not watch the token.
Watches_Control(c) == c.cmd # "MainVideo"
Watches(c) == TRUE

Cancelled(c)  == c \in cancelled /\ Watches(c) /\ Leave(c)
PeerCloses(c) == Leave(c)

-----------------------------------------------------------------------------
(* The mask, handle_mask_command.                                           *)

\* The change is carried out and answered; the connection goes on.
MaskHandles ==
  /\ m_rx # <<>>
  /\ m_rx' = Tail(m_rx)
  /\ mask' = Head(m_rx).connect
  /\ Phase(Head(m_rx).from, IF Head(m_rx).connect THEN "open" ELSE "closed")
  /\ UNCHANGED <<registered, loopVars, cancelled, dialVars, peer>>

-----------------------------------------------------------------------------
Init ==
  /\ registered = {}
  /\ d_rx = <<>> /\ accepting = None /\ signal_map = {}
  /\ cancelled = {}
  /\ dialed = {} /\ backlog = <<>>
  /\ conn = [c \in Connect |-> "none"]
  /\ peer = [c \in Connect |-> None]
  /\ m_rx = <<>> /\ mask = FALSE

Environment ==
  \/ RegistryChanges
  \/ \E c \in Connect : SendConnect(c)
  \/ \E c \in Shutdown : SendShutdown(c)
  \/ \E k \in Socket : Dial(k)
Loop == HandleConnect \/ Accept \/ HandleShutdownMain \/ HandleShutdownSub
Task(c) == Start(c) \/ Cancelled(c)
Network == AcceptFails \/ \E c \in Connect : MetaRead(c) \/ MetaFails(c) \/ PeerCloses(c)

Next == Environment \/ Loop \/ Network \/ MaskHandles \/ \E c \in Connect : Task(c)

Spec == Init /\ [][Next]_vars

-----------------------------------------------------------------------------
(* Properties.                                                              *)

\* Every sub connection that has not been told to stop can be: its token is
\* in signal_map under its own id, whatever main sessions come and go.
SubStoppable ==
  \A c \in Connect :
    c.cmd = "SubControl" /\ conn[c] \in Live /\ c \notin cancelled => c \in signal_map

\* The mask shows a main device only while some main control connection it
\* has been told of has not been taken back: it cannot stay on after the last.
MaskBacked == mask => \E c \in Connect : Main(c) /\ conn[c] \in {"open", "leaving"}

\* A connection waits for the mask exactly while its command is queued, once:
\* no answer is lost and none comes for a connection that has gone on.
AnswerOwed ==
  \A c \in Connect :
    Cardinality({i \in DOMAIN m_rx : m_rx[i].from = c}) =
      IF conn[c] \in Waiting THEN 1 ELSE 0

\* What a main control connection makes of the mask is the protocol the mask
\* keeps to (connection.rs:291-321): it is served between the two answers, and
\* the mask shows what the change answered last says.
MainConns == {c \in Connect : Main(c)}
Standing  == [connecting |-> "telling", open |-> "on", leaving |-> "parting"]
Protocol  == INSTANCE MaskProtocol WITH
               Conns <- MainConns,
               at    <- [c \in MainConns |-> IF conn[c] \in DOMAIN Standing THEN Standing[conn[c]] ELSE "away"],
               shown <- mask
ImplementsProtocol == Protocol!Spec

\* A connection whose token is cancelled ends, once it has read the name, when
\* the loop, the tasks and the mask are fair (Session checks it).
CancelledCloses ==
  \A c \in Connect : conn[c] \in Live \ {"meta"} /\ c \in cancelled ~> conn[c] = "closed"
=============================================================================
