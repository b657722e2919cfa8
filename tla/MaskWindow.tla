------------------------------ MODULE MaskWindow ------------------------------
(***************************************************************************)
(* The mask's window and its commands: handle_mask_command of              *)
(* src/src/mask/mask_command.rs, run once per frame on the Bevy main       *)
(* thread, and those who send it commands and wait for the answers.        *)
(*                                                                         *)
(* On Linux the window is spawned when a main device connects and          *)
(* despawned when it disconnects; both take effect at the end of the       *)
(* frame.  Elsewhere there is one window, shown and hidden, and moving it  *)
(* while it is shown takes two more frames.                                *)
(***************************************************************************)
EXTENDS Naturals, Sequences, FiniteSets

CONSTANTS
  Conns,       \* main control connections
  Movers,      \* video connections and cr_msg_handler, which move the window
  Clients,     \* requests that change a setting of the window
  Sizes,       \* the sizes a WinMove may ask for
  Windows,     \* the window entities there may be (a bound)
  None         \* no window, no resize

Senders == Conns \cup Movers \cup Clients
Change  == [what : {"connect", "disconnect"}, from : Conns]
Move    == [what : {"move"}, from : Movers \cup Clients, size : Sizes]
Level   == [what : {"level"}, from : Clients]
Command == Change \cup Move \cup Level

ASSUME WindowsAssumption == IsFiniteSet(Windows) /\ Windows # {} /\ None \notin Windows
ASSUME SendersAssumption == Conns \cap Movers = {} /\ Conns \cap Clients = {} /\ Movers \cap Clients = {}
ASSUME SizesAssumption   == None \notin [size : Sizes, from : Movers \cup Clients, shrunk : BOOLEAN]

VARIABLES
  platform,    \* the target the program is built for
  m_rx,        \* the mask channel
  stage,       \* where each sender stands
  connected,   \* device_connected; elsewhere what the mapping state says
  entity,      \* mask_window_entity
  windows,     \* the primary windows there are: size and visibility
  spawns,      \* the deferred commands of this frame
  despawns,
  pending,     \* pending_resize
  mask_size,   \* MaskSize
  crashed,     \* the main thread has panicked
  leaked,      \* history: windows nobody will despawn
  told,        \* history: a WinMove was answered with a size since the connect
  blind        \* history: the window it was for did not exist yet

queueVars  == <<m_rx, stage>>
windowVars == <<connected, entity, windows, spawns, despawns>>
history    == <<leaked, told, blind>>
vars       == <<platform, queueVars, windowVars, pending, mask_size, crashed, history>>

Window  == [size : Sizes \cup {"default"}, visible : BOOLEAN]
Pending == [size : Sizes, from : Movers \cup Clients, shrunk : BOOLEAN]
Live    == (DOMAIN windows \cup spawns) \ despawns

\* mask_window_entity is a window that is there, or is spawned in this frame.
TypeOK ==
  /\ platform \in {"linux", "other"}
  /\ m_rx \in Seq(Command)
  /\ stage \in [Senders -> {"idle", "waiting", "on", "leaving", "gone"}]
  /\ connected \in BOOLEAN
  /\ DOMAIN windows \subseteq Windows /\ windows \in [DOMAIN windows -> Window]
  /\ spawns \subseteq Windows /\ despawns \subseteq Windows
  /\ entity \in Live \cup {None}
  /\ pending \in Pending \cup {None}
  /\ mask_size \in Sizes \cup {"initial"}
  /\ crashed \in BOOLEAN
  /\ leaked \subseteq Live
  /\ told \in BOOLEAN /\ blind \in BOOLEAN

\* Which entity a window gets is of no consequence.
First(S)  == CHOOSE w \in S : TRUE
NewWindow == [size |-> "default", visible |-> FALSE]

\* WindowPlugin: no window on Linux, a hidden one elsewhere.
Init ==
  /\ platform \in {"linux", "other"}
  /\ m_rx = <<>> /\ stage = [s \in Senders |-> "idle"]
  /\ connected = FALSE /\ entity = None
  /\ windows = [w \in (IF platform = "linux" THEN {} ELSE {First(Windows)}) |-> NewWindow]
  /\ spawns = {} /\ despawns = {}
  /\ pending = None /\ mask_size = "initial"
  /\ crashed = FALSE
  /\ leaked = {} /\ told = FALSE /\ blind = FALSE

-----------------------------------------------------------------------------
(* The senders: each sends a command and awaits its answer.                 *)

Send(c, from, to) ==
  /\ ~crashed
  /\ stage[c.from] = from
  /\ m_rx' = Append(m_rx, c) /\ stage' = [stage EXCEPT ![c.from] = to]
  /\ UNCHANGED <<platform, windowVars, pending, mask_size, crashed, history>>

Free == Windows \ (DOMAIN windows \cup spawns)
Connects(q) == {i \in DOMAIN q : q[i].what = "connect"}

\* handle_control, before and after it serves its socket.  Several main
\* connections may overlap.  Bound: as many connects as there are windows.
ConnectSent(k) ==
  /\ platform = "linux" => Cardinality(Connects(m_rx)) < Cardinality(Free)
  /\ Send([what |-> "connect", from |-> k], "idle", "waiting")
DisconnectSent(k) == Send([what |-> "disconnect", from |-> k], "on", "leaving")

\* mask_win_move_helper: for a size of the video, a rotation, or a setting.
MoveSent(s) == \E size \in Sizes : Send([what |-> "move", from |-> s, size |-> size], "idle", "waiting")

\* update_config, always_on_top.
LevelSent(s) == Send([what |-> "level", from |-> s], "idle", "waiting")

\* A client leaves: its handler is dropped with the receiver of the answer.
ClientGone(s) ==
  /\ ~crashed
  /\ stage[s] = "waiting"
  /\ stage' = [stage EXCEPT ![s] = "gone"]
  /\ UNCHANGED <<platform, m_rx, windowVars, pending, mask_size, crashed, history>>

-----------------------------------------------------------------------------
(* A frame of the mask.                                                     *)

\* While a resize is pending no command is taken.
Takes(what) ==
  /\ ~crashed
  /\ pending = None
  /\ m_rx # <<>> /\ Head(m_rx).what = what
  /\ m_rx' = Tail(m_rx)
  /\ UNCHANGED platform

Answered(s) == IF s \in Conns /\ stage[s] = "waiting" THEN "on" ELSE "idle"
Answer(s)   == stage' = [stage EXCEPT ![s] = Answered(s)]

\* single_mut finds the window only when there is exactly one.
Single   == Cardinality(DOMAIN windows) = 1
Only     == CHOOSE w \in DOMAIN windows : TRUE
Adjust(size, visible) ==
  windows' = [w \in DOMAIN windows |-> [size |-> size, visible |-> visible]]

\* (variant) the window's entity is not stored.
StoredNone(w) == entity

\* The entity of the last connect replaces that of an earlier one, whose
\* window nobody despawns any more.
Stored(w) == w
Replaces  == {entity} \ {None}

ConnectLinux ==
  /\ platform = "linux"
  /\ Takes("connect") /\ Answer(Head(m_rx).from)
  /\ connected' = TRUE
  /\ spawns' = spawns \cup {First(Free)} /\ entity' = Stored(First(Free))
  /\ leaked' = leaked \cup Replaces
  /\ told' = FALSE /\ blind' = FALSE
  /\ UNCHANGED <<windows, despawns, pending, mask_size, crashed>>

ConnectOther ==
  /\ platform = "other"
  /\ Takes("connect") /\ Answer(Head(m_rx).from)
  /\ connected' = TRUE
  /\ Adjust(windows[Only].size, TRUE)
  /\ UNCHANGED <<entity, spawns, despawns, pending, mask_size, crashed, history>>

\* (variant) the entity is read and not taken.
TakenNot == entity

\* mask_window_entity.take().
Taken == None

\* (variant) the flag is set by a connect and never reset.
FlagKept == connected

\* A disconnect resets device_connected.
Flag == FALSE

DisconnectLinux ==
  /\ platform = "linux"
  /\ Takes("disconnect") /\ Answer(Head(m_rx).from)
  /\ connected' = Flag
  /\ despawns' = despawns \cup ({entity} \ {None}) /\ entity' = Taken
  /\ UNCHANGED <<windows, spawns, pending, mask_size, crashed, history>>

DisconnectOther ==
  /\ platform = "other"
  /\ Takes("disconnect") /\ Answer(Head(m_rx).from)
  /\ connected' = Flag
  /\ Adjust(windows[Only].size, FALSE)
  /\ UNCHANGED <<entity, spawns, despawns, pending, mask_size, crashed, history>>

\* A WinMove without a device is discarded.
MoveDiscarded ==
  /\ platform = "linux" /\ ~connected
  /\ Takes("move") /\ Answer(Head(m_rx).from)
  /\ UNCHANGED <<windowVars, pending, mask_size, crashed, history>>

\* With one window it is resized and shown, whichever window that is.
MoveLinux ==
  /\ platform = "linux" /\ connected /\ Single
  /\ Takes("move") /\ Answer(Head(m_rx).from)
  /\ Adjust(Head(m_rx).size, TRUE)
  /\ mask_size' = Head(m_rx).size
  /\ told' = TRUE /\ blind' = (entity \in spawns)
  /\ UNCHANGED <<connected, entity, spawns, despawns, pending, crashed, leaked>>

\* With none yet, or several, only the size is recorded.
MoveUnseen ==
  /\ platform = "linux" /\ connected /\ ~Single
  /\ Takes("move") /\ Answer(Head(m_rx).from)
  /\ mask_size' = Head(m_rx).size
  /\ told' = TRUE /\ blind' = (entity \in spawns)
  /\ UNCHANGED <<windowVars, pending, crashed, leaked>>

\* Elsewhere a hidden window is moved at once; one that is shown is hidden
\* first, and the answer waits.
MoveHidden ==
  /\ platform = "other" /\ ~windows[Only].visible
  /\ Takes("move") /\ Answer(Head(m_rx).from)
  /\ Adjust(Head(m_rx).size, FALSE)
  /\ mask_size' = Head(m_rx).size
  /\ told' = TRUE
  /\ UNCHANGED <<connected, entity, spawns, despawns, pending, crashed, leaked, blind>>

MoveShown ==
  /\ platform = "other" /\ windows[Only].visible
  /\ Takes("move")
  /\ pending' = [size |-> Head(m_rx).size, from |-> Head(m_rx).from, shrunk |-> FALSE]
  /\ Adjust(windows[Only].size, FALSE)
  /\ UNCHANGED <<stage, connected, entity, spawns, despawns, mask_size, crashed, history>>

\* The next two frames: ResizeState::Resizing, then Showing.
Resizing ==
  /\ ~crashed
  /\ pending # None /\ ~pending.shrunk
  /\ Adjust(pending.size, FALSE)
  /\ pending' = [pending EXCEPT !.shrunk = TRUE]
  /\ UNCHANGED <<platform, queueVars, connected, entity, spawns, despawns, mask_size, crashed, history>>

\* (variant) the resize stays pending.
ShownAgain == pending

\* Once the window is shown the resize is over.
Shown == None

\* (variant) the mappings keep the old size.
ShowingUnscaled ==
  /\ ~crashed
  /\ pending # None /\ pending.shrunk
  /\ Adjust(windows[Only].size, TRUE)
  /\ Answer(pending.from)
  /\ pending' = Shown
  /\ told' = TRUE
  /\ UNCHANGED <<platform, m_rx, connected, entity, spawns, despawns, mask_size, crashed, leaked, blind>>

Showing ==
  /\ ~crashed
  /\ pending # None /\ pending.shrunk
  /\ Adjust(windows[Only].size, TRUE)
  /\ mask_size' = windows[Only].size
  /\ Answer(pending.from)
  /\ pending' = Shown
  /\ told' = TRUE
  /\ UNCHANGED <<platform, m_rx, connected, entity, spawns, despawns, crashed, leaked, blind>>

\* The answer is unwrapped: it panics when the client has gone.
LevelChanges ==
  /\ Takes("level")
  /\ crashed' = (stage[Head(m_rx).from] = "gone")
  /\ Answer(Head(m_rx).from)
  /\ UNCHANGED <<windowVars, pending, mask_size, history>>

\* The frame ends when the channel is empty: the deferred commands run.
EndFrame ==
  /\ ~crashed
  /\ m_rx = <<>> /\ spawns \cup despawns # {}
  /\ windows' = [w \in Live |-> IF w \in DOMAIN windows THEN windows[w] ELSE NewWindow]
  /\ spawns' = {} /\ despawns' = {}
  /\ UNCHANGED <<platform, queueVars, connected, entity, pending, mask_size, crashed, history>>

Frame ==
  \/ ConnectLinux \/ ConnectOther \/ DisconnectLinux \/ DisconnectOther
  \/ MoveDiscarded \/ MoveLinux \/ MoveUnseen \/ MoveHidden \/ MoveShown
  \/ Resizing \/ Showing \/ LevelChanges \/ EndFrame

Next ==
  \/ Frame
  \/ \E k \in Conns : ConnectSent(k) \/ DisconnectSent(k)
  \/ \E s \in Movers \cup Clients : MoveSent(s)
  \/ \E s \in Clients : LevelSent(s) \/ ClientGone(s)

\* Every sender wakes the main thread, which runs frame after frame.
Spec     == Init /\ [][Next]_vars
FairSpec == Spec /\ WF_vars(Frame)

-----------------------------------------------------------------------------
(* Properties.                                                              *)

\* Between two frames.
Rest == spawns \cup despawns = {} /\ pending = None

\* There is a window to see if and only if a main device is connected, when
\* the frame is over (main.rs:71): a window of its own on Linux, the one there
\* is elsewhere.  The exceptions are windows whose entity a second connect has
\* replaced (mask_command.rs:262).
WindowFollows ==
  Rest => IF platform = "linux" THEN DOMAIN windows \ leaked = (IF connected THEN {entity} ELSE {})
          ELSE DOMAIN windows # {} /\ \A w \in DOMAIN windows : windows[w].visible <=> connected

\* Once a WinMove has been answered with a size, a connected mask is seen and
\* has the size the mappings scale with (mask_command.rs:133-170).  Not so
\* when it was handled in the frame of the connect, before the window was
\* there, or when a window was left over by overlapping connects.
ShownAsTold ==
  Rest /\ connected /\ told /\ ~blind /\ leaked = {}
    => \A w \in DOMAIN windows : windows[w] = [size |-> mask_size, visible |-> TRUE]

\* What the mask makes of a main control connection is the protocol that
\* connection keeps to: whatever resizes, frames and other connections come in
\* between, it shows what the change answered last says, and answers each once.
Standing == [idle |-> "away", waiting |-> "telling", on |-> "on", leaving |-> "parting"]
Protocol == INSTANCE MaskProtocol WITH
              at <- [k \in Conns |-> Standing[stage[k]]], shown <- connected
ImplementsProtocol == Protocol!Spec

\* Everybody is answered (utils/mod.rs:178 unwraps the answer), unless the main
\* thread has panicked.
AllAnswered ==
  \A s \in Senders : stage[s] \in {"waiting", "leaving"} ~> stage[s] \in {"idle", "on", "gone"} \/ crashed
=============================================================================
